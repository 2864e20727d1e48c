------------------------------ MODULE Settings ------------------------------
(***************************************************************************)
(* The settings an administrator saves (handlers/admin.go,                 *)
(* actions/tenant.go, actions/oauth.go, services/sqlstore/postgres/        *)
(* tenant.go).  A request is checked against the row of the tenant as it   *)
(* was when the request began, and against what other queries find then;   *)
(* its UPDATE comes later and writes the columns of its form, so a form    *)
(* is a function of the fields it sets.                                    *)
(***************************************************************************)
EXTENDS Naturals, FiniteSets

CONSTANTS
  Savers,      \* requests in flight
  SignInWith,  \* the providers members can sign in with, besides e-mail
  Domains,     \* custom domains; "" for none
  NoChange     \* a saver that is not at work

VARIABLES
  setting,     \* setting[f] (tenants, oauth_providers.status)
  elsewhere,   \* the custom domain of another site
  change       \* change[r]: the fields and values r is about to write

settingVars == <<setting, elsewhere, change>>

Columns == {"private", "feed", "closed", "voraOnly", "files", "emailAuth", "banner", "message"}
Switches == Columns \cup SignInWith
Fields == Switches \cup {"domain"}

ASSUME FieldsAssumption == "domain" \notin SignInWith /\ Columns \cap SignInWith = {} /\ "" \in Domains

SettingsTypeOK ==
  /\ DOMAIN setting = Fields
  /\ \A f \in Switches : setting[f] \in BOOLEAN
  /\ setting["domain"] \in Domains /\ elsewhere \in Domains
  /\ \A r \in Savers : change[r] # NoChange => DOMAIN change[r] \subseteq Fields

\* createTenant, and a provider or none.
SettingsInit ==
  /\ \E some \in SUBSET SignInWith :
       setting = [f \in Fields |-> IF f = "domain" THEN "" ELSE f \in {"feed", "emailAuth"} \cup some]
  /\ elsewhere = ""
  /\ change = [r \in Savers |-> NoChange]

Bind(r, form) ==
  /\ change[r] = NoChange
  /\ change' = [change EXCEPT ![r] = form]
  /\ UNCHANGED <<setting, elsewhere>>

LeaveForm(r) == change' = [change EXCEPT ![r] = NoChange]

\* listActiveOAuthProviders
Enabled == {p \in SignInWith : setting[p]}

-----------------------------------------------------------------------------
\* A form from an outdated page has no isSignUpDisabled: the value of the
\* tenant that was read with the request is written back (closed is one of the
\* two in any case).
AskForPrivacy(r) ==
  \E private, feed, closed \in BOOLEAN :
    /\ ~(private /\ feed)
    /\ Bind(r, [f \in {"private", "feed", "closed"} |->
                  CASE f = "private" -> private [] f = "feed" -> feed [] OTHER -> closed])

\* An omitted field stays as it is: COALESCE in the UPDATE.
AskForSubmission(r) ==
  \E given \in SUBSET {"voraOnly", "files"} :
    /\ given # {}
    /\ \E form \in [given -> BOOLEAN] : Bind(r, form)

\* UpdateSettings, with validate.CNAME: the domain is free, isCNAMEAvailable says.
AskForDomain(r) ==
  \E d \in Domains :
    /\ d = "" \/ d # elsewhere
    /\ Bind(r, [f \in {"domain"} |-> d])

AskForBanner(r) ==
  \E on, text \in BOOLEAN :
    /\ on => text
    /\ Bind(r, [f \in {"banner", "message"} |-> IF f = "banner" THEN on ELSE text])

\* Refused without a provider, whether it is to be allowed or not.
AskForEmailAuth(r) ==
  /\ Enabled # {}
  /\ \E on \in BOOLEAN : Bind(r, [f \in {"emailAuth"} |-> on])

\* SetSystemProviderStatus and CreateEditOAuthConfig count the providers that
\* are enabled, the one that is saved or not.
AskForProvider(r) ==
  \E p \in SignInWith, on \in BOOLEAN :
    /\ on \/ setting["emailAuth"] \/ Cardinality(Enabled) # 1
    /\ Bind(r, [f \in {p} |-> on])

-----------------------------------------------------------------------------
Written(form) == [f \in Fields |-> IF f \in DOMAIN form THEN form[f] ELSE setting[f]]

\* A unique index on tenants.cname decides who gets a domain.
FreeDomain(d) == d = "" \/ d # elsewhere

SaveSettings(r) ==
  /\ change[r] # NoChange
  /\ LET new == Written(change[r]) IN FreeDomain(new["domain"]) /\ setting' = new
  /\ LeaveForm(r)
  /\ UNCHANGED elsewhere

SaveFails(r) ==
  /\ change[r] # NoChange
  /\ LeaveForm(r)
  /\ UNCHANGED <<setting, elsewhere>>

ClaimElsewhere(d) ==
  /\ d = "" \/ d # setting["domain"]
  /\ elsewhere' = d
  /\ UNCHANGED <<setting, change>>

FormStep ==
  \E r \in Savers : AskForPrivacy(r) \/ AskForSubmission(r) \/ AskForDomain(r)

DoorStep ==
  \E r \in Savers : AskForBanner(r) \/ AskForEmailAuth(r) \/ AskForProvider(r)

SavingStep ==
  \/ \E r \in Savers : SaveSettings(r) \/ SaveFails(r)
  \/ \E d \in Domains : ClaimElsewhere(d)

SettingsNext == FormStep \/ DoorStep \/ SavingStep

SettingsSpec == SettingsInit /\ [][SettingsNext]_settingVars

-----------------------------------------------------------------------------
\* What no single form may say stays unsaid whatever forms are saved at once:
\* a private site has no feed, a banner that is shown has a text, and a custom
\* domain leads to one site.
SettingsAgree ==
  /\ ~(setting["private"] /\ setting["feed"])
  /\ setting["banner"] => setting["message"]
  /\ setting["domain"] = "" \/ setting["domain"] # elsewhere
=============================================================================
