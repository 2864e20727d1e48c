------------------------------ MODULE Services ------------------------------
(***************************************************************************)
(* The services that share nothing but the users, each explored on its     *)
(* own: part says which one a behaviour is about, the state of the others  *)
(* stays as it is at first.                                                *)
(***************************************************************************)
EXTENDS SigningIn, OAuthGrants, SignUp, Vora, Discussion,
        Catalogue, Scorecards, Webhooks, Mail, Files, UserList, Settings,
        Migrations

CONSTANTS
  Parts,          \* the parts to explore
  Admins,         \* those who are administrators at first
  Mentioning,     \* whom a text mentions
  MaxGuesses,     \* bound: wrong codes in "mails"
  MaxAccounts     \* bound: those who talk to the agent

ASSUME ServicesAssumption == Admins \subseteq People /\ Mentioning \subseteq Talkers

AnyAddress == [p \in People |-> CHOOSE a \in Addresses : TRUE]

VARIABLE part

peopleVars == <<userVars, sessionVars, signInVars, providerVars, grantVars, signUpVars, voraVars>>
contentVars == <<discussionVars, catalogueVars, scorecardVars, webhookVars, mailVars, fileVars>>
siteVars == <<userListVars, settingVars, migrationVars>>
otherVars == <<peopleVars, contentVars, siteVars>>

\* In "signin" the last mail is not used.  "mails" has all of them, with the
\* codes and links of sign-in mails only.  The cookies of earlier releases are
\* in "provider".  Where clients are authorized, everybody is an administrator
\* at first.
ServicesInit ==
  /\ part \in Parts
  /\ UsersInit(IF part = "oauth" THEN People ELSE Admins)
  /\ IF part = "provider" THEN SessionsInit ELSE SessionsInit /\ \A b \in Browsers : cookie[b] = NoCookie
  /\ SignInInit(IF part = "mails" THEN Mails ELSE Mails \ {MaxMails})
  /\ ProviderInit /\ GrantsInit /\ SignUpInit /\ VoraInit /\ DiscussionInit(part = "moderation")
  /\ CatalogueInit /\ ScorecardsInit /\ WebhooksInit
  /\ IF part = "mail" THEN MailInit ELSE MailInit /\ mailer = "smtp"
  /\ IF part = "files" THEN FilesInit ELSE FilesInit /\ storage = "sql" /\ \A i \in Folders : access[i] = "public"
  /\ IF part = "userlist" THEN UserListInit ELSE UserListInit /\ address = AnyAddress
  /\ IF part \in {"forms", "doors"} THEN SettingsInit ELSE SettingsInit /\ Enabled = {}
  /\ IF part = "migrations" THEN MigrationsInit ELSE MigrationsInit /\ legacy = 0

\* Bound: a request either signs somebody in or saves the provider, and it
\* saves another list than the one it found.
OneAtATime == \A r \in Requests : saving'[r].at # "none" =>
  entry'[r].at = "idle" /\ flow'[r].at = "none" /\ saving'[r].list # saving'[r].found

PeopleStep ==
  \/ part = "signin" /\ SignInNext
     /\ UNCHANGED <<providerVars, grantVars, signUpVars, voraVars>>
     /\ OneAtATime /\ Cardinality({r \in Requests : saving'[r].at # "none"}) <= 1
  \/ part = "mails" /\ SignInStep /\ (\A m \in Mails : mails'[m].kind = "signin")
     /\ (\A r \in Requests : entry'[r].how = "code") /\ guesses'[1] + guesses'[MaxMails] <= MaxGuesses
     /\ UNCHANGED <<providerVars, grantVars, signUpVars, voraVars>>
  \/ part = "mails" /\ (\E p \in Followed : DeleteCurrentUser(p))
     /\ UNCHANGED <<sessionVars, signInVars, providerVars, grantVars, signUpVars, voraVars>>
  \/ part = "provider" /\ ProviderNext
     /\ UNCHANGED <<signInVars, grantVars, signUpVars, voraVars>> /\ OneAtATime
  \/ part = "oauth" /\ GrantsNext /\ (\A p \in People : role'[p] # Collaborator) /\ client' # "admin"
     /\ UNCHANGED <<sessionVars, signInVars, providerVars, signUpVars, voraVars>>
  \/ part = "signup" /\ SignUpStep
     /\ UNCHANGED <<userVars, sessionVars, signInVars, providerVars, grantVars, voraVars>>
  \/ part = "vora" /\ VoraNext /\ Cardinality({r \in Requests : turn'[r] # NoTurn}) <= 1
     /\ Cardinality(DOMAIN userHits') <= MaxAccounts
     /\ UNCHANGED <<sessionVars, signInVars, providerVars, grantVars, signUpVars>>

EachNamed == [p \in Talkers |-> IF p \in Mentioning THEN MaxNaming ELSE 0]

ContentStep ==
  \/ part = "telling" /\ (TaskStep({w \in Wanting : Mentioning \subseteq w}) \/ WritingStep(EachNamed) \/ PrivacyStep)
     /\ UNCHANGED <<catalogueVars, scorecardVars, webhookVars, mailVars, fileVars>>
  \/ part = "moderation" /\ (TaskStep(Wanting) \/ WritingStep(Unnamed) \/ PrivacyStep \/ StaffStep \/ ModerationStep)
     /\ Cardinality({j \in Tasks : tasks'[j] # NoTask}) <= 1
     /\ UNCHANGED <<catalogueVars, scorecardVars, webhookVars, mailVars, fileVars>>
  \/ part = "statuses" /\ (StatusStep \/ IdeaStep)
     /\ UNCHANGED <<discussionVars, scorecardVars, webhookVars, mailVars, fileVars>>
  \/ part = "products" /\ (ProductStep \/ IdeaStep)
     /\ UNCHANGED <<discussionVars, scorecardVars, webhookVars, mailVars, fileVars>>
  \/ part = "tags" /\ (TagStep \/ IdeaStep)
     /\ UNCHANGED <<discussionVars, scorecardVars, webhookVars, mailVars, fileVars>>
  \/ part = "scorecards" /\ ScorecardsNext
     /\ UNCHANGED <<discussionVars, catalogueVars, webhookVars, mailVars, fileVars>>
  \/ part = "webhooks" /\ WebhooksNext
     /\ UNCHANGED <<discussionVars, catalogueVars, scorecardVars, mailVars, fileVars>>
  \/ part = "mail" /\ MailNext
     /\ UNCHANGED <<discussionVars, catalogueVars, scorecardVars, webhookVars, fileVars>>
  \/ part = "files" /\ FilesNext
     /\ UNCHANGED <<discussionVars, catalogueVars, scorecardVars, webhookVars, mailVars>>

SiteStep ==
  \/ part = "userlist" /\ UserListStep
     /\ UNCHANGED <<sessionVars, signInVars, providerVars, grantVars, signUpVars, voraVars, settingVars, migrationVars>>
  \/ part = "forms" /\ (FormStep \/ SavingStep)
     /\ UNCHANGED <<peopleVars, userListVars, migrationVars>>
  \/ part = "doors" /\ (DoorStep \/ SavingStep)
     /\ UNCHANGED <<peopleVars, userListVars, migrationVars>>
  \/ part = "migrations" /\ MigrationsNext
     /\ UNCHANGED <<peopleVars, userListVars, settingVars>>

ServicesNext ==
  /\ UNCHANGED part
  /\ \/ PeopleStep /\ UNCHANGED <<contentVars, siteVars>>
     \/ ContentStep /\ UNCHANGED <<peopleVars, siteVars>>
     \/ SiteStep /\ UNCHANGED contentVars
  /\ \A p \in People : stamp'[p] <= IF part = "userlist" THEN MaxStamp ELSE 1

ServicesSpec == ServicesInit /\ [][ServicesNext]_<<part, otherVars>>

ServicesTypeOK ==
  /\ part \in {"signin", "mails", "provider"} => SignInTypeOK /\ ProviderTypeOK
  /\ part = "oauth" => GrantsTypeOK
  /\ part = "signup" => SignUpTypeOK
  /\ part = "vora" => VoraTypeOK
  /\ part \in {"telling", "moderation"} => DiscussionTypeOK
  /\ part \in {"statuses", "products", "tags"} => CatalogueTypeOK
  /\ part = "scorecards" => ScorecardsTypeOK
  /\ part = "webhooks" => WebhooksTypeOK
  /\ part = "mail" => MailTypeOK
  /\ part = "files" => FilesTypeOK
  /\ part = "userlist" => UserListTypeOK
  /\ part \in {"forms", "doors"} => SettingsTypeOK
  /\ part = "migrations" => MigrationsTypeOK

=============================================================================
