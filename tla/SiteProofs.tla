------------------------------ MODULE SiteProofs ------------------------------
(***************************************************************************)
(* Proofs about what a site is set up with: Settings, for any number of    *)
(* requests, providers and domains, and Migrations, for any number of      *)
(* containers, versions and images.  Settings that must agree are always   *)
(* written by the same form: that is the invariant, and the unique index   *)
(* does the rest.  A migration takes effect at most once, and a server     *)
(* never starts before its migrations did.  Vora, for any number of sites, *)
(* people, budgets and lengths of the window: what the limiter still       *)
(* counts is what was charged.  At last Services, of which each of these   *)
(* and each of those in PeopleProofs and ContentProofs is a part.          *)
(***************************************************************************)
EXTENDS Services, PeopleProofs, ContentProofs, FiniteSetTheorems, TLAPS

\* What a form sets together, and what it may not say.
Sound(form) ==
  /\ "private" \in DOMAIN form <=> "feed" \in DOMAIN form
  /\ "private" \in DOMAIN form => ~(form["private"] /\ form["feed"])
  /\ "banner" \in DOMAIN form <=> "message" \in DOMAIN form
  /\ "banner" \in DOMAIN form => (form["banner"] => form["message"])

FormsAreSound == \A r \in Savers : change[r] # NoChange => Sound(change[r])

\* The first conjunct says no more than that change is a function of the savers.
SettingsInv == change \in [Savers -> {change[r] : r \in Savers}] /\ SettingsAgree /\ FormsAreSound

LEMMA InitSettings == SettingsInit => SettingsInv
BY FieldsAssumption DEF SettingsInit, SettingsInv, SettingsAgree, FormsAreSound, Fields, Switches, Columns

\* A form is bound only if it is sound.
LEMMA BindKeeps ==
  ASSUME SettingsInv, NEW r \in Savers, NEW form, Sound(form), Bind(r, form)
  PROVE  SettingsInv'
<1>1. SettingsAgree'
  BY DEF SettingsInv, SettingsAgree, Bind
<1>2. change' \in [Savers -> {change'[s] : s \in Savers}] /\ FormsAreSound'
  BY DEF SettingsInv, FormsAreSound, Bind
<1> QED
  BY <1>1, <1>2 DEF SettingsInv

LEMMA FormsKeep ==
  ASSUME SettingsInv, NEW r \in Savers,
         \/ AskForPrivacy(r) \/ AskForSubmission(r) \/ AskForDomain(r)
         \/ AskForBanner(r) \/ AskForEmailAuth(r) \/ AskForProvider(r)
  PROVE  SettingsInv'
<1>1. CASE AskForPrivacy(r)
  BY <1>1, BindKeeps DEF AskForPrivacy, Sound
<1>2. CASE AskForSubmission(r)
  BY <1>2, BindKeeps DEF AskForSubmission, Sound
<1>3. CASE AskForDomain(r)
  BY <1>3, BindKeeps DEF AskForDomain, Sound
<1>4. CASE AskForBanner(r)
  BY <1>4, BindKeeps DEF AskForBanner, Sound
<1>5. CASE AskForEmailAuth(r)
  BY <1>5, BindKeeps DEF AskForEmailAuth, Sound
<1>6. CASE AskForProvider(r)
  <2>1. PICK p \in SignInWith, on \in BOOLEAN : Bind(r, [f \in {p} |-> on])
    BY <1>6 DEF AskForProvider
  <2>2. Sound([f \in {p} |-> on])
    BY FieldsAssumption DEF Sound, Columns
  <2> QED
    BY <2>1, <2>2, BindKeeps
<1> QED
  BY <1>1, <1>2, <1>3, <1>4, <1>5, <1>6

\* Writing a sound form over settings that agree leaves settings that agree.
LEMMA SaveKeeps ==
  ASSUME SettingsInv, NEW r \in Savers, SaveSettings(r)
  PROVE  SettingsInv'
<1>1. setting' = Written(change[r]) /\ Sound(change[r]) /\ FreeDomain(setting'["domain"]) /\ elsewhere' = elsewhere
  BY DEF SettingsInv, FormsAreSound, SaveSettings
<1>2. \A f \in {"private", "feed", "banner", "message", "domain"} :
        setting'[f] = IF f \in DOMAIN change[r] THEN change[r][f] ELSE setting[f]
  BY <1>1 DEF Written, Fields, Switches, Columns
<1>3. SettingsAgree'
  <2>1. ~(setting'["private"] /\ setting'["feed"])
    BY <1>1, <1>2 DEF Sound, SettingsInv, SettingsAgree
  <2>2. setting'["banner"] => setting'["message"]
    BY <1>1, <1>2 DEF Sound, SettingsInv, SettingsAgree
  <2>3. setting'["domain"] = "" \/ setting'["domain"] # elsewhere'
    BY <1>1 DEF FreeDomain
  <2> QED
    BY <2>1, <2>2, <2>3 DEF SettingsAgree
<1>4. change' \in [Savers -> {change'[s] : s \in Savers}] /\ FormsAreSound'
  BY DEF SettingsInv, FormsAreSound, SaveSettings, LeaveForm
<1> QED
  BY <1>3, <1>4 DEF SettingsInv

LEMMA OtherStepsKeep ==
  ASSUME SettingsInv,
         \/ \E r \in Savers : SaveFails(r)
         \/ \E d \in Domains : ClaimElsewhere(d)
         \/ UNCHANGED settingVars
  PROVE  SettingsInv'
<1>1. ASSUME NEW r \in Savers, SaveFails(r) PROVE SettingsInv'
  BY <1>1 DEF SettingsInv, SettingsAgree, FormsAreSound, SaveFails, LeaveForm
<1>2. ASSUME NEW d \in Domains, ClaimElsewhere(d) PROVE SettingsInv'
  BY <1>2 DEF SettingsInv, SettingsAgree, FormsAreSound, ClaimElsewhere
<1>3. CASE UNCHANGED settingVars
  BY <1>3 DEF SettingsInv, SettingsAgree, FormsAreSound, settingVars
<1> QED
  BY <1>1, <1>2, <1>3

-----------------------------------------------------------------------------
\* Whatever forms are saved at once: no private site has a feed, no banner is
\* shown without a text, no custom domain leads to two sites.
THEOREM SettingsAlwaysAgree == SettingsSpec => []SettingsAgree
<1>1. SettingsInv /\ [SettingsNext]_settingVars => SettingsInv'
  BY FormsKeep, SaveKeeps, OtherStepsKeep DEF SettingsNext, FormStep, DoorStep, SavingStep
<1>2. SettingsInv => SettingsAgree
  BY DEF SettingsInv
<1> QED
  BY InitSettings, <1>1, <1>2, PTL DEF SettingsSpec

\* A form, like the settings it is written over, holds values of the fields.
Typed(form) ==
  /\ DOMAIN form \subseteq Fields
  /\ \A f \in Switches \cap DOMAIN form : form[f] \in BOOLEAN
  /\ "domain" \in DOMAIN form => form["domain"] \in Domains

SettingTypes ==
  /\ DOMAIN setting = Fields /\ Typed(setting)
  /\ elsewhere \in Domains
  /\ DOMAIN change = Savers
  /\ \A r \in Savers : change[r] # NoChange => Typed(change[r])

LEMMA SettingsTypes == SettingTypes => SettingsTypeOK
BY DEF SettingTypes, Typed, SettingsTypeOK, Fields

LEMMA InitSettingTypes == SettingsInit => SettingTypes
<1> SUFFICES ASSUME SettingsInit PROVE SettingTypes
  OBVIOUS
<1>1. "domain" \in Fields /\ Switches \subseteq Fields /\ "domain" \notin Switches
  BY FieldsAssumption DEF Fields, Switches, Columns
<1>2. PICK some \in SUBSET SignInWith :
        setting = [f \in Fields |-> IF f = "domain" THEN "" ELSE f \in {"feed", "emailAuth"} \cup some]
  BY DEF SettingsInit
<1>3. \A f \in Switches : setting[f] = (f \in {"feed", "emailAuth"} \cup some)
  BY <1>1, <1>2
<1>4. setting["domain"] \in Domains /\ DOMAIN setting = Fields
  BY <1>1, <1>2, FieldsAssumption
<1>5. \A f \in Switches : setting[f] \in BOOLEAN
  <2> SUFFICES ASSUME NEW f \in Switches PROVE setting[f] \in BOOLEAN
    OBVIOUS
  <2> DEFINE on == f \in {"feed", "emailAuth"} \cup some
  <2>1. setting[f] = on
    BY <1>3
  <2>2. on \in BOOLEAN
    OBVIOUS
  <2> HIDE DEF on
  <2> QED
    BY <2>1, <2>2
<1>6. Typed(setting)
  BY <1>4, <1>5 DEF Typed
<1>7. elsewhere = "" /\ change = [r \in Savers |-> NoChange]
  BY DEF SettingsInit
<1> QED
  BY <1>4, <1>6, <1>7, FieldsAssumption DEF SettingTypes

LEMMA StepSettingTypes ==
  ASSUME SettingTypes, [SettingsNext]_settingVars
  PROVE  SettingTypes'
<1>0. /\ "domain" \notin Switches /\ SignInWith \subseteq Switches /\ Columns \subseteq Switches
      /\ Fields = Switches \cup {"domain"}
  BY FieldsAssumption DEF Fields, Switches, Columns
<1>1. ASSUME NEW r \in Savers, NEW form, Typed(form), Bind(r, form) PROVE SettingTypes'
  <2>1. DOMAIN change' = Savers /\ \A s \in Savers : change'[s] = IF s = r THEN form ELSE change[s]
    BY <1>1 DEF Bind, SettingTypes
  <2> QED
    BY <1>1, <2>1 DEF Bind, SettingTypes
<1>2. ASSUME NEW r \in Savers, AskForPrivacy(r) \/ AskForSubmission(r) \/ AskForBanner(r) \/ AskForEmailAuth(r) \/ AskForProvider(r)
      PROVE  \E form : Bind(r, form) /\ Typed(form)
  <2>1. ASSUME NEW F \in SUBSET Switches, NEW form \in [F -> BOOLEAN] PROVE Typed(form)
    BY <1>0, <2>1 DEF Typed
  <2>2. ASSUME NEW private \in BOOLEAN, NEW feed \in BOOLEAN, NEW closed \in BOOLEAN
        PROVE  [f \in {"private", "feed", "closed"} |->
                  CASE f = "private" -> private [] f = "feed" -> feed [] OTHER -> closed]
                 \in [{"private", "feed", "closed"} -> BOOLEAN]
    OBVIOUS
  <2>3. CASE AskForPrivacy(r)
    BY <1>0, <2>1, <2>2, <2>3 DEF AskForPrivacy, Columns
  <2>4. CASE AskForSubmission(r)
    <3>1. PICK given \in SUBSET {"voraOnly", "files"} : \E form \in [given -> BOOLEAN] : Bind(r, form)
      BY <2>4 DEF AskForSubmission
    <3>2. given \in SUBSET Switches
      BY <1>0, <3>1 DEF Columns
    <3> QED
      BY <2>1, <3>1, <3>2
  <2>5. CASE AskForBanner(r)
    <3>1. PICK on \in BOOLEAN, text \in BOOLEAN : Bind(r, [f \in {"banner", "message"} |-> IF f = "banner" THEN on ELSE text])
      BY <2>5 DEF AskForBanner
    <3>2. {"banner", "message"} \in SUBSET Switches
      BY <1>0 DEF Columns
    <3> QED
      BY <2>1, <3>1, <3>2
  <2>6. CASE AskForEmailAuth(r)
    <3>1. {"emailAuth"} \in SUBSET Switches
      BY <1>0 DEF Columns
    <3> QED
      BY <2>1, <2>6, <3>1 DEF AskForEmailAuth
  <2>7. CASE AskForProvider(r)
    <3>1. PICK p \in SignInWith, on \in BOOLEAN : Bind(r, [f \in {p} |-> on])
      BY <2>7 DEF AskForProvider
    <3> QED
      BY <1>0, <2>1, <3>1
  <2> QED
    BY <1>2, <2>3, <2>4, <2>5, <2>6, <2>7
<1>3. ASSUME NEW r \in Savers, AskForDomain(r) PROVE SettingTypes'
  <2>1. PICK d \in Domains : Bind(r, [f \in {"domain"} |-> d])
    BY <1>3 DEF AskForDomain
  <2>2. Typed([f \in {"domain"} |-> d])
    BY <1>0 DEF Typed
  <2> QED
    BY <1>1, <2>1, <2>2
<1>4. ASSUME NEW r \in Savers, SaveSettings(r) PROVE SettingTypes'
  <2>1. Typed(change[r]) /\ setting' = Written(change[r]) /\ elsewhere' = elsewhere
        /\ change' = [change EXCEPT ![r] = NoChange]
    BY <1>4 DEF SaveSettings, SettingTypes, LeaveForm
  <2>2. DOMAIN setting' = Fields
        /\ \A f \in Fields : setting'[f] = IF f \in DOMAIN change[r] THEN change[r][f] ELSE setting[f]
    BY <2>1 DEF Written
  <2>3. Typed(setting)'
    BY <1>0, <2>1, <2>2 DEF SettingTypes, Typed
  <2> QED
    BY <2>1, <2>2, <2>3 DEF SettingTypes
<1>5. ASSUME NEW r \in Savers, SaveFails(r) PROVE SettingTypes'
  BY <1>5 DEF SaveFails, LeaveForm, SettingTypes, Typed
<1>6. ASSUME NEW d \in Domains, ClaimElsewhere(d) PROVE SettingTypes'
  BY <1>6 DEF ClaimElsewhere, SettingTypes, Typed
<1>7. ASSUME UNCHANGED settingVars PROVE SettingTypes'
  BY <1>7 DEF settingVars, SettingTypes, Typed
<1> QED
  BY <1>1, <1>2, <1>3, <1>4, <1>5, <1>6, <1>7 DEF SettingsNext, FormStep, DoorStep, SavingStep

\* A setting only ever has a value of its field: forms say nothing else.
THEOREM SettingsKeepTheirTypes == SettingsSpec => []SettingsTypeOK
BY InitSettingTypes, StepSettingTypes, SettingsTypes, PTL DEF SettingsSpec

-------------------------------------------------------------------------------
Known(v) == v \in history \/ v <= legacy

\* The history only continues what the former tool did.
HistoryIsLater == \A v \in history : legacy < v

\* What a container takes for the last version was there.
LastIsKnown ==
  \A m \in Migrators : migrator[m].at # "down" =>
    /\ migrator[m].files \in Images
    /\ legacy <= migrator[m].last
    /\ migrator[m].last = 0 \/ Known(migrator[m].last)

NothingSkipped == \A v, w \in Versions : v < w /\ Known(w) => Known(v)

NothingLeftToRun == \A m \in Migrators : migrator[m].at = "serving" => ToRun(m) = {}

MigrationsInv ==
  /\ MigrationsTypeOK /\ HistoryIsExact /\ HistoryIsLater /\ LastIsKnown /\ NothingLeftToRun
  /\ ImagesExtend => NothingSkipped

LEMMA VersionsAreNumbers == \A v : v \in Versions \cup {0} => v \in Nat
BY VersionsAssumption

LEMMA InitMigrations == MigrationsInit => MigrationsInv
<1> SUFFICES ASSUME MigrationsInit PROVE MigrationsInv
  OBVIOUS
<1> USE VersionsAssumption
<1>1. MigrationsTypeOK /\ LastIsKnown /\ NothingLeftToRun
  BY DEF MigrationsInit, MigrationsTypeOK, LastIsKnown, NothingLeftToRun, Down
<1>2. HistoryIsExact /\ HistoryIsLater
  BY DEF MigrationsInit, HistoryIsExact, HistoryIsLater
<1>3. NothingSkipped
  BY DEF MigrationsInit, NothingSkipped, Known
<1> QED
  BY <1>1, <1>2, <1>3 DEF MigrationsInv

LEMMA StartKeeps ==
  ASSUME MigrationsInv, NEW m \in Migrators, NEW files \in Images, NEW v \in Versions \cup {0},
         StartMigrate(m, files, v)
  PROVE  MigrationsInv'
<1> USE VersionsAssumption
<1>1. v \in Nat /\ legacy \in Nat /\ legacy <= v /\ (v = 0 \/ Known(v))
  <2>1. v \in Nat /\ legacy \in Nat
    BY VersionsAreNumbers DEF MigrationsInv, MigrationsTypeOK
  <2>2. CASE history = {}
    BY <2>1, <2>2 DEF StartMigrate, LastMigration, Known
  <2>3. CASE history # {}
    <3>1. v \in history
      BY <2>3 DEF StartMigrate, LastMigration
    <3> QED
      BY <2>1, <3>1 DEF MigrationsInv, HistoryIsLater, Known
  <2> QED
    BY <2>1, <2>2, <2>3
<1>2. MigrationsTypeOK' /\ HistoryIsExact' /\ HistoryIsLater'
  BY ImagesAssumption
     DEF MigrationsInv, MigrationsTypeOK, HistoryIsExact, HistoryIsLater, StartMigrate
<1>3. LastIsKnown'
  BY <1>1 DEF MigrationsInv, MigrationsTypeOK, LastIsKnown, Known, StartMigrate
<1>4. NothingLeftToRun'
  BY DEF MigrationsInv, MigrationsTypeOK, NothingLeftToRun, ToRun, StartMigrate
<1>5. ImagesExtend => NothingSkipped'
  BY DEF MigrationsInv, NothingSkipped, Known, StartMigrate
<1> QED
  BY <1>2, <1>3, <1>4, <1>5 DEF MigrationsInv, ImagesExtend

LEMMA RunKeeps ==
  ASSUME MigrationsInv, NEW m \in Migrators, NEW v \in Versions, RunMigration(m, v)
  PROVE  MigrationsInv'
<1> USE VersionsAssumption
<1>1. v \in Nat /\ legacy \in Nat /\ legacy < v /\ ~Known(v)
  <2>1. migrator[m].last \in Nat /\ legacy \in Nat /\ legacy <= migrator[m].last
    BY DEF MigrationsInv, MigrationsTypeOK, LastIsKnown, RunMigration
  <2> QED
    BY <2>1 DEF RunMigration, ToRun, Known
<1>2. MigrationsTypeOK'
  BY DEF MigrationsInv, MigrationsTypeOK, RunMigration
<1>3. HistoryIsExact'
  <2> SUFFICES ASSUME NEW w \in Versions
               PROVE  applied'[w] = IF w \in history' \/ w <= legacy' THEN 1 ELSE 0
    BY DEF HistoryIsExact
  <2>1. CASE w = v
    BY <1>1, <2>1 DEF MigrationsInv, MigrationsTypeOK, HistoryIsExact, RunMigration, Known
  <2>2. CASE w # v
    BY <2>2 DEF MigrationsInv, MigrationsTypeOK, HistoryIsExact, RunMigration
  <2> QED
    BY <2>1, <2>2
<1>4. HistoryIsLater'
  BY <1>1 DEF MigrationsInv, HistoryIsLater, RunMigration
<1>5. LastIsKnown'
  <2> SUFFICES ASSUME NEW n \in Migrators, migrator'[n].at # "down"
               PROVE  /\ migrator'[n].files \in Images
                      /\ legacy' <= migrator'[n].last
                      /\ \/ migrator'[n].last = 0
                         \/ migrator'[n].last \in history' \/ migrator'[n].last <= legacy'
    BY DEF LastIsKnown, Known
  <2>1. CASE n = m
    BY <1>1, <2>1 DEF MigrationsInv, MigrationsTypeOK, LastIsKnown, Known, RunMigration
  <2>2. CASE n # m
    BY <2>2 DEF MigrationsInv, MigrationsTypeOK, LastIsKnown, Known, RunMigration
  <2> QED
    BY <2>1, <2>2
<1>6. NothingLeftToRun'
  BY DEF MigrationsInv, MigrationsTypeOK, NothingLeftToRun, ToRun, RunMigration
<1>7. ASSUME ImagesExtend PROVE NothingSkipped'
  <2> SUFFICES ASSUME NEW u \in Versions, NEW w \in Versions, u < w, w \in history' \/ w <= legacy'
               PROVE  u \in history' \/ u <= legacy'
    BY DEF NothingSkipped, Known
  <2>1. CASE w # v
    BY <1>7, <2>1 DEF MigrationsInv, NothingSkipped, Known, RunMigration
  <2>2. CASE w = v
    <3>1. u \in migrator[m].files
      BY <1>7, <2>2 DEF MigrationsInv, LastIsKnown, ImagesExtend, RunMigration, ToRun
    <3>2. u <= migrator[m].last
      <4>1. u \notin ToRun(m)
        BY <2>2 DEF RunMigration
      <4>2. migrator[m].last \in Nat
        <5>1. migrator[m].last \in Versions \cup {0}
          BY DEF MigrationsInv, MigrationsTypeOK
        <5> QED
          BY <5>1, VersionsAreNumbers
      <4> QED
        BY <3>1, <4>1, <4>2 DEF ToRun
    <3>3. migrator[m].last \in Versions /\ Known(migrator[m].last)
      BY <3>2 DEF MigrationsInv, MigrationsTypeOK, LastIsKnown, RunMigration
    <3>4. Known(u)
      <4>1. CASE u = migrator[m].last
        BY <3>3, <4>1
      <4>2. CASE u # migrator[m].last
        <5>1. u < migrator[m].last
          <6>1. u \in Nat /\ migrator[m].last \in Nat
            BY <3>3, VersionsAreNumbers
          <6> QED
            BY <3>2, <4>2, <6>1
        <5> QED
          BY <1>7, <3>3, <5>1 DEF MigrationsInv, NothingSkipped
      <4> QED
        BY <4>1, <4>2
    <3> QED
      BY <3>4 DEF Known, RunMigration
  <2> QED
    BY <2>1, <2>2
<1> QED
  BY <1>2, <1>3, <1>4, <1>5, <1>6, <1>7 DEF MigrationsInv, ImagesExtend

\* A container that starts serving, goes, or does nothing.
LEMMA OthersKeep ==
  ASSUME MigrationsInv,
         \/ \E m \in Migrators : StartServer(m) \/ Goes(m)
         \/ UNCHANGED migrationVars
  PROVE  MigrationsInv'
<1> USE VersionsAssumption
<1>1. CASE UNCHANGED migrationVars
  BY <1>1 DEF MigrationsInv, migrationVars, MigrationsTypeOK, HistoryIsExact, HistoryIsLater,
              LastIsKnown, NothingLeftToRun, ToRun, ImagesExtend, NothingSkipped, Known
<1>2. ASSUME NEW m \in Migrators, StartServer(m) PROVE MigrationsInv'
  BY <1>2 DEF MigrationsInv, StartServer, MigrationsTypeOK, HistoryIsExact, HistoryIsLater,
              LastIsKnown, NothingLeftToRun, ToRun, ImagesExtend, NothingSkipped, Known
<1>3. ASSUME NEW m \in Migrators, Goes(m) PROVE MigrationsInv'
  BY <1>3 DEF MigrationsInv, Goes, Down, MigrationsTypeOK, HistoryIsExact, HistoryIsLater,
              LastIsKnown, NothingLeftToRun, ToRun, ImagesExtend, NothingSkipped, Known
<1> QED
  BY <1>1, <1>2, <1>3

LEMMA MigrationsAlwaysInv == MigrationsSpec => []MigrationsInv
<1>1. MigrationsInv /\ [MigrationsNext]_migrationVars => MigrationsInv'
  BY StartKeeps, RunKeeps, OthersKeep DEF MigrationsNext
<1> QED
  BY InitMigrations, <1>1, PTL DEF MigrationsSpec

-----------------------------------------------------------------------------
\* The file and its row are in one transaction, and the row is unique: the
\* history says what was applied, and nothing was applied twice.
THEOREM NoFileTwice == MigrationsSpec => []HistoryIsExact
<1>1. MigrationsInv => HistoryIsExact
  BY DEF MigrationsInv
<1> QED
  BY MigrationsAlwaysInv, <1>1, PTL

\* With images that extend each other, comparing versions with the last one
\* is enough: a server starts on a schema that has all of its files.
THEOREM ServersStartMigrated == MigrationsSpec => []ServersAreMigrated
<1>1. MigrationsInv => ServersAreMigrated
  <2> SUFFICES ASSUME MigrationsInv, ImagesExtend, NEW m \in Migrators, migrator[m].at = "serving",
                      NEW v \in migrator[m].files
               PROVE  applied[v] >= 1
    BY DEF ServersAreMigrated
  <2>1. v \in Versions /\ v \in Nat /\ migrator[m].last \in Nat /\ v <= migrator[m].last
    <3>1. v \in Versions /\ migrator[m].last \in Versions \cup {0}
      BY DEF MigrationsInv, MigrationsTypeOK
    <3>2. v \notin ToRun(m)
      BY DEF MigrationsInv, NothingLeftToRun
    <3>3. v \in Nat /\ migrator[m].last \in Nat
      BY <3>1, VersionsAreNumbers
    <3>4. ~(migrator[m].last < v)
      BY <3>2 DEF ToRun
    <3> QED
      BY <3>1, <3>3, <3>4
  <2>2. migrator[m].last \in Versions /\ Known(migrator[m].last)
    BY <2>1, VersionsAssumption DEF MigrationsInv, MigrationsTypeOK, LastIsKnown
  <2>3. Known(v)
    <3>1. CASE v = migrator[m].last
      BY <2>2, <3>1
    <3>2. CASE v # migrator[m].last
      <4>1. v < migrator[m].last
        BY <2>1, <3>2
      <4> QED
        BY <2>1, <2>2, <4>1 DEF MigrationsInv, NothingSkipped
    <3> QED
      BY <3>1, <3>2
  <2> QED
    BY <2>1, <2>3 DEF MigrationsInv, HistoryIsExact, Known
<1> QED
  BY MigrationsAlwaysInv, <1>1, PTL

-----------------------------------------------------------------------------
(* Vora and its limiter                                                    *)

\* A set of events as the limiter keeps them: numbers tell those of a moment
\* apart, none is of the future.
EventsUpTo(t) == {S \in SUBSET (Nat \X Nat) :
  /\ IsFiniteSet(S)
  /\ \A e \in S : e[1] <= t /\ e[2] <= Cardinality({x \in S : x[1] = e[1]})}

\* Of a site, the limiter counts what was charged in the window, and no more
\* than the budget.
HitsAreCharges ==
  /\ DOMAIN siteHits \subseteq Sites
  /\ \A s \in DOMAIN siteHits : siteHits[s] \in EventsUpTo(moment)
  /\ \A s \in Sites : Cardinality(Kept(siteHits, s, moment)) <= SiteBudget
  /\ forgot \/ \A s \in Sites : charged[s] = Kept(siteHits, s, moment)

\* A call to a model that is about to be made was charged.
CallsArePaid ==
  /\ unpaid = {}
  /\ \A r \in Requests : turn[r].at \in {"charged", "plain"} => turn[r].paid
  /\ \A r \in Requests : turn[r].at # "idle" => turn[r].site \in Sites

Turns == [at : {"idle", "charged", "plain", "called", "search"}, site : Sites \cup {"none"},
          round : 0..MaxRounds, custom : BOOLEAN, paid : BOOLEAN]

ChargesInv ==
  /\ moment \in Nat
  /\ turn \in [Requests -> Turns]
  /\ charged \in [Sites -> EventsUpTo(moment)]
  /\ HitsAreCharges
  /\ CallsArePaid

-----------------------------------------------------------------------------
\* What leaves the window does so with all of its moment.
LEMMA SinceIsEvents ==
  ASSUME NEW t \in Nat, NEW u \in Nat, NEW S \in EventsUpTo(t)
  PROVE  Since(S, u) \in EventsUpTo(t) /\ Since(S, u) \subseteq S
<1>1. Since(S, u) \subseteq S /\ IsFiniteSet(S) /\ S \subseteq Nat \X Nat
  BY DEF Since, EventsUpTo
<1>2. IsFiniteSet(Since(S, u))
  BY <1>1, FS_Subset
<1>3. ASSUME NEW e \in Since(S, u)
      PROVE  e[1] <= t /\ e[2] <= Cardinality({x \in Since(S, u) : x[1] = e[1]})
  <2>1. {x \in Since(S, u) : x[1] = e[1]} = {x \in S : x[1] = e[1]}
    BY DEF Since
  <2> QED
    BY <1>1, <2>1 DEF EventsUpTo
<1> QED
  BY <1>1, <1>2, <1>3 DEF EventsUpTo

\* One more event is another one.
LEMMA RecordedIsEvents ==
  ASSUME NEW t \in Nat, NEW S \in EventsUpTo(t)
  PROVE  /\ Recorded(S, t) \in EventsUpTo(t)
         /\ Cardinality(Recorded(S, t)) = Cardinality(S) + 1 /\ Cardinality(S) \in Nat
         /\ \A u \in Nat : u <= t => Since(Recorded(S, t), u) = Recorded(Since(S, u), t)
<1> DEFINE Now == {e \in S : e[1] = t}
           n == Cardinality(Now) + 1
<1>1. IsFiniteSet(S) /\ S \subseteq Nat \X Nat /\ Now \subseteq S
      /\ \A e \in S : e[1] <= t /\ e[2] <= Cardinality({x \in S : x[1] = e[1]})
  BY DEF EventsUpTo
<1>2. IsFiniteSet(Now) /\ Cardinality(Now) \in Nat /\ n \in Nat /\ Cardinality(S) \in Nat
  BY <1>1, FS_Subset, FS_CardinalityType
<1>3. <<t, n>> \notin S
  <2> SUFFICES ASSUME <<t, n>> \in S PROVE FALSE
    OBVIOUS
  <2>1. n <= Cardinality(Now)
    BY <1>1
  <2> QED
    BY <1>2, <2>1
<1>4. Recorded(S, t) = S \cup {<<t, n>>}
  BY DEF Recorded
<1>5. IsFiniteSet(S \cup {<<t, n>>}) /\ Cardinality(S \cup {<<t, n>>}) = Cardinality(S) + 1
  BY <1>1, <1>3, FS_AddElement
<1>6. IsFiniteSet(Now \cup {<<t, n>>}) /\ Cardinality(Now \cup {<<t, n>>}) = n
  BY <1>1, <1>2, <1>3, FS_AddElement
<1>7. ASSUME NEW e \in S \cup {<<t, n>>}
      PROVE  e[1] <= t /\ e[2] <= Cardinality({x \in S \cup {<<t, n>>} : x[1] = e[1]})
  <2>1. CASE e[1] = t
    <3>1. {x \in S \cup {<<t, n>>} : x[1] = e[1]} = Now \cup {<<t, n>>}
      BY <2>1
    <3>2. e[2] <= n
      <4>1. CASE e = <<t, n>>
        BY <1>2, <4>1
      <4>2. CASE e \in S
        <5>1. e[2] <= Cardinality(Now) /\ e[2] \in Nat
          BY <1>1, <2>1, <4>2
        <5> QED
          BY <1>2, <5>1
      <4> QED
        BY <4>1, <4>2
    <3>3. Cardinality({x \in S \cup {<<t, n>>} : x[1] = e[1]}) = n
      BY <1>6, <3>1
    <3>4. e[1] <= t
      BY <2>1
    <3> QED
      BY <3>2, <3>3, <3>4
  <2>2. CASE e[1] # t
    <3>1. e \in S /\ {x \in S \cup {<<t, n>>} : x[1] = e[1]} = {x \in S : x[1] = e[1]}
      BY <2>2
    <3> QED
      BY <1>1, <3>1
  <2> QED
    BY <2>1, <2>2
<1>8. Recorded(S, t) \in EventsUpTo(t)
  BY <1>1, <1>2, <1>4, <1>5, <1>7 DEF EventsUpTo
<1>9. ASSUME NEW u \in Nat, u <= t PROVE Since(Recorded(S, t), u) = Recorded(Since(S, u), t)
  <2>1. t > u - Window
    BY <1>9, RateLimitAssumption
  <2>2. {e \in Since(S, u) : e[1] = t} = Now
    BY <2>1 DEF Since
  <2>3. Recorded(Since(S, u), t) = Since(S, u) \cup {<<t, n>>}
    BY <2>2 DEF Recorded
  <2>4. Since(S \cup {<<t, n>>}, u) = Since(S, u) \cup {<<t, n>>}
    BY <2>1 DEF Since
  <2> QED
    BY <1>4, <2>3, <2>4
<1> QED
  BY <1>2, <1>4, <1>5, <1>8, <1>9

LEMMA LaterEvents ==
  ASSUME NEW t \in Nat, NEW S \in EventsUpTo(t), NEW u \in Nat, t <= u
  PROVE  /\ S \in EventsUpTo(u)
         /\ Since(S, u) = Since(Since(S, t), u) /\ Since(Since(S, t), t) = Since(S, t)
<1>1. \A e \in S : e[1] \in Nat /\ e[1] <= t
  BY DEF EventsUpTo
<1>2. S \in EventsUpTo(u)
  <2>1. \A e \in S : e[1] <= u
    BY <1>1
  <2> QED
    BY <2>1 DEF EventsUpTo
<1>3. \A e \in S : e[1] > u - Window => e[1] > t - Window
  BY <1>1, RateLimitAssumption
<1>4. Since(S, u) \subseteq Since(Since(S, t), u)
  BY <1>3 DEF Since
<1>5. Since(Since(S, t), u) \subseteq Since(S, u) /\ Since(Since(S, t), t) = Since(S, t)
  BY DEF Since
<1> QED
  BY <1>2, <1>4, <1>5

LEMMA Forgetting ==
  ASSUME NEW hits, NEW t, ~Forgets(hits, t), NEW k
  PROVE  Kept(Swept(hits, t), k, t) = Kept(hits, k, t)
<1> DEFINE live == {x \in DOMAIN hits : Kept(hits, x, t) # {}}
<1>1. Kept(hits, k, t) # {} => k \in DOMAIN Swept(hits, t)
  BY DEF Forgets, Kept
<1>2. k \in DOMAIN Swept(hits, t) => k \in DOMAIN hits /\ Swept(hits, t)[k] = hits[k]
  BY DEF Swept, NoHits, Restrict
<1> QED
  BY <1>1, <1>2 DEF Kept

LEMMA SweptIsHits ==
  ASSUME NEW hits, NEW t
  PROVE  /\ DOMAIN Swept(hits, t) \subseteq DOMAIN hits
         /\ \A k \in DOMAIN Swept(hits, t) : Swept(hits, t)[k] = hits[k]
         /\ \A k : Kept(Swept(hits, t), k, t) \in {Kept(hits, k, t), {}}
BY DEF Swept, NoHits, Restrict, Kept

LEMMA InitCharges == VoraInit => ChargesInv
<1> SUFFICES ASSUME VoraInit PROVE ChargesInv
  OBVIOUS
<1>1. {} \in EventsUpTo(moment)
  BY FS_EmptySet DEF EventsUpTo
<1>2. DOMAIN siteHits = {} /\ \A s : Kept(siteHits, s, moment) = {}
  BY DEF VoraInit, NoHits, Kept
<1>3. HitsAreCharges
  <2>1. Cardinality({}) <= SiteBudget
    BY FS_EmptySet, VoraAssumption
  <2>2. \A s \in Sites : charged[s] = {}
    BY DEF VoraInit
  <2> QED
    BY <1>2, <2>1, <2>2 DEF HitsAreCharges
<1>4. NoTurn \in Turns /\ NoTurn.at = "idle"
  BY VoraAssumption DEF NoTurn, Turns
<1>5. moment \in Nat /\ turn \in [Requests -> Turns] /\ charged \in [Sites -> EventsUpTo(moment)]
  BY <1>1, <1>4 DEF VoraInit
<1>6. CallsArePaid
  BY <1>4 DEF VoraInit, CallsArePaid
<1> QED
  BY <1>3, <1>5, <1>6 DEF ChargesInv

\* A charge, allowed or refused, is a charge in both.
LEMMA ChargeKeeps ==
  ASSUME ChargesInv, NEW s \in Sites, ChargeSite(s), moment' = moment
  PROVE  HitsAreCharges' /\ charged' \in [Sites -> EventsUpTo(moment)]
<1> DEFINE h == Swept(siteHits, moment)
           kept == Kept(h, s, moment)
<1>t. /\ moment \in Nat /\ charged \in [Sites -> EventsUpTo(moment)] /\ DOMAIN siteHits \subseteq Sites
      /\ \A k \in DOMAIN siteHits : siteHits[k] \in EventsUpTo(moment)
      /\ \A k \in Sites : Cardinality(Kept(siteHits, k, moment)) <= SiteBudget
  BY DEF ChargesInv, HitsAreCharges
<1>e. {} \in EventsUpTo(moment) /\ Cardinality({}) = 0 /\ SiteBudget \in Nat \ {0}
  BY FS_EmptySet, VoraAssumption DEF EventsUpTo
<1>1. /\ DOMAIN h \subseteq DOMAIN siteHits /\ \A k \in DOMAIN h : h[k] = siteHits[k]
      /\ \A k : Kept(h, k, moment) \in {Kept(siteHits, k, moment), {}}
  BY SweptIsHits
<1>2. \A k : Kept(h, k, moment) \in EventsUpTo(moment) /\ Since(Kept(h, k, moment), moment) = Kept(h, k, moment)
  <2> SUFFICES ASSUME NEW k
               PROVE  Kept(h, k, moment) \in EventsUpTo(moment) /\ Since(Kept(h, k, moment), moment) = Kept(h, k, moment)
    OBVIOUS
  <2>1. CASE k \in DOMAIN h
    <3>1. h[k] \in EventsUpTo(moment) /\ Kept(h, k, moment) = Since(h[k], moment)
      BY <1>t, <1>1, <2>1 DEF Kept
    <3> QED
      BY <1>t, <3>1, SinceIsEvents, LaterEvents
  <2>2. CASE k \notin DOMAIN h
    BY <1>e, <2>2 DEF Kept, Since
  <2> QED
    BY <2>1, <2>2
<1>3. siteHits' = AfterHit(h, s, SiteBudget, moment)
  BY DEF ChargeSite, AfterAllow
<1>4. SiteAllows(s) <=> Cardinality(kept) < SiteBudget
  BY DEF SiteAllows, Allowed, Within
<1>5. PICK new : new = IF SiteAllows(s) THEN Recorded(kept, moment) ELSE kept
  OBVIOUS
<1>6. siteHits' = [x \in DOMAIN h \cup {s} |-> IF x # s THEN h[x] ELSE new]
  BY <1>3, <1>5 DEF SiteAllows, Allowed, AfterHit
<1>7. new \in EventsUpTo(moment) /\ Since(new, moment) = new /\ Cardinality(new) <= SiteBudget
  <2>1. CASE SiteAllows(s)
    <3>1. new = Recorded(kept, moment) /\ Cardinality(kept) < SiteBudget
      BY <1>4, <1>5, <2>1
    <3>2. /\ Recorded(kept, moment) \in EventsUpTo(moment) /\ Cardinality(kept) \in Nat
          /\ Cardinality(Recorded(kept, moment)) = Cardinality(kept) + 1
          /\ Since(Recorded(kept, moment), moment) = Recorded(Since(kept, moment), moment)
      BY <1>t, <1>2, RecordedIsEvents
    <3> QED
      BY <1>2, <1>e, <3>1, <3>2
  <2>2. CASE ~SiteAllows(s)
    BY <1>1, <1>2, <1>5, <1>t, <1>e, <2>2
  <2> QED
    BY <2>1, <2>2
<1>8. \A k : Kept(siteHits', k, moment) = IF k = s THEN new ELSE Kept(h, k, moment)
  <2> HIDE DEF h
  <2> QED
    BY <1>6, <1>7 DEF Kept
<1>9. charged' = IF SiteAllows(s) THEN [charged EXCEPT ![s] = Recorded(@, moment)] ELSE charged
  BY DEF ChargeSite
<1>10. charged' \in [Sites -> EventsUpTo(moment)]
  <2>1. Recorded(charged[s], moment) \in EventsUpTo(moment)
    BY <1>t, RecordedIsEvents
  <2> QED
    BY <1>t, <1>9, <2>1
<1>11. forgot' \/ \A k \in Sites : charged'[k] = Kept(siteHits', k, moment)
  <2> SUFFICES ASSUME ~forgot', NEW k \in Sites PROVE charged'[k] = Kept(siteHits', k, moment)
    OBVIOUS
  <2>1. ~forgot /\ ~Forgets(siteHits, moment)
    BY DEF ChargeSite
  <2>2. \A x \in Sites : charged[x] = Kept(h, x, moment)
    <3> HIDE DEF h
    <3> QED
      BY <2>1, Forgetting DEF h, ChargesInv, HitsAreCharges
  <2>3. CASE k = s
    BY <1>t, <1>5, <1>8, <1>9, <2>2, <2>3
  <2>4. CASE k # s
    BY <1>t, <1>8, <1>9, <2>2, <2>4
  <2> QED
    BY <2>3, <2>4
<1>12. \A k \in Sites : Cardinality(Kept(siteHits', k, moment)) <= SiteBudget
  <2> SUFFICES ASSUME NEW k \in Sites PROVE Cardinality(Kept(siteHits', k, moment)) <= SiteBudget
    OBVIOUS
  <2>1. Cardinality(Kept(h, k, moment)) <= SiteBudget
    BY <1>1, <1>t, <1>e
  <2> QED
    BY <1>7, <1>8, <2>1
<1>13. DOMAIN siteHits' \subseteq Sites /\ \A k \in DOMAIN siteHits' : siteHits'[k] \in EventsUpTo(moment)
  BY <1>t, <1>1, <1>6, <1>7
<1> QED
  BY <1>10, <1>11, <1>12, <1>13 DEF HitsAreCharges

LEMMA StepCharges == ChargesInv /\ [VoraNext \/ (UsersStep /\ UNCHANGED voraVars)]_<<userVars, voraVars>> => ChargesInv'
<1> SUFFICES ASSUME ChargesInv, [VoraNext \/ (UsersStep /\ UNCHANGED voraVars)]_<<userVars, voraVars>> PROVE ChargesInv'
  OBVIOUS
<1>t. /\ moment \in Nat /\ turn \in [Requests -> Turns] /\ charged \in [Sites -> EventsUpTo(moment)]
      /\ HitsAreCharges /\ CallsArePaid /\ \A r \in Requests : turn[r] \in Turns
  BY DEF ChargesInv
<1>n. NoTurn \in Turns /\ NoTurn.at = "idle"
  BY VoraAssumption DEF NoTurn, Turns
\* Turns that end or go on, paid if a call is next.
<1>g. ASSUME NEW r \in Requests, NEW new \in Turns, GoOn(r, new), unpaid' = unpaid,
             new.at \in {"charged", "plain"} => new.paid, new.at # "idle" => new.site \in Sites
      PROVE  turn' \in [Requests -> Turns] /\ CallsArePaid'
  <2>1. turn' = [turn EXCEPT ![r] = new]
    BY <1>g DEF GoOn
  <2> QED
    BY <1>t, <1>g, <2>1 DEF CallsArePaid
<1>h. ASSUME UNCHANGED <<moment, siteHits, charged, forgot>>, turn' \in [Requests -> Turns], CallsArePaid'
      PROVE  ChargesInv'
  BY <1>t, <1>h DEF ChargesInv, HitsAreCharges
<1>1. ASSUME NEW r \in Requests, NEW s \in Sites, NEW p \in People, NEW kind \in {"ideate", "finalize"},
             StartTurn(r, s, p, kind)
      PROVE  ChargesInv'
  <2> DEFINE u == <<s, p>>
  <2>1. moment' = moment /\ unpaid' = unpaid
    BY <1>1 DEF StartTurn
  <2>2. CASE Within(userHits, u, UserBudget, moment)
    <3>1. ChargeSite(s)
      BY <1>1, <2>2 DEF StartTurn
    <3>2. HitsAreCharges' /\ charged' \in [Sites -> EventsUpTo(moment)]
      BY <2>1, <3>1, ChargeKeeps
    <3>3. turn' \in [Requests -> Turns] /\ CallsArePaid'
      <4>1. CASE SiteAllows(s)
        <5>1. PICK new : new = [NoTurn EXCEPT !.at = "charged", !.site = s, !.paid = TRUE,
                                              !.round = IF kind = "finalize" THEN MaxRounds ELSE 0,
                                              !.custom = provider = "custom"]
          OBVIOUS
        <5>2. (IF kind = "finalize" THEN MaxRounds ELSE 0) \in 0..MaxRounds /\ (provider = "custom") \in BOOLEAN
          BY VoraAssumption
        <5>3. new \in Turns /\ new.paid /\ new.site = s
          BY <1>n, <5>1, <5>2 DEF Turns
        <5>4. GoOn(r, new)
          BY <1>1, <2>2, <4>1, <5>1 DEF StartTurn
        <5> QED
          BY <1>g, <2>1, <5>3, <5>4
      <4>2. CASE ~SiteAllows(s)
        BY <1>t, <1>1, <2>1, <2>2, <4>2 DEF StartTurn, CallsArePaid
      <4> QED
        BY <4>1, <4>2
    <3> QED
      BY <1>t, <2>1, <3>2, <3>3 DEF ChargesInv
  <2>3. CASE ~Within(userHits, u, UserBudget, moment)
    <3>1. UNCHANGED <<turn, siteHits, charged, forgot>>
      BY <1>1, <2>3 DEF StartTurn
    <3>2. CallsArePaid'
      BY <1>t, <2>1, <3>1 DEF CallsArePaid
    <3> QED
      BY <1>t, <1>h, <2>1, <3>1, <3>2
  <2> QED
    BY <2>2, <2>3
<1>2. ASSUME NEW r \in Requests, Answered(r) PROVE ChargesInv'
  <2>1. PICK new : new = [turn[r] EXCEPT !.at = "called", !.paid = FALSE]
    OBVIOUS
  <2>2. new \in Turns /\ new.at = "called" /\ new.site = turn[r].site
    BY <1>t, <2>1 DEF Turns
  <2>3. turn[r].paid /\ turn[r].site \in Sites
    BY <1>2, <1>t DEF Answered, CallsArePaid
  <2>4. GoOn(r, new) /\ unpaid' = unpaid /\ UNCHANGED <<moment, siteHits, charged, forgot>>
    BY <1>2, <2>1, <2>3 DEF Answered
  <2> QED
    BY <1>g, <1>h, <2>2, <2>3, <2>4
<1>3. ASSUME NEW r \in Requests, AskPlain(r) PROVE ChargesInv'
  <2>1. PICK new : new = [turn[r] EXCEPT !.at = "plain"]
    OBVIOUS
  <2>2. new \in Turns /\ new.paid = turn[r].paid /\ new.site = turn[r].site
    BY <1>t, <2>1 DEF Turns
  <2>3. turn[r].paid /\ turn[r].site \in Sites
    BY <1>3, <1>t DEF AskPlain, CallsArePaid
  <2>4. GoOn(r, new) /\ UNCHANGED <<unpaid, moment, siteHits, charged, forgot>>
    BY <1>3, <2>1 DEF AskPlain
  <2> QED
    BY <1>g, <1>h, <2>2, <2>3, <2>4
<1>4. ASSUME NEW r \in Requests, Search(r) PROVE ChargesInv'
  <2>1. PICK new : new = [turn[r] EXCEPT !.at = "search", !.round = @ + 1]
    OBVIOUS
  <2>2. turn[r].round + 1 \in 0..MaxRounds
    BY <1>4, <1>t, VoraAssumption DEF Search, Turns
  <2>3. new \in Turns /\ new.at = "search" /\ new.site = turn[r].site
    BY <1>t, <2>1, <2>2 DEF Turns
  <2>4. turn[r].site \in Sites
    BY <1>4, <1>t DEF Search, CallsArePaid
  <2>5. GoOn(r, new) /\ UNCHANGED <<unpaid, moment, siteHits, charged, forgot>>
    BY <1>4, <2>1 DEF Search
  <2> QED
    BY <1>g, <1>h, <2>3, <2>4, <2>5
<1>5. ASSUME NEW r \in Requests, NextRound(r) PROVE ChargesInv'
  <2>1. PICK s : s = turn[r].site
    OBVIOUS
  <2>2. s \in Sites /\ ChargeSite(s) /\ moment' = moment /\ unpaid' = unpaid
    BY <1>5, <1>t, <2>1 DEF NextRound, CallsArePaid
  <2>3. PICK paid : paid = [turn[r] EXCEPT !.at = "charged", !.paid = TRUE]
    OBVIOUS
  <2>4. paid \in Turns /\ paid.paid /\ paid.site = s
    BY <1>t, <2>1, <2>3 DEF Turns
  <2>5. PICK new : new = IF SiteAllows(s) THEN paid ELSE NoTurn
    OBVIOUS
  <2>6. GoOn(r, new)
    BY <1>5, <2>1, <2>3, <2>5 DEF NextRound
  <2>7. new \in Turns /\ (new.at \in {"charged", "plain"} => new.paid) /\ (new.at # "idle" => new.site \in Sites)
    BY <1>n, <2>2, <2>4, <2>5
  <2>8. turn' \in [Requests -> Turns] /\ CallsArePaid'
    BY <1>g, <2>2, <2>6, <2>7
  <2> QED
    BY <1>t, <2>2, <2>8, ChargeKeeps DEF ChargesInv
<1>6. ASSUME NEW r \in Requests, EndTurn(r) PROVE ChargesInv'
  BY <1>g, <1>h, <1>n, <1>6 DEF EndTurn
<1>7. ASSUME TimePasses PROVE ChargesInv'
  <2>1. moment' = moment + 1 /\ UNCHANGED <<siteHits, turn, unpaid, forgot>>
        /\ charged' = [s \in Sites |-> Since(charged[s], moment')]
    BY <1>7 DEF TimePasses
  <2>2. charged' \in [Sites -> EventsUpTo(moment')]
    <3>1. \A s \in Sites : Since(charged[s], moment + 1) \in EventsUpTo(moment + 1)
      BY <1>t, LaterEvents, SinceIsEvents
    <3> QED
      BY <2>1, <3>1
  <2>3. \A s \in DOMAIN siteHits : siteHits[s] \in EventsUpTo(moment) /\ siteHits[s] \in EventsUpTo(moment + 1)
    BY <1>t, LaterEvents DEF HitsAreCharges
  <2>4. \A s : /\ Kept(siteHits, s, moment + 1) = Since(Kept(siteHits, s, moment), moment + 1)
               /\ Kept(siteHits, s, moment) \in EventsUpTo(moment)
    <3> SUFFICES ASSUME NEW s
                 PROVE  /\ Kept(siteHits, s, moment + 1) = Since(Kept(siteHits, s, moment), moment + 1)
                        /\ Kept(siteHits, s, moment) \in EventsUpTo(moment)
      OBVIOUS
    <3>1. CASE s \in DOMAIN siteHits
      BY <1>t, <2>3, <3>1, LaterEvents, SinceIsEvents DEF Kept
    <3>2. CASE s \notin DOMAIN siteHits
      <4>1. {} \in EventsUpTo(moment)
        BY FS_EmptySet DEF EventsUpTo
      <4> QED
        BY <3>2, <4>1 DEF Kept, Since
    <3> QED
      BY <3>1, <3>2
  <2>5. \A s \in Sites : Cardinality(Kept(siteHits, s, moment + 1)) <= SiteBudget
    <3> SUFFICES ASSUME NEW s \in Sites PROVE Cardinality(Kept(siteHits, s, moment + 1)) <= SiteBudget
      OBVIOUS
    <3> DEFINE S == Kept(siteHits, s, moment)
    <3>1. IsFiniteSet(S) /\ Cardinality(S) <= SiteBudget
      BY <1>t, <2>4 DEF EventsUpTo, HitsAreCharges
    <3>2. Since(S, moment + 1) \in SUBSET S
      BY DEF Since
    <3>3. /\ Cardinality(Since(S, moment + 1)) <= Cardinality(S)
          /\ Cardinality(Since(S, moment + 1)) \in Nat /\ Cardinality(S) \in Nat
      BY <3>1, <3>2, FS_Subset, FS_CardinalityType
    <3> QED
      BY <2>4, <3>1, <3>3, VoraAssumption
  <2>6. forgot \/ \A s \in Sites : charged'[s] = Kept(siteHits, s, moment + 1)
    BY <1>t, <2>1, <2>4 DEF HitsAreCharges
  <2>7. HitsAreCharges'
    BY <1>t, <2>1, <2>3, <2>5, <2>6 DEF HitsAreCharges
  <2> QED
    BY <1>t, <2>1, <2>2, <2>7 DEF ChargesInv, CallsArePaid
<1>8. ASSUME UNCHANGED <<moment, siteHits, charged, forgot, turn, unpaid>> PROVE ChargesInv'
  BY <1>t, <1>h, <1>8 DEF CallsArePaid
<1>9. ASSUME NEW admin, NEW x, SetAISettings(admin, x) PROVE ChargesInv'
  BY <1>8, <1>9 DEF SetAISettings
<1>10. ASSUME UNCHANGED voraVars PROVE ChargesInv'
  BY <1>8, <1>10 DEF voraVars
<1> QED
  BY <1>1, <1>2, <1>3, <1>4, <1>5, <1>6, <1>7, <1>9, <1>10 DEF VoraNext

\* CallsWithinBudget: every answer of a model was charged to its site before,
\* and no window holds more charges than the site's budget, unless the
\* limiter had to forget a site.
THEOREM CallsAlwaysWithinBudget == VoraSpec => []CallsWithinBudget
<1>1. ChargesInv => CallsWithinBudget
  BY DEF ChargesInv, HitsAreCharges, CallsArePaid, CallsWithinBudget
<1> QED
  BY <1>1, InitCharges, StepCharges, PTL DEF VoraSpec

\* What the limiter counts for users, and the clock, within its bound.
VoraTypes ==
  /\ moment \in 0..LastMoment
  /\ provider \in {"off", "hosted", "custom"}
  /\ DOMAIN userHits \subseteq Sites \X People
  /\ forgot \in BOOLEAN

LEMMA VoraTypesHold == ChargesInv /\ VoraTypes => VoraTypeOK
<1> SUFFICES ASSUME ChargesInv, VoraTypes PROVE VoraTypeOK
  OBVIOUS
<1>1. charged \in [Sites -> SUBSET ((0..LastMoment) \X Nat)]
  <2>1. ASSUME NEW s \in Sites PROVE charged[s] \in SUBSET ((0..LastMoment) \X Nat)
    <3>1. charged[s] \in SUBSET (Nat \X Nat) /\ \A e \in charged[s] : e[1] <= moment
      BY DEF ChargesInv, EventsUpTo
    <3>2. moment \in Nat /\ moment <= LastMoment /\ LastMoment \in Nat
      BY VoraAssumption DEF VoraTypes
    <3>3. ASSUME NEW e \in charged[s] PROVE e \in (0..LastMoment) \X Nat
      <4>1. e \in Nat \X Nat /\ e[1] <= moment
        BY <3>1
      <4> QED
        BY <3>2, <4>1
    <3> QED
      BY <3>3
  <2> QED
    BY <2>1 DEF ChargesInv
<1>2. \A r \in Requests : turn[r] \in Turns
  BY DEF ChargesInv
<1> QED
  BY <1>1, <1>2 DEF ChargesInv, HitsAreCharges, CallsArePaid, Turns, VoraTypes, VoraTypeOK

LEMMA StepVoraTypes ==
  ASSUME VoraTypes, [VoraNext \/ (UsersStep /\ UNCHANGED voraVars)]_<<userVars, voraVars>>
  PROVE  VoraTypes'
<1>1. ASSUME UNCHANGED <<moment, provider, userHits, forgot>> PROVE VoraTypes'
  BY <1>1 DEF VoraTypes
<1>2. ASSUME NEW s, ChargeSite(s) PROVE forgot' \in BOOLEAN
  BY <1>2 DEF ChargeSite, VoraTypes
<1>3. ASSUME NEW r \in Requests, NEW s \in Sites, NEW p \in People, NEW kind, StartTurn(r, s, p, kind) PROVE VoraTypes'
  <2>1. DOMAIN userHits' = DOMAIN userHits \cup {<<s, p>>} /\ UNCHANGED <<moment, provider>>
    BY <1>3 DEF StartTurn, AfterHit
  <2>2. forgot' \in BOOLEAN
    BY <1>2, <1>3 DEF StartTurn, VoraTypes
  <2> QED
    BY <2>1, <2>2 DEF VoraTypes
<1>4. ASSUME NEW r \in Requests, NextRound(r) PROVE VoraTypes'
  BY <1>2, <1>4 DEF NextRound, VoraTypes
<1>5. ASSUME NEW r \in Requests, Answered(r) \/ AskPlain(r) \/ Search(r) \/ EndTurn(r) PROVE VoraTypes'
  BY <1>1, <1>5 DEF Answered, AskPlain, Search, EndTurn
<1>6. ASSUME NEW admin, NEW x \in {"off", "hosted", "custom"}, SetAISettings(admin, x) PROVE VoraTypes'
  BY <1>6 DEF SetAISettings, VoraTypes
<1>7. ASSUME TimePasses PROVE VoraTypes'
  BY <1>7, VoraAssumption DEF TimePasses, VoraTypes
<1>8. ASSUME UNCHANGED voraVars PROVE VoraTypes'
  BY <1>1, <1>8 DEF voraVars
<1> QED
  BY <1>3, <1>4, <1>5, <1>6, <1>7, <1>8 DEF VoraNext

\* Nobody's turn goes further than its rounds, the clock no further than its
\* bound, and only the site's own users and sites are counted.
THEOREM VoraKeepsItsTypes == VoraSpec => []VoraTypeOK
<1>1. VoraInit => VoraTypes
  <2> SUFFICES ASSUME VoraInit PROVE VoraTypes
    OBVIOUS
  <2>1. DOMAIN userHits \subseteq Sites \X People
    BY DEF VoraInit, NoHits
  <2>2. moment \in 0..LastMoment /\ provider \in {"off", "hosted", "custom"}
    BY VoraAssumption DEF VoraInit
  <2>3. forgot \in BOOLEAN
    BY DEF VoraInit
  <2> QED
    BY <2>1, <2>2, <2>3 DEF VoraTypes
<1> QED
  BY <1>1, InitCharges, StepCharges, StepVoraTypes, VoraTypesHold, PTL DEF VoraSpec

-------------------------------------------------------------------------------
(* UserList *)

LEMMA StepUserList ==
  ASSUME UserListTypeOK, [UserListStep \/ (UsersStep /\ UNCHANGED userListVars)]_<<userVars, userListVars>>
  PROVE  UserListTypeOK'
<1> DEFINE Errand == [kind : {"create", "rename", "add", "remove", "update"}, who : People,
                      mail : Addresses, name : Titles \cup {NoTitle}, at : {"queued", "read", "pushing"}]
<1>t. errand \in [Errands -> {NoErrand} \cup Errand] /\ address \in [People -> Addresses]
  BY DEF UserListTypeOK
<1>1. ASSUME UNCHANGED userListVars PROVE UserListTypeOK'
  BY <1>1 DEF userListVars, UserListTypeOK
<1>2. ASSUME NEW t \in Errands, NEW kind \in {"create", "rename", "add", "remove", "update"}, NEW p \in People,
             NEW mail \in Addresses, NEW name \in Titles \cup {NoTitle}, Send(t, kind, p, mail, name)
      PROVE  errand' \in [Errands -> {NoErrand} \cup Errand]
  <2> DEFINE e == [kind |-> kind, who |-> p, mail |-> mail, name |-> name, at |-> "queued"]
  <2>1. e \in Errand
    OBVIOUS
  <2>2. errand' = [errand EXCEPT ![t] = e]
    BY <1>2 DEF Send
  <2> HIDE DEF e, Errand
  <2> QED
    BY <1>t, <2>1, <2>2
<1>3. ASSUME NEW t \in Errands, errand[t] # NoErrand, NEW mail \in Addresses, NEW stage \in {"queued", "read", "pushing"},
             errand' = [errand EXCEPT ![t].mail = mail, ![t].at = stage]
      PROVE  errand' \in [Errands -> {NoErrand} \cup Errand]
  <2> DEFINE e == [errand[t] EXCEPT !.mail = mail, !.at = stage]
  <2>1. errand[t] \in Errand
    BY <1>t, <1>3
  <2>2. e \in Errand
    BY <2>1
  <2>3. errand' = [errand EXCEPT ![t] = e]
    BY <1>t, <1>3
  <2> HIDE DEF e, Errand
  <2> QED
    BY <1>t, <2>2, <2>3
<1>4. ASSUME NEW t \in Errands, errand' = [errand EXCEPT ![t] = NoErrand]
      PROVE  errand' \in [Errands -> {NoErrand} \cup Errand]
  <2> HIDE DEF Errand
  <2> QED
    BY <1>t, <1>4
<1>5. ASSUME errand' \in [Errands -> {NoErrand} \cup Errand], UNCHANGED <<company, listed, address>>,
             title' \in Titles \/ title' = title
      PROVE  UserListTypeOK'
  BY <1>5 DEF UserListTypeOK
<1>6. ASSUME NEW t \in Errands, LookUp(t) PROVE UserListTypeOK'
  <2>1. errand[t] \in Errand
    BY <1>t, <1>6 DEF LookUp, Doing
  <2>2. address[errand[t].who] \in Addresses
    BY <1>t, <2>1
  <2>3. errand' \in [Errands -> {NoErrand} \cup Errand]
    BY <1>3, <1>6, <2>2 DEF LookUp, Doing
  <2> HIDE DEF Errand
  <2> QED
    BY <1>5, <1>6, <2>3 DEF LookUp
<1>7. ASSUME NEW t \in Errands, CheckRole(t) PROVE UserListTypeOK'
  <2>1. errand[t] \in Errand
    BY <1>t, <1>7 DEF CheckRole, Doing
  <2>2. CASE To(t, "pushing")
    <3> DEFINE e == [errand[t] EXCEPT !.at = "pushing"]
    <3>1. e \in Errand
      BY <2>1
    <3>2. errand' = [errand EXCEPT ![t] = e]
      BY <1>t, <2>2 DEF To
    <3> HIDE DEF e, Errand
    <3>3. errand' \in [Errands -> {NoErrand} \cup Errand]
      BY <1>t, <3>1, <3>2
    <3> QED
      BY <1>5, <1>7, <3>3 DEF CheckRole
  <2>3. CASE Settled(t)
    <3>1. errand' \in [Errands -> {NoErrand} \cup Errand]
      BY <1>4, <2>3 DEF Settled
    <3> HIDE DEF Errand
    <3> QED
      BY <1>5, <1>7, <3>1 DEF CheckRole
  <2> QED
    BY <1>7, <2>2, <2>3 DEF CheckRole
<1>8. ASSUME NEW t \in Errands, ErrandFails(t) PROVE UserListTypeOK'
  <2>1. errand' \in [Errands -> {NoErrand} \cup Errand]
    BY <1>4, <1>8 DEF ErrandFails, Settled
  <2> HIDE DEF Errand
  <2> QED
    BY <1>5, <1>8, <2>1 DEF ErrandFails
<1>9. ASSUME NEW t \in Errands, PushCompany(t) \/ PushUser(t) PROVE UserListTypeOK'
  <2>1. errand' \in [Errands -> {NoErrand} \cup Errand] /\ UNCHANGED <<title, address>>
    BY <1>4, <1>9 DEF PushCompany, PushUser, Settled
  <2>2. errand[t] \in Errand
    BY <1>t, <1>9 DEF PushCompany, PushUser, Doing
  <2>3. errand[t].who \in People /\ errand[t].mail \in Addresses /\ errand[t].name \in Titles \cup {NoTitle}
    BY <2>2
  <2> HIDE DEF Errand
  <2>4. company' \in Titles \cup {NoTitle}
    BY <1>9, <2>3 DEF PushCompany, PushUser, UserListTypeOK
  <2>5. listed' \in [People -> Addresses \cup {Unlisted}]
    BY <1>9, <2>3 DEF PushCompany, PushUser, UserListTypeOK
  <2> QED
    BY <2>1, <2>4, <2>5 DEF UserListTypeOK, Errand
<1>10. ASSUME NEW t \in Errands, NEW p \in People, NEW n \in Titles, SiteCreated(t, p, n) \/ UpdateSettings(t, p, n)
       PROVE  UserListTypeOK'
  <2>1. address[p] \in Addresses
    BY <1>t
  <2>2. errand' \in [Errands -> {NoErrand} \cup Errand]
    BY <1>2, <1>10, <2>1 DEF SiteCreated, UpdateSettings
  <2> HIDE DEF Errand
  <2> QED
    BY <1>5, <1>10, <2>2 DEF SiteCreated, UpdateSettings
<1>11. ASSUME NEW t \in Errands, NEW p \in People, UserDeleted(t, p) PROVE UserListTypeOK'
  <2>1. address[p] \in Addresses
    BY <1>t
  <2>2. errand' \in [Errands -> {NoErrand} \cup Errand]
    BY <1>2, <1>11, <2>1 DEF UserDeleted
  <2> HIDE DEF Errand
  <2> QED
    BY <1>5, <1>11, <2>2 DEF UserDeleted
<1>12. ASSUME NEW t \in Errands, NEW p \in People, NEW admin, NEW r, RoleChanged(t, admin, p, r) PROVE UserListTypeOK'
  <2>1. address[p] \in Addresses
    BY <1>t
  <2>2. errand' \in [Errands -> {NoErrand} \cup Errand]
    BY <1>2, <1>12, <2>1 DEF RoleChanged
  <2> HIDE DEF Errand
  <2> QED
    BY <1>5, <1>12, <2>2 DEF RoleChanged
<1>13. ASSUME NEW t \in Errands, NEW p \in People, NEW a \in Addresses, UserUpdated(t, p, a) PROVE UserListTypeOK'
  <2>1. errand' \in [Errands -> {NoErrand} \cup Errand]
    BY <1>2, <1>13 DEF UserUpdated
  <2> HIDE DEF Errand
  <2>2. address' \in [People -> Addresses] /\ UNCHANGED <<title, company, listed>>
    BY <1>t, <1>13 DEF UserUpdated
  <2> QED
    BY <2>1, <2>2 DEF UserListTypeOK, Errand
<1> HIDE DEF Errand
<1> QED
  BY <1>1, <1>6, <1>7, <1>8, <1>9, <1>10, <1>11, <1>12, <1>13, UsersAssumption DEF UserListStep, userListVars

-------------------------------------------------------------------------------
(* Services: the components together *)

LEMMA ServicesStart ==
  ASSUME ServicesInit
  PROVE  /\ SigningInit
         /\ GrantsInit /\ (\E admins \in SUBSET People : UsersInit(admins))
         /\ SignUpInit /\ VoraInit /\ (\E moderated \in BOOLEAN : DiscussionInit(moderated))
         /\ CatalogueInit /\ ScorecardsInit /\ WebhooksInit /\ MailInit /\ FilesInit
         /\ UserListInit /\ SettingsInit /\ MigrationsInit
<1>1. \E admins \in SUBSET People : UsersInit(admins)
  <2>1. UsersInit(IF part = "oauth" THEN People ELSE Admins) /\ Admins \subseteq People
    BY ServicesAssumption DEF ServicesInit
  <2> QED
    BY <2>1
<1>2. \E used \in SUBSET Mails : SignInInit(used)
  <2>1. SignInInit(IF part = "mails" THEN Mails ELSE Mails \ {MaxMails})
    BY DEF ServicesInit
  <2> QED
    BY <2>1
<1>3. SigningInit
  BY <1>1, <1>2 DEF ServicesInit, SigningInit
<1>4. \E moderated \in BOOLEAN : DiscussionInit(moderated)
  <2>1. DiscussionInit(part = "moderation")
    BY DEF ServicesInit
  <2>2. CASE part = "moderation"
    <3>1. DiscussionInit(TRUE)
      BY <2>1, <2>2
    <3> QED
      BY <3>1
  <2>3. CASE part # "moderation"
    <3>1. DiscussionInit(FALSE)
      BY <2>1, <2>3
    <3> QED
      BY <3>1
  <2> QED
    BY <2>2, <2>3
<1> QED
  BY <1>1, <1>3, <1>4 DEF ServicesInit

LEMMA ContentSteps ==
  ASSUME [ServicesNext]_<<part, otherVars>>
  PROVE  /\ [DiscussionNext]_discussionVars /\ [CatalogueNext]_catalogueVars
         /\ [ScorecardsNext]_scorecardVars /\ [WebhooksNext]_webhookVars
         /\ [MailNext]_mailVars /\ [FilesNext]_fileVars
<1>1. ASSUME UNCHANGED contentVars
      PROVE  UNCHANGED discussionVars /\ UNCHANGED catalogueVars /\ UNCHANGED scorecardVars
             /\ UNCHANGED webhookVars /\ UNCHANGED mailVars /\ UNCHANGED fileVars
  BY <1>1 DEF contentVars
<1>2. ASSUME ContentStep
      PROVE  /\ [DiscussionNext]_discussionVars /\ [CatalogueNext]_catalogueVars
             /\ [ScorecardsNext]_scorecardVars /\ [WebhooksNext]_webhookVars
             /\ [MailNext]_mailVars /\ [FilesNext]_fileVars
  <2>1. EachNamed \in Mentions /\ Unnamed \in Mentions
    BY UnnamedIsMentions, DiscussionAssumption DEF EachNamed, Mentions
  <2>0. TaskStep({w \in Wanting : Mentioning \subseteq w}) => TaskStep(Wanting)
    BY DEF TaskStep
  <2>2. TaskStep({w \in Wanting : Mentioning \subseteq w}) \/ TaskStep(Wanting) \/ WritingStep(EachNamed) \/ WritingStep(Unnamed)
        \/ PrivacyStep \/ StaffStep \/ ModerationStep => DiscussionNext
    BY <2>0, <2>1 DEF DiscussionNext
  <2>3. StatusStep \/ ProductStep \/ TagStep \/ IdeaStep => CatalogueNext
    BY DEF CatalogueNext
  <2> QED
    BY <1>2, <2>2, <2>3 DEF ContentStep
<1>3. UNCHANGED otherVars => UNCHANGED contentVars
  BY DEF otherVars
<1>4. ServicesNext => UNCHANGED contentVars \/ ContentStep
  BY DEF ServicesNext
<1> QED
  BY <1>1, <1>2, <1>3, <1>4

LEMMA SiteSteps ==
  ASSUME [ServicesNext]_<<part, otherVars>>
  PROVE  [SettingsNext]_settingVars /\ [MigrationsNext]_migrationVars
<1>1. UNCHANGED siteVars => UNCHANGED settingVars /\ UNCHANGED migrationVars
  BY DEF siteVars
<1>2. SiteStep => [SettingsNext]_settingVars /\ [MigrationsNext]_migrationVars
  BY DEF SiteStep, SettingsNext
<1>3. UNCHANGED otherVars => UNCHANGED siteVars
  BY DEF otherVars
<1>4. ServicesNext => UNCHANGED siteVars \/ SiteStep
  BY DEF ServicesNext
<1> QED
  BY <1>1, <1>2, <1>3, <1>4

\* Users change alone, or by what signing in does.
LEMMA UserSteps ==
  ASSUME [ServicesNext]_<<part, otherVars>>, part \notin {"signin", "mails", "provider"}
  PROVE  [UsersStep]_userVars
<1>1. UNCHANGED peopleVars => UNCHANGED userVars
  BY DEF peopleVars
<1>2. ASSUME part = "oauth", GrantsNext PROVE [UsersStep]_userVars
  <2>1. ASSUME NEW r \in Requests, TokenStep(r) PROVE UNCHANGED userVars
    BY <2>1 DEF TokenStep, ConsumeOAuthCode, ConsumeUnlocked, ReplayCode, ReuseToken, Revoke, RotateOAuthRefreshToken,
         RotateUnlocked, Burn, ReadGrantUser, Exchange, Rotated, FamilyRevoked, Abandon, SaveOAuthRefreshToken
  <2>2. ASSUME NEW r \in Requests, NEW p, NEW o, NEW c, DeleteOAuthClient(r) \/ ClientDeleted(r) \/ Approve(r, p, o) \/ SaveOAuthCode(r, c)
        PROVE  UNCHANGED userVars
    BY <2>2 DEF DeleteOAuthClient, ClientDeleted, Approve, SaveOAuthCode
  <2>3. ASSUME NEW p, NEW by, NEW x, RegisterOAuthClient(by) \/ SignInContinue(p) \/ Resume(p) \/ Expire(x) \/ Purge(x)
        PROVE  UNCHANGED userVars
    BY <2>3 DEF RegisterOAuthClient, SignInContinue, Resume, Expire, Purge
  <2> QED
    BY <1>2, <2>1, <2>2, <2>3 DEF GrantsNext
<1>3. ASSUME VoraNext PROVE UNCHANGED userVars
  BY <1>3 DEF VoraNext, Answered, AskPlain, Search, NextRound, EndTurn, StartTurn, SetAISettings, TimePasses
<1>4. ASSUME PeopleStep PROVE [UsersStep]_userVars
  BY <1>2, <1>3, <1>4 DEF PeopleStep
<1>5. ASSUME UserListStep PROVE [UsersStep]_userVars
  <2>1. ASSUME NEW t, LookUp(t) \/ CheckRole(t) \/ ErrandFails(t) \/ PushCompany(t) \/ PushUser(t) PROVE UNCHANGED userVars
    BY <2>1 DEF LookUp, CheckRole, ErrandFails, PushCompany, PushUser
  <2>2. ASSUME NEW t, NEW p, NEW n, SiteCreated(t, p, n) \/ UpdateSettings(t, p, n) \/ UserUpdated(t, p, n) PROVE UNCHANGED userVars
    BY <2>2 DEF SiteCreated, UpdateSettings, UserUpdated
  <2>3. ASSUME NEW t, NEW p \in Followed, UserDeleted(t, p) PROVE UsersStep
    BY <2>3 DEF UserDeleted, UsersStep
  <2>4. ASSUME NEW t, NEW p \in Followed, NEW admin \in People, NEW r \in {Visitor, Administrator}, RoleChanged(t, admin, p, r) PROVE UsersStep
    <3>1. r \in Visitor..Administrator
      BY DEF Visitor, Administrator
    <3> QED
      BY <2>4, <3>1 DEF RoleChanged, UsersStep
  <2> QED
    BY <1>5, <2>1, <2>2, <2>3, <2>4 DEF UserListStep
<1>6. SiteStep => UNCHANGED peopleVars \/ UserListStep
  BY DEF SiteStep
<1>7. UNCHANGED otherVars => UNCHANGED peopleVars
  BY DEF otherVars
<1>8. ServicesNext => UNCHANGED peopleVars \/ PeopleStep \/ SiteStep
  BY DEF ServicesNext
<1> QED
  BY <1>1, <1>4, <1>5, <1>6, <1>7, <1>8

\* Nobody's row waits for a saving where the provider is not saved.
NoRowWaits == part \notin {"signin", "provider"} => \A r \in Requests : saving[r].out = {}

LEMMA NoRowWaitsAtFirst == ServicesInit => NoRowWaits
<1>1. ServicesInit => SessionsInit
  BY DEF ServicesInit
<1>2. SessionsInit => \A r \in Requests : saving[r] = NoSaving
  BY DEF SessionsInit
<1>3. NoSaving.out = {}
  BY DEF NoSaving
<1> QED
  BY <1>1, <1>2, <1>3 DEF NoRowWaits

LEMMA NoRowWaitsLater ==
  ASSUME NoRowWaits, [ServicesNext]_<<part, otherVars>>
  PROVE  NoRowWaits'
<1>1. UNCHANGED peopleVars => UNCHANGED saving
  BY DEF peopleVars, sessionVars, listVars
<1>2. UNCHANGED sessionVars => UNCHANGED saving
  BY DEF sessionVars, listVars
<1>3. part \notin {"signin", "provider"} /\ (PeopleStep \/ SiteStep) => UNCHANGED saving
  <2>1. SignInStep => UNCHANGED saving
    BY DEF SignInStep, SendCode, WrongCode, RightCode, FindUser, SignUserIn, RegisterUser, GiveUp,
           ReadActiveVerification, AskForCode, FollowLink, SendInvite, RunsOut, ChangePolicy, sessionVars, listVars
  <2> QED
    BY <1>1, <1>2, <2>1 DEF PeopleStep, SiteStep
<1>4. UNCHANGED otherVars => UNCHANGED peopleVars
  BY DEF otherVars
<1>5. UNCHANGED part
  BY DEF ServicesNext
<1>6. part \notin {"signin", "provider"} => UNCHANGED saving
  BY <1>1, <1>3, <1>4 DEF ServicesNext
<1> QED
  BY <1>5, <1>6 DEF NoRowWaits

\* Whichever part is explored, what it does is what signing in allows for.
LEMMA SigningSteps ==
  ASSUME NoRowWaits, [ServicesNext]_<<part, otherVars>>
  PROVE  [SigningNext]_signingVars
<1>1. ASSUME [UsersStep]_userVars, UNCHANGED <<sessionVars, signInVars, providerVars>>, part \notin {"signin", "provider"}
      PROVE  [SigningNext]_signingVars
  <2>1. RowsWait
    BY <1>1 DEF RowsWait, NoRowWaits
  <2> QED
    BY <1>1, <2>1 DEF SigningNext, SessionsStep, signingVars
<1>2. ASSUME part \in {"signin", "mails", "provider"}, PeopleStep PROVE [SigningNext]_signingVars
  <2>1. ASSUME NEW p \in Followed, DeleteCurrentUser(p) PROVE UsersStep
    BY <2>1 DEF UsersStep
  <2>2. CASE part = "signin"
    BY <1>2, <2>2 DEF PeopleStep, SignInNext, SigningNext
  <2>3. CASE part = "mails"
    <3>1. (\E p \in Followed : DeleteCurrentUser(p)) /\ UNCHANGED <<sessionVars, signInVars, providerVars>>
            => [SigningNext]_signingVars
      BY <1>1, <2>1, <2>3
    <3> QED
      BY <1>2, <2>3, <3>1 DEF PeopleStep, SigningNext
  <2>4. CASE part = "provider"
    BY <1>2, <2>4 DEF PeopleStep, ProviderNext, SigningNext
  <2> QED
    BY <1>2, <2>2, <2>3, <2>4
<1>3. ASSUME part \notin {"signin", "mails", "provider"} PROVE [SigningNext]_signingVars
  <2>1. [UsersStep]_userVars
    BY <1>3, UserSteps
  <2>2. UNCHANGED peopleVars => UNCHANGED <<sessionVars, signInVars, providerVars>>
    BY DEF peopleVars
  <2>3. PeopleStep \/ SiteStep => UNCHANGED <<sessionVars, signInVars, providerVars>>
    BY <1>3, <2>2 DEF PeopleStep, SiteStep
  <2>4. UNCHANGED otherVars => UNCHANGED peopleVars
    BY DEF otherVars
  <2>5. UNCHANGED <<sessionVars, signInVars, providerVars>>
    BY <2>2, <2>3, <2>4 DEF ServicesNext
  <2>6. part \notin {"signin", "provider"}
    BY <1>3
  <2> QED
    BY <1>1, <2>1, <2>5, <2>6
<1>4. ASSUME part \in {"signin", "mails", "provider"} PROVE [SigningNext]_signingVars
  <2>1. UNCHANGED peopleVars => UNCHANGED signingVars
    BY DEF peopleVars, signingVars
  <2>2. SiteStep => UNCHANGED peopleVars
    BY <1>4 DEF SiteStep
  <2>3. UNCHANGED otherVars => UNCHANGED peopleVars
    BY DEF otherVars
  <2> QED
    BY <1>2, <1>4, <2>1, <2>2, <2>3 DEF ServicesNext
<1> QED
  BY <1>3, <1>4

LEMMA SignUpSteps ==
  ASSUME [ServicesNext]_<<part, otherVars>>
  PROVE  [SignUpStep]_signUpVars
<1>1. UNCHANGED peopleVars => UNCHANGED signUpVars
  BY DEF peopleVars
<1>2. PeopleStep \/ SiteStep => [SignUpStep]_signUpVars
  BY <1>1 DEF PeopleStep, SiteStep
<1>3. UNCHANGED otherVars => UNCHANGED peopleVars
  BY DEF otherVars
<1> QED
  BY <1>1, <1>2, <1>3 DEF ServicesNext

LEMMA SharingSteps ==
  ASSUME [ServicesNext]_<<part, otherVars>>, part \notin {"signin", "mails", "provider"}
  PROVE  /\ [GrantsNext]_<<userVars, grantVars>>
         /\ [VoraNext \/ (UsersStep /\ UNCHANGED voraVars)]_<<userVars, voraVars>>
         /\ [UserListStep \/ (UsersStep /\ UNCHANGED userListVars)]_<<userVars, userListVars>>
<1>u. [UsersStep]_userVars
  BY UserSteps
<1>0. UNCHANGED otherVars => UNCHANGED peopleVars /\ UNCHANGED siteVars
  BY DEF otherVars
<1>1. UNCHANGED peopleVars => UNCHANGED userVars /\ UNCHANGED grantVars /\ UNCHANGED voraVars
  BY DEF peopleVars
<1>2. UNCHANGED siteVars => UNCHANGED userListVars
  BY DEF siteVars
<1>3. [GrantsNext]_<<userVars, grantVars>>
  <2>1. PeopleStep \/ SiteStep => GrantsNext \/ UNCHANGED grantVars
    BY <1>1 DEF PeopleStep, SiteStep
  <2>2. UNCHANGED grantVars => [GrantsNext]_<<userVars, grantVars>>
    BY <1>u DEF GrantsNext
  <2> QED
    BY <1>0, <1>1, <2>1, <2>2 DEF ServicesNext
<1>4. [VoraNext \/ (UsersStep /\ UNCHANGED voraVars)]_<<userVars, voraVars>>
  <2>1. PeopleStep \/ SiteStep => VoraNext \/ UNCHANGED voraVars
    BY <1>1 DEF PeopleStep, SiteStep
  <2>2. UNCHANGED voraVars => [VoraNext \/ (UsersStep /\ UNCHANGED voraVars)]_<<userVars, voraVars>>
    BY <1>u
  <2> QED
    BY <1>0, <1>1, <2>1, <2>2 DEF ServicesNext
<1>5. [UserListStep \/ (UsersStep /\ UNCHANGED userListVars)]_<<userVars, userListVars>>
  <2>1. SiteStep => UserListStep \/ UNCHANGED userListVars
    BY DEF SiteStep
  <2>2. UNCHANGED userListVars => [UserListStep \/ (UsersStep /\ UNCHANGED userListVars)]_<<userVars, userListVars>>
    BY <1>u
  <2> QED
    BY <1>0, <1>2, <2>1, <2>2 DEF ServicesNext
<1> QED
  BY <1>3, <1>4, <1>5

\* The services explored together are the services, each as it is proved
\* about: what a part does is a step of every specification, or leaves its
\* state alone.  Where users sign up, or a provider is set up, they change in
\* ways the specifications of the last three have no step for.
THEOREM ServicesAreTheirParts ==
  ServicesSpec =>
    /\ SigningSpec /\ SignUpSpec
    /\ DiscussionSpec /\ CatalogueSpec /\ ScorecardsSpec /\ WebhooksSpec /\ MailSpec /\ FilesSpec
    /\ SettingsSpec /\ MigrationsSpec
    /\ part \notin {"signin", "mails", "provider"} => GrantsSpec /\ VoraSpec /\ UserListSpec
<1>1. ASSUME [ServicesNext]_<<part, otherVars>> PROVE UNCHANGED part
  BY <1>1 DEF ServicesNext
<1>2. part \notin {"signin", "mails", "provider"} /\ [ServicesNext]_<<part, otherVars>>
        => (part \notin {"signin", "mails", "provider"})'
  BY <1>1
<1>3. ServicesSpec => []NoRowWaits
  BY NoRowWaitsAtFirst, NoRowWaitsLater, PTL DEF ServicesSpec
<1> QED
  BY <1>2, <1>3, ServicesStart, ContentSteps, SiteSteps, SigningSteps, SignUpSteps, SharingSteps, PTL
  DEF ServicesSpec, SigningSpec, SignUpSpec, DiscussionSpec, CatalogueSpec, ScorecardsSpec, WebhooksSpec, MailSpec,
      FilesSpec, SettingsSpec, MigrationsSpec, GrantsSpec, VoraSpec, UserListSpec

\* Whatever part is explored, the state it is about is one the service can be in.
THEOREM ServicesKeepTheirTypes == ServicesSpec => []ServicesTypeOK
<1> DEFINE Sharing == part \notin {"signin", "mails", "provider"}
           PeopleTypes == SignInTypeOK /\ ProviderTypeOK /\ SignUpTypeOK
           ContentTypes == /\ DiscussionTypeOK /\ CatalogueTypeOK /\ ScorecardsTypeOK
                       /\ WebhooksTypeOK /\ MailTypeOK /\ FilesTypeOK
           SiteTypes == SettingsTypeOK /\ MigrationsTypeOK
           SharedTypes == GrantsTypeOK /\ VoraTypeOK /\ UserListTypeOK
<1>1. SigningSpec /\ SignUpSpec => []PeopleTypes
  <2>1. SigningInv /\ FoundingInv => PeopleTypes
    BY DEF SigningInv, SigningTypes, FoundingInv
  <2> QED
    BY <2>1, InitSigning, StepSigning, InitFounding, StepFounding, PTL DEF SigningSpec, SignUpSpec
<1>2. DiscussionSpec /\ CatalogueSpec /\ ScorecardsSpec /\ WebhooksSpec /\ MailSpec /\ FilesSpec => []ContentTypes
  <2>1. CardsInv => ScorecardsTypeOK
    BY DEF CardsInv
  <2>2. FilesInv => FilesTypeOK
    BY DEF FilesInv
  <2> QED
    BY <2>1, <2>2, DiscussionKeepsItsTypes, CatalogueKeepsItsTypes, InitCards, StepCards, WebhooksKeepTheirTypes,
       OneCopyForEverybody, InitFiles, StepFiles, PTL DEF ScorecardsSpec, FilesSpec
<1>3. SettingsSpec /\ MigrationsSpec => []SiteTypes
  <2>1. MigrationsInv => MigrationsTypeOK
    BY DEF MigrationsInv
  <2> QED
    BY <2>1, SettingsKeepTheirTypes, MigrationsAlwaysInv, PTL
<1>4. GrantsSpec /\ VoraSpec /\ UserListSpec => []SharedTypes
  <2>1. GrantsInv => GrantsTypeOK
    BY DEF GrantsInv
  <2>2. UserListInit => UserListTypeOK
    BY DEF UserListInit, UserListTypeOK
  <2> QED
    BY <2>1, <2>2, GrantsAlwaysInv, VoraKeepsItsTypes, StepUserList, PTL DEF UserListSpec
<1>5. [ServicesNext]_<<part, otherVars>> => (Sharing <=> Sharing')
  BY DEF ServicesNext
<1>6. PeopleTypes /\ ContentTypes /\ SiteTypes /\ (Sharing => SharedTypes) => ServicesTypeOK
  BY DEF ServicesTypeOK
<1> HIDE DEF Sharing, PeopleTypes, ContentTypes, SiteTypes, SharedTypes
<1>7. ServicesSpec => [](Sharing => SharedTypes)
  <2>1. ServicesSpec /\ Sharing => []SharedTypes
    BY ServicesAreTheirParts, <1>4 DEF Sharing
  <2>2. ServicesSpec /\ ~Sharing => []~Sharing
    BY <1>5, PTL DEF ServicesSpec
  <2> QED
    BY <2>1, <2>2, PTL
<1> QED
  BY <1>1, <1>2, <1>3, <1>6, <1>7, ServicesAreTheirParts, PTL
===============================================================================
