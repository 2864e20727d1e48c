SPECIFICATION ServicesSpec
CONSTANTS
  Parts = {"signin", "mails", "provider", "oauth", "signup", "vora", "telling", "moderation",
           "statuses", "products", "tags", "scorecards", "webhooks", "mail", "files",
           "userlist", "forms", "doors", "migrations"}
  Requests = {r1, r2}
  People = {root, bob}
  Admins = {root}
  Followed = {bob}
  MaxStamp = 2
  RoleLists = {"", "staff"}
  Browsers = {b1}
  NoCookie = NoCookie
  MaxMails = 2
  MaxTries = 2
  Policies = {"open"}
  Nowhere = Nowhere
  Codes = {c1}
  Tokens = {k1, k2}
  Origins = {"mcp"}
  MinRole = 2
  NoRow = NoRow
  MaxLinks = 2
  Sites = {s1, s2}
  Window = 2
  MaxKeys = 1
  UserBudget = 1
  SiteBudget = 2
  MaxRounds = 1
  LastMoment = 2
  Talkers = {staff, author, member}
  Team = {staff}
  Author = author
  Comments = {c}
  Idea = Idea
  MaxNaming = 2
  Tasks = {r1, r2}
  NoComment = NoComment
  NoTask = NoTask
  Mentioning = {member}
  Subscribing = {member}
  Wanting = {{}, {staff, author, member}}
  Askers = {r1, r2}
  Ideas = {i1}
  Slugs = {"open", "later"}
  Products = {x1}
  Tags = {t1, t2}
  TagNames = {ui, Ui}
  Twins = {ui, Ui}
  General = General
  NoAsk = NoAsk
  NoIdea = NoIdea
  Scorers = {r1, r2}
  Topics = {i1}
  Keys = {"status", "k"}
  Seeded = {"status"}
  NoCard = NoCard
  NoForm = NoForm
  Callers = {r1, r2}
  HookIds = {1, 2}
  DisableOnFailure = TRUE
  NoCalls = NoCalls
  Nothing = Nothing
  Mailboxes = {m1, m2, m3}
  Skipped = {m2}
  MaxAttempts = 3
  NoMessage = NoMessage
  Uploaders = {r1, r2}
  Folders = {d1, d2}
  ImageKeys = {k}
  FreshKeys = {f1, f2}
  MaxContents = 2
  MaxUploads = 1
  NoUpload = NoUpload
  NoBlob = NoBlob
  NoKey = NoKey
  Errands = {r1, r2}
  Addresses = {a1, a2}
  Titles = {"old", "new"}
  Unlisted = Unlisted
  NoErrand = NoErrand
  NoTitle = NoTitle
  Savers = {r1, r2}
  SignInWith = {"google", "custom"}
  Domains = {"", "ideas"}
  NoChange = NoChange
  Migrators = {r1, r2}
  Versions = {1, 2, 3}
  MaxGuesses = 4
  MaxAccounts = 2
  Images = {{1}, {1, 2}, {1, 2, 3}}
INVARIANTS
  ServicesTypeOK
  OneLiveTokenPerFamily
  LiveTokensAreTraceable
  WorkingSessionsAreCurrent
  GuessesBounded
  CallsWithinBudget
  ActiveWithItsFounder
  MentionedOnce
  ToldWhatTheyMaySee
  IdeasKeepTheirStatus
  AnswersKeepTheirQuestion
  MarkingNeverDeadlocks
  AttachmentsKeepTheirContent
PROPERTY
  KeepsFamilies
SYMMETRY AnyRequest
CHECK_DEADLOCK FALSE
