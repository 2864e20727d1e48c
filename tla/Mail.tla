-------------------------------- MODULE Mail --------------------------------
(***************************************************************************)
(* Sending one message to a list of people (cmd.SendMail) through each of  *)
(* the providers: services/email/smtp, awsses, mailgun and resend.  The    *)
(* provider is external: a request it accepted may look failed here, and   *)
(* Resend drops a second request with an idempotency key it has seen.      *)
(***************************************************************************)
EXTENDS Naturals, FiniteSets

CONSTANTS
  Mailboxes,     \* the recipients of the message
  Skipped,       \* those with no address, or one CanSendTo refuses
  MaxAttempts,
  NoMessage

ASSUME MailAssumption ==
  /\ Skipped \subseteq Mailboxes /\ IsFiniteSet(Mailboxes)
  /\ MaxAttempts \in Nat \ {0} /\ NoMessage \notin Mailboxes

VARIABLES
  mailer,     \* the provider the server is configured with
  sending,    \* "before", "sending", "sent", or "panicked": the task failed
  current,    \* the recipient a request is being made for (resend)
  attempt,    \* the number of that request
  known,      \* the idempotency keys Resend has seen, one for each recipient
  tried,      \* the recipients something was done about
  box         \* box[m]: copies in the mailbox m

mailVars == <<mailer, sending, current, attempt, known, tried, box>>

Providers == {"smtp", "ses", "mailgun", "resend"}

\* However often a request is repeated, a mailbox gets one copy; and with
\* Resend and Mailgun no recipient keeps another from theirs.
MailTypeOK ==
  /\ mailer \in Providers /\ sending \in {"before", "sending", "sent", "panicked"}
  /\ current \in Mailboxes \cup {NoMessage} /\ attempt \in 0..MaxAttempts
  /\ known \subseteq Mailboxes /\ tried \subseteq Mailboxes
  /\ box \in [Mailboxes -> 0..1] /\ \A m \in Skipped : box[m] = 0
  /\ sending = "sent" /\ mailer \in {"resend", "mailgun"} => Mailboxes \subseteq tried

MailInit ==
  /\ mailer \in Providers /\ sending = "before"
  /\ current = NoMessage /\ attempt = 0 /\ known = {} /\ tried = {}
  /\ box = [m \in Mailboxes |-> 0]

Deliver(M) == box' = [m \in Mailboxes |-> IF m \in M THEN box[m] + 1 ELSE box[m]]

PublishMail ==
  /\ sending = "before" /\ sending' = "sending"
  /\ UNCHANGED <<mailer, current, attempt, known, tried, box>>

MailSent ==
  /\ sending = "sending" /\ current = NoMessage /\ tried = Mailboxes
  /\ sending' = "sent"
  /\ UNCHANGED <<mailer, current, attempt, known, tried, box>>

CanSendTo(m) == m \notin Skipped

\* The next of the list, in whatever order it is
NextRecipient(m) ==
  /\ sending = "sending" /\ current = NoMessage /\ m \notin tried
  /\ tried' = tried \cup {m}

-----------------------------------------------------------------------------
(* SMTP and SES: one recipient after the other                             *)

OneByOne == mailer \in {"smtp", "ses"}

\* The one who is skipped ends the list: the rest get nothing.
SmtpSendMail(m) ==
  /\ OneByOne /\ NextRecipient(m)
  /\ IF CanSendTo(m) THEN UNCHANGED sending /\ Deliver({m})
                     ELSE sending' = "sent" /\ UNCHANGED box
  /\ UNCHANGED <<mailer, current, attempt, known>>

\* A failure panics, wherever in the dialogue it happens: those before m have
\* their mail, m may have, and the rest get nothing.
SmtpSendFails(m) ==
  /\ OneByOne /\ CanSendTo(m) /\ NextRecipient(m)
  /\ sending' = "panicked"
  /\ \E M \in SUBSET {m} : Deliver(M)
  /\ UNCHANGED <<mailer, current, attempt, known>>

-----------------------------------------------------------------------------
(* Mailgun: one request for all of them                                    *)

\* Its status is not looked at.
MailgunSendMail ==
  /\ mailer = "mailgun" /\ sending = "sending" /\ tried = {}
  /\ tried' = Mailboxes
  /\ \E accepted \in BOOLEAN, answered \in BOOLEAN :
       /\ Deliver(IF accepted THEN Mailboxes \ Skipped ELSE {})
       /\ sending' = IF answered \/ Mailboxes \subseteq Skipped THEN "sent" ELSE "panicked"
  /\ UNCHANGED <<mailer, current, attempt, known>>

-----------------------------------------------------------------------------
(* Resend                                                                  *)

ResendSendMail(m) ==
  /\ mailer = "resend" /\ NextRecipient(m)
  /\ IF CanSendTo(m) THEN current' = m /\ attempt' = 1
                     ELSE UNCHANGED <<current, attempt>>
  /\ UNCHANGED <<mailer, sending, known, box>>

Requesting == mailer = "resend" /\ current # NoMessage

AcceptWithFreshKey ==
  /\ Deliver({current})
  /\ known' = known \cup {current}

\* Resend takes a request it has not seen; one it has, it only answers.
Accept ==
  /\ Deliver(IF current \in known THEN {} ELSE {current})
  /\ known' = known \cup {current}

NextOne == current' = NoMessage /\ attempt' = 0 /\ UNCHANGED <<mailer, sending, tried>>

ResendAnswers == Requesting /\ Accept /\ NextOne

\* A 4xx other than 429, a wait that is too long, the last attempt, or a
\* context that ended meanwhile: the others still get theirs.
ResendGivesUp == Requesting /\ UNCHANGED <<known, box>> /\ NextOne

\* A transport error, 429 or 5xx: the request may have been accepted all the
\* same, and is made again.
ResendTransientFailure ==
  /\ Requesting /\ (Accept \/ UNCHANGED <<known, box>>)
  /\ IF attempt < MaxAttempts
       THEN attempt' = attempt + 1 /\ UNCHANGED <<mailer, sending, current, tried>>
       ELSE NextOne

MailNext ==
  \/ PublishMail \/ MailSent \/ MailgunSendMail
  \/ \E m \in Mailboxes : SmtpSendMail(m) \/ SmtpSendFails(m) \/ ResendSendMail(m)
  \/ ResendAnswers \/ ResendGivesUp \/ ResendTransientFailure

MailSpec == MailInit /\ [][MailNext]_mailVars
=============================================================================
