---------------------------- MODULE TokenFamilies ----------------------------
(***************************************************************************)
(* What the authorization server promises to whoever approves a client: an *)
(* approval is turned into tokens once; of all the tokens that come of it, *)
(* each replacing another, one works at a time, for whom and where it was  *)
(* approved; none works for somebody who may not use MCP; and what stopped *)
(* working never works again.                                              *)
(***************************************************************************)
CONSTANTS
  Codes, Tokens,
  People,       \* who may approve
  Origins       \* where a token may be used

VARIABLES
  approved,     \* approved[c], of the codes there are: who approved, and where
  issued,       \* issued[t], of the tokens there are: from which code, and its approval
  working,      \* the tokens that can still be used
  entitled      \* those who may use MCP

tfVars == <<approved, issued, working, entitled>>

Grants == [user : People, origin : Origins]
Put(f, x, y) == [z \in DOMAIN f \cup {x} |-> IF z = x THEN y ELSE f[z]]

TFInit ==
  /\ approved = [c \in {} |-> c]
  /\ issued = [t \in {} |-> t]
  /\ working = {}
  /\ entitled \subseteq People

\* A decision, made by somebody who may not be entitled any more.
Approve(c, g) ==
  /\ c \notin DOMAIN approved
  /\ approved' = Put(approved, c, g)
  /\ UNCHANGED <<issued, working, entitled>>

\* The first token of a code; it works only for one who is entitled.
Start(c, t, works) ==
  /\ c \in DOMAIN approved
  /\ \A u \in DOMAIN issued : issued[u].code # c
  /\ t \notin DOMAIN issued
  /\ works => approved[c].user \in entitled
  /\ issued' = Put(issued, t, [code |-> c, grant |-> approved[c]])
  /\ working' = IF works THEN working \cup {t} ELSE working
  /\ UNCHANGED <<approved, entitled>>

\* The heir works if, and only if, the token worked, which does not any more.
Replace(t, heir) ==
  /\ t \in DOMAIN issued
  /\ heir \notin DOMAIN issued
  /\ issued' = Put(issued, heir, issued[t])
  /\ working' = IF t \in working THEN (working \ {t}) \cup {heir} ELSE working
  /\ UNCHANGED <<approved, entitled>>

\* Tokens expire, are revoked or removed.
Withdraw(ts) ==
  /\ working' = working \ ts
  /\ UNCHANGED <<approved, issued, entitled>>

\* Whatever is changed about somebody ends all that he approved.
Change(p, may) ==
  /\ entitled' = IF may THEN entitled \cup {p} ELSE entitled \ {p}
  /\ working' = {t \in working : issued[t].grant.user # p}
  /\ UNCHANGED <<approved, issued>>

TFNext ==
  \/ \E ts \in SUBSET Tokens : Withdraw(ts)
  \/ \E c \in Codes : \/ \E g \in Grants : Approve(c, g)
                      \/ \E t \in Tokens, works \in BOOLEAN : Start(c, t, works)
  \/ \E t, heir \in Tokens : Replace(t, heir)
  \/ \E p \in People, may \in BOOLEAN : Change(p, may)

TFSpec == TFInit /\ [][TFNext]_tfVars
=============================================================================
