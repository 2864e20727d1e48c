------------------------------ MODULE SigningIn ------------------------------
(***************************************************************************)
(* Signing in by mail and through a provider, at once: what both hand out  *)
(* are cookies for the same users, and administrators change users and     *)
(* providers meanwhile.                                                    *)
(***************************************************************************)
EXTENDS SignIn, ProviderSignIn

signingVars == <<userVars, sessionVars, signInVars, providerVars>>

SigningInit ==
  /\ \E admins \in SUBSET People : UsersInit(admins)
  /\ SessionsInit
  /\ \E used \in SUBSET Mails : SignInInit(used)
  /\ ProviderInit

SigningNext ==
  \/ SignInStep /\ UNCHANGED providerVars
  \/ ProviderStep /\ UNCHANGED signInVars
  \/ SessionsStep /\ UNCHANGED <<signInVars, providerVars>>

SigningSpec == SigningInit /\ [][SigningNext]_signingVars
=============================================================================
