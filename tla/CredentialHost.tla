---------------------------- MODULE CredentialHost ----------------------------
(***************************************************************************)
(* What MailHub relies on of the host's credential authority: a reference  *)
(* is issued once, its version goes up by one with every rotation, and a   *)
(* revoked credential changes no more. MailConnection works against such a *)
(* host; CredentialBroker, composed in MailAuthorization, implements it.   *)
(***************************************************************************)
EXTENDS Naturals

CONSTANT Credentials  \* credential references

VARIABLES status, version

credentialVars == <<status, version>>

CredentialInit ==
  /\ status = [k \in Credentials |-> "none"]
  /\ version = [k \in Credentials |-> 0]

Issue(k) ==
  /\ status[k] = "none"
  /\ status' = [status EXCEPT ![k] = "ACTIVE"]
  /\ version' = [version EXCEPT ![k] = 1]

RotateSecret(k) ==
  /\ status[k] = "ACTIVE"
  /\ version' = [version EXCEPT ![k] = @ + 1]
  /\ UNCHANGED status

\* A credential is revoked at a version of its own.
RevokeSecret(k) ==
  /\ status[k] = "ACTIVE"
  /\ status' = [status EXCEPT ![k] = "REVOKED"]
  /\ version' = [version EXCEPT ![k] = @ + 1]

CredentialNext == \E k \in Credentials : Issue(k) \/ RotateSecret(k) \/ RevokeSecret(k)

CredentialSpec == CredentialInit /\ [][CredentialNext]_credentialVars
===============================================================================
