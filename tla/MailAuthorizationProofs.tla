------------------------ MODULE MailAuthorizationProofs ------------------------
(***************************************************************************)
(* Theorems about what the providers give MailHub: credentials and mail.    *)
(*                                                                          *)
(* Of MailAuthorization: types, codes redeemed once, the newest refresh     *)
(* token, the version and the credential that the row records, what is      *)
(* revoked, and that the broker implements CredentialHost. The broker's     *)
(* part of the invariant says what the holder of the lock may rely on       *)
(* between its awaits: nobody else touches the credential it has loaded.    *)
(* MailHub's part says what a copy of the row is still worth when it is     *)
(* saved: it is one revision ahead of the row it was made from, or the save *)
(* will be refused.                                                         *)
(*                                                                          *)
(* Of ProviderFeed: what the store may lack of the folder it mirrors.       *)
(***************************************************************************)
EXTENDS MailAuthorization, ProviderFeed, FiniteSetTheorems, TLAPS

-----------------------------------------------------------------------------
(* The inductive invariant: the broker.                                     *)

\* A request works on what it has loaded: nobody else changes that.
RequestInv(c) ==
  /\ request[c].pc \in {"code", "store"} =>
       /\ request[c].op = "exchange" /\ request[c].flow \in Flows
       /\ flow[request[c].flow].status = "consumed"
  /\ request[c].pc = "code" => redeemed[request[c].flow] = 0
  /\ request[c].pc = "store" =>
       /\ request[c].cred \in Credentials
       /\ creds[request[c].cred].status = "none" /\ newest[request[c].cred] = 1
       /\ origin[request[c].cred] = request[c].flow
  /\ request[c].pc \in Locked \cup {"lock"} => request[c].cred \in Credentials
  /\ request[c].pc \in Locked <=> lock = c
  /\ request[c].pc \in Locked =>
       /\ creds[request[c].cred].status = "ACTIVE"
       /\ creds[request[c].cred].version = request[c].version
  /\ request[c].pc \in {"token", "rotate"} => request[c].op = "refresh"
  /\ request[c].pc \in {"unlink", "destroy"} => request[c].op = "revoke"
  /\ request[c].pc = "lock" => request[c].op \in {"refresh", "revoke"}
  /\ request[c].pc = "destroy" /\ provider = "gmail" => request[c].cred \in withdrawn
  /\ request[c].pc = "token" => request[c].token = creds[request[c].cred].token
  /\ request[c].pc = "rotate" /\ request[c].cred \notin lost =>
       request[c].token = newest[request[c].cred]

\* No two requests bring the same code, or store the same grant.
Unshared ==
  \A c, d \in Calls : c # d =>
    /\ request[c].pc = "code" /\ request[d].pc = "code" => request[c].flow # request[d].flow
    /\ request[c].pc = "store" /\ request[d].pc = "store" => request[c].cred # request[d].cred

FlowInv ==
  \A f \in Flows : /\ redeemed[f] <= 1
                   /\ flow[f].status # "consumed" => redeemed[f] = 0

CredentialInv ==
  \A k \in Credentials :
    /\ newest[k] > 0 => origin[k] \in Flows /\ flow[origin[k]].status = "consumed"
    /\ creds[k].status # "none" => creds[k].version > 0 /\ newest[k] > 0
    /\ creds[k].status = "none" => creds[k].version = 0
    /\ creds[k].status = "REVOKED" /\ provider = "gmail" => k \in withdrawn

BrokerInv ==
  /\ BrokerTypeOK /\ Unshared /\ FlowInv /\ CredentialInv /\ NewestTokenKept
  /\ \A c \in Calls : RequestInv(c)

-----------------------------------------------------------------------------
(* The inductive invariant: MailHub.                                        *)

Stored(k) == k \in Credentials /\ creds[k].status # "none"
Gone(k) == k \in Credentials /\ creds[k].status = "REVOKED"

\* What holds of the row, and of any row that may be saved.
RowInv(row) ==
  /\ row \in Row
  /\ row.status \notin {"none", "deleted"} => row.cred \in Credentials
  /\ row.cred \in Credentials => Stored(row.cred) /\ row.ver <= creds[row.cred].version

\* Until the row changes, a copy one revision ahead fits it.
Fits(row) ==
  /\ row.rev <= conn.rev + 1
  /\ row.rev = conn.rev + 1 =>
       /\ row.ver >= conn.ver
       /\ row.cred \in Credentials \ {conn.cred} => flow[origin[row.cred]].rev = conn.rev

CallInv(c) ==
  /\ RowInv(call[c].row)
  /\ call[c].pc \in {"state", "bind", "activate"} =>
       call[c].kind = "callback" /\ call[c].flow \in Flows
  /\ call[c].pc = "state" => flow[call[c].flow].status # "none"
  /\ call[c].pc = "asks" => request[c].pc # "idle"
  /\ call[c].pc = "asks" /\ call[c].kind = "callback" =>
       /\ request[c].op = "exchange"
       /\ call[c].flow \in Flows /\ request[c].flow = call[c].flow
  /\ call[c].pc = "bind" => Stored(call[c].cred) /\ origin[call[c].cred] = call[c].flow
  /\ call[c].pc = "asks" /\ call[c].kind \in {"refresh", "resolve"} =>
       /\ request[c].op = "refresh" /\ request[c].cred = call[c].row.cred
       /\ call[c].row.cred \in Credentials /\ call[c].row.status # "none"
       /\ call[c].row.rev <= conn.rev
       /\ call[c].row.rev = conn.rev => call[c].row.ver = conn.ver /\ call[c].row.cred = conn.cred
  /\ call[c].pc = "asks" => call[c].kind \in {"callback", "refresh", "resolve", "revoke", "delete"}
  /\ call[c].pc = "asks" /\ call[c].kind \in {"revoke", "delete"} =>
       /\ request[c].op = "revoke" /\ request[c].cred = call[c].cred
       /\ call[c].cred \in Credentials
       /\ call[c].row.status \in {"revoked", "deleted"} /\ Fits(call[c].row)
       /\ call[c].row.status = "revoked" => call[c].row.cred = call[c].cred
  /\ call[c].pc = "mark" =>
       /\ call[c].kind = "delete" /\ Fits(call[c].row) /\ call[c].row.status = "deleting"
       /\ call[c].cred \in Credentials /\ call[c].row.cred = call[c].cred
       /\ call[c].row.rev = conn.rev + 1 => conn.cred = call[c].cred
  /\ call[c].pc = "save" =>
       /\ Fits(call[c].row) /\ call[c].row.status # "none"
       /\ call[c].row.status = "revoked" => Gone(call[c].row.cred)
       /\ call[c].kind \in {"revoke", "delete"} => Gone(call[c].cred)

ConnInv ==
  /\ RowInv(conn)
  /\ conn.status = "none" => conn = NoRow
  /\ conn.status = "revoked" => Gone(conn.cred)

EndedInv == \A k \in ended : Gone(k)

CallTypes == call \in [Calls -> Call] /\ ended \in SUBSET Credentials
MailHubInv == CallTypes /\ ConnInv /\ EndedInv /\ \A c \in Calls : CallInv(c)

Inv == BrokerInv /\ MailHubInv

-----------------------------------------------------------------------------
(* The steps of the broker.                                                 *)

\* What MailHub may rely on, whatever the broker does.
Onward ==
  /\ \A f \in Flows : flow[f].status # "none" =>
       flow'[f].status # "none" /\ flow'[f].rev = flow[f].rev
  /\ \A k \in Credentials : creds[k].status # "none" =>
       /\ creds'[k].status # "none" /\ creds'[k].version >= creds[k].version
       /\ origin'[k] = origin[k] /\ flow'[origin[k]].rev = flow[origin[k]].rev
  /\ \A k \in Credentials : creds[k].status = "REVOKED" => creds'[k].status = "REVOKED"

Others(c) == \A d \in Calls \ {c} : request'[d] = request[d]

LEMMA RequestTypes ==
  ASSUME BrokerTypeOK, NEW c \in Calls
  PROVE  /\ request[c] \in Request /\ NoRequest \in Request /\ NoRequest.pc = "idle"
         /\ request[c].cred \in Credentials => creds[request[c].cred] \in Credential
         /\ request[c].flow \in Flows => flow[request[c].flow] \in Flow
BY DEF BrokerTypeOK, Request, NoRequest, Locked

\* A request that the step does not touch.
LEMMA Elsewhere ==
  ASSUME NEW d \in Calls, RequestInv(d), request'[d] = request[d], provider' = provider,
         request[d].pc \in {"code", "store"} =>
           /\ flow'[request[d].flow].status = flow[request[d].flow].status
           /\ request[d].pc = "code" => redeemed'[request[d].flow] = redeemed[request[d].flow],
         request[d].pc \in Locked \cup {"store"} =>
           /\ creds'[request[d].cred] = creds[request[d].cred]
           /\ newest'[request[d].cred] = newest[request[d].cred]
           /\ origin'[request[d].cred] = origin[request[d].cred],
         lock' = d <=> lock = d, lost \subseteq lost', withdrawn \subseteq withdrawn'
  PROVE  RequestInv(d)'
BY DEF RequestInv, Locked

LEMMA RedeemKeeps ==
  ASSUME BrokerInv, NEW c \in Calls, Redeem(c)
  PROVE  BrokerInv' /\ Onward /\ Others(c) /\ request'[c].pc = "store"
         /\ request'[c].op = request[c].op /\ request'[c].flow = request[c].flow
         /\ request[c].op = "exchange"
<1>1. PICK k \in Credentials :
        /\ newest[k] = 0
        /\ newest' = [newest EXCEPT ![k] = 1]
        /\ origin' = [origin EXCEPT ![k] = request[c].flow]
        /\ request' = [request EXCEPT ![c].pc = "store", ![c].cred = k]
  BY DEF Redeem
<1>2. /\ request[c].pc = "code" /\ request[c].flow \in Flows /\ request[c].op = "exchange"
      /\ flow[request[c].flow].status = "consumed"
      /\ redeemed' = [redeemed EXCEPT ![request[c].flow] = @ + 1]
      /\ redeemed[request[c].flow] = 0
      /\ flow' = flow /\ creds' = creds /\ lock' = lock /\ provider' = provider
      /\ withdrawn' = withdrawn /\ lost' = lost
  BY DEF Redeem, store, BrokerInv, RequestInv
<1>3. /\ creds[k].status = "none"
      /\ \A d \in Calls : request[d].pc \in Locked \cup {"store"} => request[d].cred # k
  BY <1>1 DEF BrokerInv, BrokerTypeOK, CredentialInv, RequestInv, Credential, Locked
<1>4. /\ request'[c] = [request[c] EXCEPT !.pc = "store", !.cred = k]
      /\ request'[c] \in Request /\ Others(c) /\ request' = [request EXCEPT ![c] = request'[c]]
      /\ request'[c].pc = "store" /\ request'[c].cred = k
      /\ request'[c].flow = request[c].flow /\ request'[c].op = request[c].op
  <2>1. request \in [Calls -> Request] /\ request[c] \in Request
    BY DEF BrokerInv, BrokerTypeOK
  <2>2. [request[c] EXCEPT !.pc = "store", !.cred = k] \in Request
    BY <2>1 DEF Request
  <2>3. request' = [request EXCEPT ![c] = [request[c] EXCEPT !.pc = "store", !.cred = k]]
    BY <1>1, <2>1
  <2>4. request'[c] = [request[c] EXCEPT !.pc = "store", !.cred = k]
    BY <2>1, <2>3
  <2>5. Others(c)
    BY <2>1, <2>3 DEF Others
  <2>. QED  BY <2>1, <2>2, <2>3, <2>4, <2>5 DEF Request
<1>5. BrokerTypeOK'
  BY <1>1, <1>2, <1>4 DEF BrokerInv, BrokerTypeOK
<1>6. /\ \A f \in Flows : redeemed'[f] = IF f = request[c].flow THEN 1 ELSE redeemed[f]
      /\ \A j \in Credentials : /\ newest'[j] = IF j = k THEN 1 ELSE newest[j]
                                /\ origin'[j] = IF j = k THEN request[c].flow ELSE origin[j]
  BY <1>1, <1>2 DEF BrokerInv, BrokerTypeOK
<1>7. ASSUME NEW d \in Calls PROVE RequestInv(d)'
  <2>1. CASE d = c
    <3>1. lock # c BY <1>2 DEF BrokerInv, RequestInv, Locked
    <3> QED BY <1>2, <1>3, <1>4, <1>6, <2>1, <3>1 DEF RequestInv, Locked
  <2>2. CASE d # c
    <3>1. request[d].pc = "code" => request[d].flow # request[c].flow
      BY <1>2, <2>2 DEF BrokerInv, Unshared
    <3>2. RequestInv(d) /\ request'[d] = request[d] BY <1>4, <2>2 DEF BrokerInv, Others
    <3>3. request[d].pc \in {"code", "store"} => request[d].flow \in Flows
      BY <3>2 DEF RequestInv
    <3>4. request[d].pc \in Locked \cup {"store"} => request[d].cred \in Credentials
      BY <3>2 DEF RequestInv
    <3> QED BY <1>2, <1>3, <1>6, <3>1, <3>2, <3>3, <3>4, Elsewhere
  <2> QED BY <2>1, <2>2
<1>8. Unshared'
  <2>1. \A d \in Calls : d # c => request'[d] = request[d] BY <1>4 DEF Others
  <2>2. \A d \in Calls \ {c} : request'[d].pc = "store" => request'[d].cred # k
    BY <1>3, <2>1
  <2>3. Unshared BY DEF BrokerInv
  <2>4. ASSUME NEW d \in Calls, NEW e \in Calls, d # e,
               request'[d].pc = "code", request'[e].pc = "code"
        PROVE  request'[d].flow # request'[e].flow
    <3>1. d # c /\ e # c BY <1>4, <2>4
    <3> QED BY <2>1, <2>3, <2>4, <3>1 DEF Unshared
  <2>5. ASSUME NEW d \in Calls, NEW e \in Calls, d # e,
               request'[d].pc = "store", request'[e].pc = "store"
        PROVE  request'[d].cred # request'[e].cred
    <3>1. CASE d = c BY <1>4, <2>2, <2>5, <3>1
    <3>2. CASE e = c BY <1>4, <2>2, <2>5, <3>2
    <3>3. CASE d # c /\ e # c BY <2>1, <2>3, <2>5, <3>3 DEF Unshared
    <3> QED BY <3>1, <3>2, <3>3
  <2> QED BY <2>4, <2>5 DEF Unshared
<1>9. FlowInv' /\ CredentialInv' /\ Onward
  BY <1>1, <1>2, <1>3, <1>6 DEF BrokerInv, BrokerTypeOK, FlowInv, CredentialInv, Onward, Credential
<1>10. NewestTokenKept'
  BY <1>2, <1>3, <1>4, <1>6 DEF BrokerInv, NewestTokenKept, Others
<1> QED BY <1>2, <1>4, <1>5, <1>7, <1>8, <1>9, <1>10 DEF BrokerInv

LEMMA StoreKeeps ==
  ASSUME BrokerInv, NEW c \in Calls, StoreCredential(c)
  PROVE  /\ BrokerInv' /\ Onward /\ Others(c) /\ request'[c].pc = "idle"
         /\ request[c].cred \in Credentials /\ creds'[request[c].cred].status = "ACTIVE"
         /\ origin'[request[c].cred] = request[c].flow /\ request[c].op = "exchange"
<1> DEFINE k == request[c].cred
<1>1. /\ request[c].pc = "store" /\ k \in Credentials
      /\ creds[k].status = "none" /\ newest[k] = 1 /\ origin[k] = request[c].flow
      /\ request[c].op = "exchange" /\ lock # c
  BY DEF StoreCredential, BrokerInv, RequestInv, Locked
<1>2. /\ creds' = [creds EXCEPT ![k] = [status |-> "ACTIVE", version |-> 1, token |-> 1]]
      /\ request' = [request EXCEPT ![c] = NoRequest]
      /\ flow' = flow /\ lock' = lock /\ provider' = provider /\ newest' = newest
      /\ withdrawn' = withdrawn /\ redeemed' = redeemed /\ origin' = origin /\ lost' = lost
  BY DEF StoreCredential, Done, outside, past
<1>3. \A d \in Calls \ {c} : request[d].pc \in Locked \cup {"store"} => request[d].cred # k
  BY <1>1 DEF BrokerInv, RequestInv, Unshared, Locked
<1>4. request'[c] = NoRequest /\ NoRequest.pc = "idle" /\ Others(c)
  BY <1>2, RequestTypes DEF BrokerInv, BrokerTypeOK, Others
<1>5. BrokerTypeOK'
  BY <1>1, <1>2, RequestTypes DEF BrokerInv, BrokerTypeOK, Credential
<1>6. creds'[k] = [status |-> "ACTIVE", version |-> 1, token |-> 1]
      /\ \A j \in Credentials \ {k} : creds'[j] = creds[j]
  BY <1>1, <1>2 DEF BrokerInv, BrokerTypeOK
<1>7. ASSUME NEW d \in Calls PROVE RequestInv(d)'
  <2>1. CASE d = c BY <1>1, <1>2, <1>4, <2>1 DEF RequestInv, Locked
  <2>2. CASE d # c
    <3>1. RequestInv(d) /\ request'[d] = request[d] BY <1>4, <2>2 DEF BrokerInv, Others
    <3>2. request[d].pc \in Locked \cup {"store"} => request[d].cred \in Credentials \ {k}
      BY <1>3, <2>2, <3>1 DEF RequestInv
    <3> QED BY <1>2, <1>6, <3>1, <3>2, Elsewhere
  <2> QED BY <2>1, <2>2
<1> HIDE DEF k
<1>8. Unshared' BY <1>4 DEF BrokerInv, Unshared, Others
<1>9. FlowInv' /\ CredentialInv' /\ Onward
  BY <1>1, <1>2, <1>6 DEF BrokerInv, BrokerTypeOK, FlowInv, CredentialInv, Onward, Credential
<1>10. NewestTokenKept'
  BY <1>1, <1>2, <1>4, <1>6 DEF BrokerInv, NewestTokenKept, Others
<1> QED BY <1>1, <1>2, <1>4, <1>5, <1>6, <1>7, <1>8, <1>9, <1>10 DEF BrokerInv, k

LEMMA LoadKeeps ==
  ASSUME BrokerInv, NEW c \in Calls, LoadActive(c)
  PROVE  BrokerInv' /\ Onward /\ Others(c) /\ request'[c].pc # "idle"
         /\ request'[c].op = request[c].op /\ request'[c].flow = request[c].flow
         /\ request'[c].cred = request[c].cred
<1> DEFINE k == request[c].cred
           stage == IF request[c].op = "revoke" THEN RevokeStage ELSE "token"
<1>1. /\ request[c].pc = "lock" /\ lock = NoCall /\ k \in Credentials
      /\ creds[k].status = "ACTIVE" /\ lock' = c /\ request' = Loaded(c)
      /\ request[c].op \in {"refresh", "revoke"}
      /\ flow' = flow /\ creds' = creds /\ provider' = provider /\ newest' = newest
      /\ withdrawn' = withdrawn /\ redeemed' = redeemed /\ origin' = origin /\ lost' = lost
  BY DEF LoadActive, store, outside, past, BrokerInv, RequestInv
<1>2. /\ stage \in {"token", "unlink", "destroy"}
      /\ stage = "token" <=> request[c].op = "refresh"
      /\ stage = "destroy" => provider # "gmail"
  BY <1>1 DEF RevokeStage
<1>3. request[c] \in Request /\ creds[k] \in Credential
  BY <1>1, RequestTypes DEF BrokerInv
<1> DEFINE r == [request[c] EXCEPT !.pc = stage, !.version = creds[k].version,
                                   !.token = creds[k].token]
<1>4. request' = [request EXCEPT ![c] = r]
  BY <1>1, <1>3 DEF Loaded, BrokerInv, BrokerTypeOK
<1> HIDE DEF stage
<1>5. /\ r \in Request /\ r.pc = stage /\ r.op = request[c].op /\ r.flow = request[c].flow
      /\ r.cred = k /\ r.version = creds[k].version /\ r.token = creds[k].token
  BY <1>2, <1>3 DEF Request, Credential, Locked
<1> HIDE DEF r
<1>6. request'[c] = r /\ Others(c)
  BY <1>4 DEF BrokerInv, BrokerTypeOK, Others
<1>7. BrokerTypeOK'
  BY <1>1, <1>4, <1>5 DEF BrokerInv, BrokerTypeOK
<1>8. ASSUME NEW d \in Calls PROVE RequestInv(d)'
  <2>1. CASE d = c BY <1>1, <1>2, <1>5, <1>6, <2>1 DEF RequestInv, Locked
  <2>2. CASE d # c
    <3>1. RequestInv(d) /\ request'[d] = request[d] BY <1>6, <2>2 DEF BrokerInv, Others
    <3>2. lock # d BY <1>1, BrokerAssumption
    <3> QED BY <1>1, <2>2, <3>1, <3>2, Elsewhere
  <2> QED BY <2>1, <2>2
<1>9. Unshared' BY <1>2, <1>5, <1>6 DEF BrokerInv, Unshared, Others
<1>10. FlowInv' /\ CredentialInv' /\ Onward
  BY <1>1 DEF BrokerInv, BrokerTypeOK, FlowInv, CredentialInv, Onward, Credential
<1>11. NewestTokenKept' BY <1>1, <1>6 DEF BrokerInv, NewestTokenKept, Others
<1> QED BY <1>2, <1>5, <1>6, <1>7, <1>8, <1>9, <1>10, <1>11 DEF BrokerInv

\* The holder of the lock comes to its last stage, having heard from the provider.
LEMMA TokenKeeps ==
  ASSUME BrokerInv, NEW c \in Calls, TokenAnswers(c)
  PROVE  BrokerInv' /\ Onward /\ Others(c) /\ request'[c].pc # "idle"
         /\ request'[c].op = request[c].op /\ request'[c].flow = request[c].flow
         /\ request'[c].cred = request[c].cred
<1> DEFINE k == request[c].cred
<1>1. /\ request[c].pc = "token" /\ lock = c /\ k \in Credentials
      /\ creds[k].status = "ACTIVE" /\ creds[k].version = request[c].version
      /\ request[c].op = "refresh" /\ request[c].token = creds[k].token
      /\ flow' = flow /\ creds' = creds /\ lock' = lock /\ provider' = provider
      /\ withdrawn' = withdrawn /\ redeemed' = redeemed /\ origin' = origin /\ lost' = lost
  BY DEF TokenAnswers, store, past, BrokerInv, RequestInv, Locked
<1>2. request[c] \in Request /\ newest[k] \in Nat
  BY <1>1 DEF BrokerInv, BrokerTypeOK
<1>3. k \notin lost => creds[k].token = newest[k]
  <2>1. \A d \in Calls : request[d].pc = "rotate" => d = c
    BY <1>1 DEF BrokerInv, RequestInv, Locked
  <2> QED BY <1>1, <2>1 DEF BrokerInv, NewestTokenKept
<1>4. PICK r \in Request :
        /\ request' = [request EXCEPT ![c] = r]
        /\ r.pc = "rotate" /\ r.op = request[c].op /\ r.flow = request[c].flow
        /\ r.cred = k /\ r.version = request[c].version
        /\ \/ newest' = [newest EXCEPT ![k] = @ + 1] /\ r.token = newest[k] + 1
           \/ newest' = newest /\ r.token = request[c].token
  <2>1. CASE /\ newest' = [newest EXCEPT ![k] = @ + 1]
             /\ request' = [request EXCEPT ![c].pc = "rotate", ![c].token = newest'[k]]
    <3>1. newest'[k] = newest[k] + 1 BY <1>1, <2>1 DEF BrokerInv, BrokerTypeOK
    <3> DEFINE r == [request[c] EXCEPT !.pc = "rotate", !.token = newest[k] + 1]
    <3>2. request' = [request EXCEPT ![c] = r] BY <2>1, <3>1 DEF BrokerInv, BrokerTypeOK
    <3>3. /\ r \in Request /\ r.pc = "rotate" /\ r.op = request[c].op
          /\ r.flow = request[c].flow /\ r.cred = k /\ r.version = request[c].version
          /\ r.token = newest[k] + 1
      <4>1. newest[k] + 1 \in Nat BY <1>2
      <4> DEFINE n == newest[k] + 1
      <4>2. n \in Nat BY <4>1
      <4> HIDE DEF n
      <4>3. [request[c] EXCEPT !.pc = "rotate", !.token = n] \in Request
        BY <1>2, <4>2 DEF Request, Locked
      <4> QED BY <1>2, <4>3 DEF n, Request
    <3> QED BY <2>1, <3>2, <3>3
  <2>2. CASE Goes(c, "rotate") /\ newest' = newest
    <3> DEFINE r == [request[c] EXCEPT !.pc = "rotate"]
    <3>1. request' = [request EXCEPT ![c] = r] BY <2>2 DEF Goes, BrokerInv, BrokerTypeOK
    <3>2. /\ r \in Request /\ r.pc = "rotate" /\ r.op = request[c].op
          /\ r.flow = request[c].flow /\ r.cred = k /\ r.version = request[c].version
          /\ r.token = request[c].token
      BY <1>2 DEF Request, Locked
    <3> QED BY <2>2, <3>1, <3>2
  <2> QED BY <2>1, <2>2 DEF TokenAnswers
<1>5. /\ newest'[k] = newest[k] \/ newest'[k] = newest[k] + 1
      /\ \A j \in Credentials \ {k} : newest'[j] = newest[j]
      /\ k \notin lost => r.token = newest'[k]
  BY <1>1, <1>2, <1>3, <1>4 DEF BrokerInv, BrokerTypeOK
<1>6. request'[c] = r /\ Others(c) BY <1>4 DEF BrokerInv, BrokerTypeOK, Others
<1>7. BrokerTypeOK' BY <1>1, <1>2, <1>4 DEF BrokerInv, BrokerTypeOK
<1>8. ASSUME NEW d \in Calls PROVE RequestInv(d)'
  <2>1. CASE d = c BY <1>1, <1>4, <1>5, <1>6, <2>1 DEF RequestInv, Locked
  <2>2. CASE d # c
    <3>1. RequestInv(d) /\ request'[d] = request[d] BY <1>6, <2>2 DEF BrokerInv, Others
    <3>2. request[d].pc \notin Locked /\ lock # d BY <1>1, <2>2, <3>1 DEF RequestInv
    <3>3. request[d].pc = "store" => request[d].cred \in Credentials \ {k}
      BY <1>1, <3>1 DEF RequestInv
    <3> QED BY <1>1, <1>5, <3>1, <3>2, <3>3, Elsewhere
  <2> QED BY <2>1, <2>2
<1>9. Unshared' BY <1>4, <1>6 DEF BrokerInv, Unshared, Others
<1>10. FlowInv' /\ CredentialInv' /\ Onward
  BY <1>1, <1>2, <1>5 DEF BrokerInv, BrokerTypeOK, FlowInv, CredentialInv, Onward, Credential
<1>11. NewestTokenKept'
  <2>1. \A j \in Credentials \ {k} : \A d \in Calls :
          request[d].pc = "rotate" /\ request[d].cred = j => d # c
    BY <1>1
  <2> QED BY <1>1, <1>4, <1>5, <1>6, <2>1 DEF BrokerInv, NewestTokenKept, Others
<1> QED BY <1>4, <1>6, <1>7, <1>8, <1>9, <1>10, <1>11 DEF BrokerInv

LEMMA RotateKeeps ==
  ASSUME BrokerInv, NEW c \in Calls, Rotate(c)
  PROVE  /\ BrokerInv' /\ Onward /\ Others(c) /\ request'[c].pc = "idle"
         /\ request[c].op = "refresh" /\ request[c].cred \in Credentials
         /\ creds'[request[c].cred].version = request[c].version + 1
         /\ creds[request[c].cred].version = request[c].version
         /\ creds[request[c].cred].status = "ACTIVE"
<1> DEFINE k == request[c].cred
           row == [status |-> "ACTIVE", version |-> request[c].version + 1,
                   token |-> request[c].token]
<1>1. /\ request[c].pc = "rotate" /\ lock = c /\ k \in Credentials
      /\ creds[k].status = "ACTIVE" /\ creds[k].version = request[c].version
      /\ request[c].op = "refresh"
      /\ k \notin lost => request[c].token = newest[k]
      /\ creds' = [creds EXCEPT ![k] = row] /\ lock' = NoCall
      /\ request' = [request EXCEPT ![c] = NoRequest]
      /\ flow' = flow /\ provider' = provider /\ newest' = newest
      /\ withdrawn' = withdrawn /\ redeemed' = redeemed /\ origin' = origin /\ lost' = lost
  BY DEF Rotate, Done, outside, past, BrokerInv, RequestInv, Locked
<1>2. request[c].version \in Nat /\ request[c].token \in Nat
  BY RequestTypes DEF BrokerInv, Request
<1>3. row \in Credential /\ row.status = "ACTIVE" /\ row.token = request[c].token
      /\ row.version = request[c].version + 1
  BY <1>2 DEF Credential
<1> HIDE DEF row
<1>4. request'[c] = NoRequest /\ NoRequest.pc = "idle" /\ Others(c)
  BY <1>1, RequestTypes DEF BrokerInv, BrokerTypeOK, Others
<1>5. BrokerTypeOK'
  BY <1>1, <1>3, RequestTypes DEF BrokerInv, BrokerTypeOK
<1>6. creds'[k] = row /\ \A j \in Credentials \ {k} : creds'[j] = creds[j]
  BY <1>1 DEF BrokerInv, BrokerTypeOK
<1>7. ASSUME NEW d \in Calls PROVE RequestInv(d)'
  <2>1. CASE d = c BY <1>1, <1>4, <2>1, BrokerAssumption DEF RequestInv, Locked
  <2>2. CASE d # c
    <3>1. RequestInv(d) /\ request'[d] = request[d] BY <1>4, <2>2 DEF BrokerInv, Others
    <3>2. request[d].pc \notin Locked /\ lock # d /\ lock' # d
      BY <1>1, <2>2, <3>1, BrokerAssumption DEF RequestInv
    <3>3. request[d].pc = "store" => request[d].cred \in Credentials \ {k}
      BY <1>1, <3>1 DEF RequestInv
    <3> QED BY <1>1, <1>6, <3>1, <3>2, <3>3, Elsewhere
  <2> QED BY <2>1, <2>2
<1>8. Unshared' BY <1>4 DEF BrokerInv, Unshared, Others
<1>9. FlowInv' /\ CredentialInv' /\ Onward
  BY <1>1, <1>2, <1>3, <1>6 DEF BrokerInv, BrokerTypeOK, FlowInv, CredentialInv, Onward, Credential
<1>10. NewestTokenKept'
  BY <1>1, <1>3, <1>4, <1>6 DEF BrokerInv, NewestTokenKept, Others
<1> QED BY <1>1, <1>3, <1>4, <1>5, <1>6, <1>7, <1>8, <1>9, <1>10 DEF BrokerInv

LEMMA UnlinkKeeps ==
  ASSUME BrokerInv, NEW c \in Calls, RevokeGoogle(c)
  PROVE  BrokerInv' /\ Onward /\ Others(c) /\ request'[c].pc # "idle"
         /\ request'[c].op = request[c].op /\ request'[c].flow = request[c].flow
         /\ request'[c].cred = request[c].cred
<1> DEFINE k == request[c].cred
           r == [request[c] EXCEPT !.pc = "destroy"]
<1>1. /\ request[c].pc = "unlink" /\ lock = c /\ k \in Credentials
      /\ creds[k].status = "ACTIVE" /\ creds[k].version = request[c].version
      /\ request[c].op = "revoke"
      /\ request' = [request EXCEPT ![c].pc = "destroy"] /\ withdrawn' = withdrawn \cup {k}
      /\ flow' = flow /\ creds' = creds /\ lock' = lock /\ provider' = provider
      /\ newest' = newest /\ redeemed' = redeemed /\ origin' = origin /\ lost' = lost
  BY DEF RevokeGoogle, Goes, store, past, BrokerInv, RequestInv, Locked
<1>2. request' = [request EXCEPT ![c] = r] BY <1>1 DEF BrokerInv, BrokerTypeOK
<1>3. /\ r \in Request /\ r.pc = "destroy" /\ r.op = request[c].op /\ r.flow = request[c].flow
      /\ r.cred = k /\ r.version = request[c].version
  BY RequestTypes DEF BrokerInv, Request, Locked
<1> HIDE DEF r
<1>4. request'[c] = r /\ Others(c) BY <1>2 DEF BrokerInv, BrokerTypeOK, Others
<1>5. BrokerTypeOK' BY <1>1, <1>2, <1>3 DEF BrokerInv, BrokerTypeOK
<1>6. ASSUME NEW d \in Calls PROVE RequestInv(d)'
  <2>1. CASE d = c BY <1>1, <1>3, <1>4, <2>1 DEF RequestInv, Locked
  <2>2. CASE d # c
    <3>1. RequestInv(d) /\ request'[d] = request[d] BY <1>4, <2>2 DEF BrokerInv, Others
    <3> QED BY <1>1, <3>1, Elsewhere
  <2> QED BY <2>1, <2>2
<1>7. Unshared' BY <1>3, <1>4 DEF BrokerInv, Unshared, Others
<1>8. FlowInv' /\ CredentialInv' /\ Onward
  BY <1>1 DEF BrokerInv, BrokerTypeOK, FlowInv, CredentialInv, Onward, Credential
<1>9. NewestTokenKept' BY <1>1, <1>4 DEF BrokerInv, NewestTokenKept, Others
<1> QED BY <1>3, <1>4, <1>5, <1>6, <1>7, <1>8, <1>9 DEF BrokerInv

LEMMA DestroyKeeps ==
  ASSUME BrokerInv, NEW c \in Calls, RevokeCredential(c)
  PROVE  /\ BrokerInv' /\ Onward /\ Others(c) /\ request'[c].pc = "idle"
         /\ request[c].op = "revoke" /\ request[c].cred \in Credentials
         /\ creds'[request[c].cred].status = "REVOKED"
<1> DEFINE k == request[c].cred
           row == [status |-> "REVOKED", version |-> request[c].version + 1, token |-> 0]
<1>1. /\ request[c].pc = "destroy" /\ lock = c /\ k \in Credentials
      /\ creds[k].status = "ACTIVE" /\ creds[k].version = request[c].version
      /\ request[c].op = "revoke"
      /\ provider = "gmail" => k \in withdrawn
      /\ creds' = [creds EXCEPT ![k] = row] /\ lock' = NoCall
      /\ request' = [request EXCEPT ![c] = NoRequest]
      /\ flow' = flow /\ provider' = provider /\ newest' = newest
      /\ withdrawn' = withdrawn /\ redeemed' = redeemed /\ origin' = origin /\ lost' = lost
  BY DEF RevokeCredential, Done, outside, past, BrokerInv, RequestInv, Locked
<1>2. request[c].version \in Nat BY RequestTypes DEF BrokerInv, Request
<1>3. row \in Credential /\ row.status = "REVOKED" /\ row.version = request[c].version + 1
  BY <1>2 DEF Credential
<1> HIDE DEF row
<1>4. request'[c] = NoRequest /\ NoRequest.pc = "idle" /\ Others(c)
  BY <1>1, RequestTypes DEF BrokerInv, BrokerTypeOK, Others
<1>5. BrokerTypeOK'
  BY <1>1, <1>3, RequestTypes DEF BrokerInv, BrokerTypeOK
<1>6. creds'[k] = row /\ \A j \in Credentials \ {k} : creds'[j] = creds[j]
  BY <1>1 DEF BrokerInv, BrokerTypeOK
<1>7. ASSUME NEW d \in Calls PROVE RequestInv(d)'
  <2>1. CASE d = c BY <1>1, <1>4, <2>1, BrokerAssumption DEF RequestInv, Locked
  <2>2. CASE d # c
    <3>1. RequestInv(d) /\ request'[d] = request[d] BY <1>4, <2>2 DEF BrokerInv, Others
    <3>2. request[d].pc \notin Locked /\ lock # d /\ lock' # d
      BY <1>1, <2>2, <3>1, BrokerAssumption DEF RequestInv
    <3>3. request[d].pc = "store" => request[d].cred \in Credentials \ {k}
      BY <1>1, <3>1 DEF RequestInv
    <3> QED BY <1>1, <1>6, <3>1, <3>2, <3>3, Elsewhere
  <2> QED BY <2>1, <2>2
<1>8. Unshared' BY <1>4 DEF BrokerInv, Unshared, Others
<1>9. FlowInv' /\ CredentialInv' /\ Onward
  BY <1>1, <1>2, <1>3, <1>6 DEF BrokerInv, BrokerTypeOK, FlowInv, CredentialInv, Onward, Credential
<1>10. NewestTokenKept'
  BY <1>1, <1>3, <1>4, <1>6 DEF BrokerInv, NewestTokenKept, Others
<1> QED BY <1>1, <1>3, <1>4, <1>5, <1>6, <1>7, <1>8, <1>9, <1>10 DEF BrokerInv

\* A request that ends without an answer, or finds the credential revoked.
LEMMA FailKeeps ==
  ASSUME BrokerInv, NEW c \in Calls, RequestFails(c) \/ AlreadyRevoked(c)
  PROVE  /\ BrokerInv' /\ Onward /\ Others(c) /\ request'[c].pc = "idle"
         /\ AlreadyRevoked(c) => /\ request[c].op = "revoke" /\ request[c].cred \in Credentials
                                 /\ creds'[request[c].cred].status = "REVOKED"
<1>1. /\ request' = [request EXCEPT ![c] = NoRequest]
      /\ lock' = (IF lock = c THEN NoCall ELSE lock) /\ lost' = lost \cup NotKept(c)
      /\ flow' = flow /\ creds' = creds /\ provider' = provider /\ newest' = newest
      /\ withdrawn' = withdrawn /\ redeemed' = redeemed /\ origin' = origin
  BY DEF RequestFails, AlreadyRevoked, Done, NotKept, store, outside, past, BrokerInv,
         RequestInv, Locked
<1>2. NotKept(c) \subseteq Credentials BY DEF NotKept, BrokerInv, RequestInv, Locked
<1>3. request'[c] = NoRequest /\ NoRequest.pc = "idle" /\ Others(c)
  BY <1>1, RequestTypes DEF BrokerInv, BrokerTypeOK, Others
<1>4. BrokerTypeOK'
  BY <1>1, <1>2, RequestTypes DEF BrokerInv, BrokerTypeOK
<1>5. ASSUME NEW d \in Calls PROVE RequestInv(d)'
  <2>1. CASE d = c BY <1>1, <1>3, <2>1, BrokerAssumption DEF RequestInv, Locked
  <2>2. CASE d # c
    <3>1. RequestInv(d) /\ request'[d] = request[d] BY <1>3, <2>2 DEF BrokerInv, Others
    <3>2. lock' = d <=> lock = d BY <1>1, <2>2, BrokerAssumption
    <3> QED BY <1>1, <3>1, <3>2, Elsewhere
  <2> QED BY <2>1, <2>2
<1>6. Unshared' BY <1>3 DEF BrokerInv, Unshared, Others
<1>7. FlowInv' /\ CredentialInv' /\ Onward
  BY <1>1 DEF BrokerInv, BrokerTypeOK, FlowInv, CredentialInv, Onward, Credential
<1>8. NewestTokenKept'
  <2>1. SUFFICES ASSUME NEW k \in Credentials, k \notin lost', creds[k].status = "ACTIVE",
                        creds[k].token # newest[k]
                 PROVE  \E d \in Calls : /\ request'[d].pc = "rotate" /\ request'[d].cred = k
                                         /\ request'[d].token = newest[k]
    BY <1>1 DEF NewestTokenKept
  <2>2. PICK d \in Calls : /\ request[d].pc = "rotate" /\ request[d].cred = k
                           /\ request[d].token = newest[k]
    BY <1>1, <2>1 DEF BrokerInv, NewestTokenKept
  <2>3. d # c
    <3>1. SUFFICES ASSUME d = c PROVE FALSE OBVIOUS
    <3>2. NotKept(c) = {k}
      BY <2>1, <2>2, <3>1 DEF NotKept, Unchanged, BrokerInv, RequestInv, Locked
    <3> QED BY <1>1, <2>1, <3>2
  <2> QED BY <1>3, <2>2, <2>3 DEF Others
<1>9. AlreadyRevoked(c) => /\ request[c].op = "revoke" /\ request[c].cred \in Credentials
                           /\ creds'[request[c].cred].status = "REVOKED"
  BY <1>1 DEF AlreadyRevoked, BrokerInv, RequestInv
<1> QED BY <1>3, <1>4, <1>5, <1>6, <1>7, <1>8, <1>9 DEF BrokerInv

-----------------------------------------------------------------------------
(* Steps of MailHub, as the broker sees them.                               *)

LEMMA NothingKeeps ==
  ASSUME BrokerInv, UNCHANGED broker
  PROVE  BrokerInv' /\ Onward /\ request' = request
<1>1. /\ flow' = flow /\ creds' = creds /\ lock' = lock /\ request' = request
      /\ provider' = provider /\ newest' = newest /\ withdrawn' = withdrawn
      /\ redeemed' = redeemed /\ origin' = origin /\ lost' = lost
  BY DEF broker, store, outside, past
<1>2. \A d \in Calls : RequestInv(d)' BY <1>1 DEF BrokerInv, RequestInv
<1>3. BrokerTypeOK' /\ Unshared' /\ FlowInv' /\ CredentialInv' /\ NewestTokenKept'
  BY <1>1 DEF BrokerInv, BrokerTypeOK, Unshared, FlowInv, CredentialInv, NewestTokenKept
<1>4. Onward BY <1>1 DEF BrokerInv, BrokerTypeOK, Credential, Onward
<1> QED BY <1>1, <1>2, <1>3, <1>4 DEF BrokerInv

LEMMA ArrivesKeeps ==
  ASSUME BrokerInv, NEW c \in Calls, NEW k \in Credentials, NEW op \in {"refresh", "revoke"},
         Arrives(c, op, NoCall, k), UNCHANGED <<store, lock, outside, past>>
  PROVE  BrokerInv' /\ Onward /\ Others(c) /\ request'[c].pc # "idle"
         /\ request'[c].op = op /\ request'[c].cred = k
<1> DEFINE r == [NoRequest EXCEPT !.pc = "lock", !.op = op, !.flow = NoCall, !.cred = k]
<1>1. /\ request[c].pc = "idle" /\ request' = [request EXCEPT ![c] = r]
      /\ flow' = flow /\ creds' = creds /\ lock' = lock /\ provider' = provider
      /\ newest' = newest /\ withdrawn' = withdrawn /\ redeemed' = redeemed
      /\ origin' = origin /\ lost' = lost
  BY DEF Arrives, store, outside, past
<1>2. r \in Request /\ r.pc = "lock" /\ r.op = op /\ r.cred = k
  BY DEF Request, NoRequest
<1> HIDE DEF r
<1>3. request'[c] = r /\ Others(c) BY <1>1 DEF BrokerInv, BrokerTypeOK, Others
<1>4. BrokerTypeOK' BY <1>1, <1>2 DEF BrokerInv, BrokerTypeOK
<1>5. ASSUME NEW d \in Calls PROVE RequestInv(d)'
  <2>1. CASE d = c BY <1>1, <1>2, <1>3, <2>1 DEF BrokerInv, RequestInv, Locked
  <2>2. CASE d # c
    <3>1. RequestInv(d) /\ request'[d] = request[d] BY <1>3, <2>2 DEF BrokerInv, Others
    <3> QED BY <1>1, <3>1, Elsewhere
  <2> QED BY <2>1, <2>2
<1>6. Unshared' BY <1>2, <1>3 DEF BrokerInv, Unshared, Others
<1>7. FlowInv' /\ CredentialInv' /\ Onward
  BY <1>1 DEF BrokerInv, BrokerTypeOK, FlowInv, CredentialInv, Onward, Credential
<1>8. NewestTokenKept' BY <1>1, <1>3 DEF BrokerInv, NewestTokenKept, Others
<1> QED BY <1>2, <1>3, <1>4, <1>5, <1>6, <1>7, <1>8 DEF BrokerInv

LEMMA ExchangeKeeps ==
  ASSUME BrokerInv, NEW c \in Calls, NEW f \in Flows, ConsumeState(f),
         Arrives(c, "exchange", f, NoCredential), UNCHANGED <<creds, lock, outside, past>>
  PROVE  BrokerInv' /\ Onward /\ Others(c) /\ request'[c].pc # "idle"
         /\ request'[c].op = "exchange" /\ request'[c].flow = f
<1> DEFINE r == [NoRequest EXCEPT !.pc = "code", !.op = "exchange", !.flow = f,
                                  !.cred = NoCredential]
<1>1. /\ request[c].pc = "idle" /\ request' = [request EXCEPT ![c] = r]
      /\ flow[f].status = "open" /\ flow' = [flow EXCEPT ![f].status = "consumed"]
      /\ creds' = creds /\ lock' = lock /\ provider' = provider
      /\ newest' = newest /\ withdrawn' = withdrawn /\ redeemed' = redeemed
      /\ origin' = origin /\ lost' = lost
  BY DEF Arrives, ConsumeState, outside, past
<1>2. r \in Request /\ r.pc = "code" /\ r.op = "exchange" /\ r.flow = f
  BY DEF Request, NoRequest
<1> HIDE DEF r
<1>3. request'[c] = r /\ Others(c) BY <1>1 DEF BrokerInv, BrokerTypeOK, Others
<1>4. /\ flow' \in [Flows -> Flow] /\ flow'[f].status = "consumed" /\ flow'[f].rev = flow[f].rev
      /\ \A g \in Flows \ {f} : flow'[g] = flow[g]
      /\ redeemed[f] = 0
  BY <1>1 DEF BrokerInv, BrokerTypeOK, Flow, FlowInv
<1>5. BrokerTypeOK' BY <1>1, <1>2, <1>4 DEF BrokerInv, BrokerTypeOK
<1>6. \A d \in Calls : request[d].pc \in {"code", "store"} => request[d].flow \in Flows \ {f}
  BY <1>1 DEF BrokerInv, RequestInv
<1>7. ASSUME NEW d \in Calls PROVE RequestInv(d)'
  <2>1. CASE d = c BY <1>1, <1>2, <1>3, <1>4, <2>1 DEF BrokerInv, RequestInv, Locked
  <2>2. CASE d # c
    <3>1. RequestInv(d) /\ request'[d] = request[d] BY <1>3, <2>2 DEF BrokerInv, Others
    <3> QED BY <1>1, <1>4, <1>6, <3>1, Elsewhere
  <2> QED BY <2>1, <2>2
<1>8. Unshared' BY <1>2, <1>3, <1>6 DEF BrokerInv, Unshared, Others
<1>9. FlowInv' BY <1>1, <1>4 DEF BrokerInv, FlowInv
<1>10. CredentialInv' /\ Onward
  BY <1>1, <1>4 DEF BrokerInv, BrokerTypeOK, CredentialInv, Onward, Credential
<1>11. NewestTokenKept' BY <1>1, <1>3 DEF BrokerInv, NewestTokenKept, Others
<1> QED BY <1>2, <1>3, <1>5, <1>7, <1>8, <1>9, <1>10, <1>11 DEF BrokerInv

LEMMA SaveStateKeeps ==
  ASSUME BrokerInv, NEW f \in Flows, NEW rev \in Nat, SaveState(f, rev),
         UNCHANGED <<creds, lock, request, outside, past>>
  PROVE  BrokerInv' /\ Onward /\ request' = request
<1>1. /\ flow[f].status = "none" /\ flow' = [flow EXCEPT ![f] = [status |-> "open", rev |-> rev]]
      /\ creds' = creds /\ lock' = lock /\ request' = request /\ provider' = provider
      /\ newest' = newest /\ withdrawn' = withdrawn /\ redeemed' = redeemed
      /\ origin' = origin /\ lost' = lost
  BY DEF SaveState, outside, past
<1>2. /\ flow' \in [Flows -> Flow] /\ flow'[f].status = "open"
      /\ \A g \in Flows \ {f} : flow'[g] = flow[g]
  BY <1>1 DEF BrokerInv, BrokerTypeOK, Flow
<1>3. BrokerTypeOK' BY <1>1, <1>2 DEF BrokerInv, BrokerTypeOK
<1>4. ASSUME NEW d \in Calls PROVE RequestInv(d)'
  <2>1. request[d].pc \in {"code", "store"} => request[d].flow \in Flows \ {f}
    BY <1>1 DEF BrokerInv, RequestInv
  <2>2. RequestInv(d) /\ request'[d] = request[d] BY <1>1 DEF BrokerInv
  <2> QED BY <1>1, <1>2, <2>1, <2>2, Elsewhere
<1>5. Unshared' /\ NewestTokenKept' BY <1>1 DEF BrokerInv, Unshared, NewestTokenKept
<1>6. FlowInv' BY <1>1, <1>2 DEF BrokerInv, FlowInv
<1>7. \A k \in Credentials : newest[k] > 0 => origin[k] \in Flows \ {f}
  BY <1>1 DEF BrokerInv, CredentialInv
<1>8. CredentialInv' /\ Onward
  BY <1>1, <1>2, <1>7 DEF BrokerInv, BrokerTypeOK, CredentialInv, Onward, Credential
<1> QED BY <1>1, <1>3, <1>4, <1>5, <1>6, <1>8 DEF BrokerInv

-----------------------------------------------------------------------------
(* The calls that a step leaves alone.                                      *)

\* A request goes on, or ends without its caller.
Continues(c) ==
  request[c].pc # "idle" =>
    /\ request'[c].pc # "idle" /\ request'[c].op = request[c].op
    /\ request'[c].flow = request[c].flow
    /\ request[c].op # "exchange" => request'[c].cred = request[c].cred

RowMoves == conn' = conn \/ (conn' \in Row /\ conn'.rev = conn.rev + 1)

LEMMA CallStays ==
  ASSUME BrokerInv, BrokerInv', ConnInv, NEW d \in Calls, CallInv(d), Onward, RowMoves,
         call'[d] = call[d], call[d].pc = "asks" => Continues(d)
  PROVE  CallInv(d)'
<1>1. conn \in Row /\ call[d].row \in Row BY DEF ConnInv, CallInv, RowInv
<1>2. conn.rev \in Nat /\ call[d].row.rev \in Nat /\ conn'.rev \in Nat
      /\ call[d].row.ver \in Nat
  BY <1>1 DEF Row, RowMoves
<1>3. \A k \in Credentials : creds[k].version \in Nat /\ creds'[k].version \in Nat
  BY DEF BrokerInv, BrokerTypeOK, Credential
<1>4. \A k \in Credentials :
        /\ Stored(k) => /\ Stored(k)' /\ origin'[k] = origin[k]
                        /\ flow'[origin[k]].rev = flow[origin[k]].rev
                        /\ creds'[k].version >= creds[k].version
        /\ Gone(k) => Gone(k)'
  BY DEF Stored, Gone, Onward
<1>5. RowInv(call[d].row)'
  BY <1>1, <1>2, <1>3, <1>4 DEF CallInv, RowInv
<1>6. Fits(call[d].row) => Fits(call[d].row)'
  BY <1>1, <1>2, <1>4 DEF CallInv, RowInv, Fits, RowMoves
<1>7. call[d].pc = "asks" => Continues(d) /\ request[d].pc # "idle" BY DEF CallInv
<1>8. CASE call[d].pc = "asks"
  <2>1. /\ request'[d].pc # "idle" /\ request'[d].op = request[d].op
        /\ request'[d].flow = request[d].flow
        /\ request[d].op # "exchange" => request'[d].cred = request[d].cred
    BY <1>7, <1>8 DEF Continues
  <2>2. conn' = conn \/ conn'.rev = conn.rev + 1 BY DEF RowMoves
  <2>3. CASE call[d].kind = "callback" BY <1>5, <1>8, <2>1, <2>3 DEF CallInv
  <2>4. CASE call[d].kind \in {"refresh", "resolve"}
    BY <1>2, <1>5, <1>8, <2>1, <2>2, <2>4 DEF CallInv
  <2>5. CASE call[d].kind \in {"revoke", "delete"}
    BY <1>5, <1>6, <1>8, <2>1, <2>5 DEF CallInv
  <2> QED BY <1>8, <2>3, <2>4, <2>5 DEF CallInv
<1>9. CASE call[d].pc = "mark"
  BY <1>2, <1>5, <1>6, <1>9 DEF CallInv, RowMoves, Fits
<1>10. CASE call[d].pc = "save"
  <2>1. call[d].row.status = "revoked" => call[d].row.cred \in Credentials
    BY DEF CallInv, RowInv
  <2>2. call[d].kind \in {"revoke", "delete"} => call[d].cred \in Credentials
    BY <1>10 DEF CallInv, Gone
  <2> QED BY <1>4, <1>5, <1>6, <1>10, <2>1, <2>2 DEF CallInv
<1>11. CASE call[d].pc \in {"state", "bind", "activate"}
  <2>1. call[d].kind = "callback" /\ call[d].flow \in Flows BY <1>11 DEF CallInv
  <2>2. call[d].pc = "state" => flow'[call[d].flow].status # "none"
    BY <1>11, <2>1 DEF CallInv, Onward
  <2>3. call[d].pc = "bind" => Stored(call[d].cred)' /\ origin'[call[d].cred] = call[d].flow
    BY <1>4 DEF CallInv, Stored
  <2> QED BY <1>5, <1>11, <2>1, <2>2, <2>3 DEF CallInv
<1>12. CASE call[d].pc \notin {"asks", "mark", "save", "state", "bind", "activate"}
  BY <1>5, <1>12 DEF CallInv
<1> QED BY <1>8, <1>9, <1>10, <1>11, <1>12

LEMMA ConnStays ==
  ASSUME BrokerInv, BrokerInv', ConnInv, Onward, conn' = conn
  PROVE  ConnInv'
<1>1. conn \in Row BY DEF ConnInv, RowInv
<1>2. conn.ver \in Nat BY <1>1 DEF Row
<1>3. \A k \in Credentials : creds[k].version \in Nat /\ creds'[k].version \in Nat
  BY DEF BrokerInv, BrokerTypeOK, Credential
<1>4. conn.cred \in Credentials => Stored(conn.cred)' /\ conn.ver <= creds'[conn.cred].version
  BY <1>2, <1>3 DEF ConnInv, RowInv, Stored, Onward
<1>5. conn.status = "revoked" => Gone(conn.cred)' BY DEF ConnInv, Gone, Onward
<1> QED BY <1>1, <1>4, <1>5 DEF ConnInv, RowInv

\* The step of one call, which may write the row.
LEMMA StepKeeps ==
  ASSUME Inv, BrokerInv', Onward, RowMoves, NEW c \in Calls,
         \A d \in Calls \ {c} : call'[d] = call[d] /\ request'[d] = request[d],
         CallTypes', CallInv(c)', conn' = conn \/ ConnInv', ended' = ended \/ EndedInv'
  PROVE  Inv'
<1>1. ConnInv' BY ConnStays DEF Inv, MailHubInv
<1>2. EndedInv' BY DEF Inv, MailHubInv, EndedInv, Gone, Onward
<1>3. ASSUME NEW d \in Calls \ {c} PROVE CallInv(d)'
  <2>1. Continues(d) BY <1>3 DEF Continues
  <2>2. CallInv(d) /\ BrokerInv /\ ConnInv BY DEF Inv, MailHubInv
  <2> QED BY <2>1, <2>2, CallStays
<1> QED BY <1>1, <1>2, <1>3 DEF Inv, MailHubInv

LEMMA RowTypes ==
  /\ NoRow \in Row /\ Idle \in Call /\ Idle.pc = "idle" /\ Idle.row = NoRow
  /\ NoRow.cred \notin Credentials /\ NoRow.status = "none"
BY BrokerAssumption DEF NoRow, Row, Status, Live, Idle, Call

LEMMA IdleInv ==
  ASSUME NEW c \in Calls, call'[c] = Idle
  PROVE  CallInv(c)'
BY RowTypes DEF CallInv, RowInv

LEMMA BrokerStep ==
  ASSUME Inv, NEW c \in Calls, BrokerWorks(c)
  PROVE  Inv'
<1>1. call' = call /\ conn' = conn /\ ended' = ended BY DEF BrokerWorks, mailhub
<1>2. BrokerInv' /\ Onward /\ Others(c) /\ Continues(c)
  BY RedeemKeeps, LoadKeeps, TokenKeeps, UnlinkKeeps DEF Inv, BrokerWorks, Continues
<1>3. BrokerInv /\ ConnInv /\ CallInv(c) BY DEF Inv, MailHubInv
<1>4. RowMoves /\ CallTypes' BY <1>1 DEF RowMoves, Inv, MailHubInv, CallTypes
<1>5. CallInv(c)' BY <1>1, <1>2, <1>3, <1>4, CallStays
<1>6. \A d \in Calls \ {c} : call'[d] = call[d] /\ request'[d] = request[d]
  BY <1>1, <1>2 DEF Others
<1> QED BY <1>1, <1>2, <1>4, <1>5, <1>6, StepKeeps

\* What a call hears, if it still listens.
LEMMA HearKeeps ==
  ASSUME Inv, BrokerInv', Onward, NEW c \in Calls, Others(c), NEW heard,
         Hears(c, heard), UNCHANGED <<conn, ended>>,
         call[c].pc = "asks" => heard \in Call /\ (call'[c] = heard => CallInv(c)')
  PROVE  Inv'
<1>1. /\ call'[c] = IF call[c].pc = "asks" THEN heard ELSE call[c]
      /\ \A d \in Calls \ {c} : call'[d] = call[d]
      /\ call' \in [Calls -> Call]
  BY DEF Hears, Inv, MailHubInv, CallTypes
<1>2. CallInv(c)'
  <2>1. CASE call[c].pc = "asks" BY <1>1, <2>1
  <2>2. CASE call[c].pc # "asks"
    <3>1. BrokerInv /\ ConnInv /\ CallInv(c) /\ RowMoves BY DEF Inv, MailHubInv, RowMoves
    <3> QED BY <1>1, <2>2, <3>1, CallStays
  <2> QED BY <2>1, <2>2
<1>3. CallTypes' /\ RowMoves BY <1>1 DEF Inv, MailHubInv, CallTypes, RowMoves
<1>4. \A d \in Calls \ {c} : call'[d] = call[d] /\ request'[d] = request[d]
  BY <1>1 DEF Others
<1> QED BY <1>1, <1>2, <1>3, <1>4, StepKeeps

\* A call that waits hears what it asked for.
LEMMA Asked ==
  ASSUME Inv, NEW c \in Calls, call[c].pc = "asks"
  PROVE  /\ call[c] \in Call /\ call[c].row \in Row
         /\ call[c].kind \in {"callback", "refresh", "resolve", "revoke", "delete"}
         /\ request[c].op = "exchange" <=> call[c].kind = "callback"
         /\ request[c].op = "refresh" <=> call[c].kind \in {"refresh", "resolve"}
         /\ request[c].op = "revoke" <=> call[c].kind \in {"revoke", "delete"}
<1>1. call[c] \in Call /\ CallInv(c) BY DEF Inv, MailHubInv, CallTypes
<1> QED BY <1>1 DEF CallInv, Call

LEMMA ExchangedStep ==
  ASSUME Inv, NEW c \in Calls, Exchanged(c)
  PROVE  Inv'
<1> DEFINE heard == [call[c] EXCEPT !.pc = "bind", !.cred = request[c].cred]
<1>1. /\ BrokerInv' /\ Onward /\ Others(c)
      /\ request[c].cred \in Credentials /\ creds'[request[c].cred].status = "ACTIVE"
      /\ origin'[request[c].cred] = request[c].flow /\ request[c].op = "exchange"
  BY StoreKeeps DEF Inv, Exchanged
<1>2. ASSUME call[c].pc = "asks" PROVE heard \in Call /\ (call'[c] = heard => CallInv(c)')
  <2>1. call[c] \in Call /\ call[c].kind = "callback" BY <1>1, <1>2, Asked
  <2>2. /\ heard \in Call /\ heard.pc = "bind" /\ heard.kind = "callback"
        /\ heard.cred = request[c].cred /\ heard.row = call[c].row /\ heard.flow = call[c].flow
    BY <1>1, <2>1 DEF Call
  <2>3. RowInv(call[c].row) /\ call[c].flow \in Flows /\ request[c].flow = call[c].flow
    BY <1>2, <2>1 DEF Inv, MailHubInv, CallInv
  <2>4. SUFFICES ASSUME call'[c] = heard PROVE CallInv(c)' BY <2>2
  <2>5. /\ call'[c].pc = "bind" /\ call'[c].kind = "callback" /\ call'[c].row = call[c].row
        /\ call'[c].cred = request[c].cred /\ call'[c].flow = call[c].flow
    BY <2>2, <2>4
  <2> HIDE DEF heard
  <2>6. RowInv(call[c].row)'
    <3>1. \A k \in Credentials : creds[k].version \in Nat /\ creds'[k].version \in Nat
      BY <1>1 DEF Inv, BrokerInv, BrokerTypeOK, Credential
    <3>2. call[c].row.ver \in Nat BY <2>1 DEF Call, Row
    <3> QED BY <1>1, <2>3, <2>5, <3>1, <3>2 DEF RowInv, Stored, Onward
  <2> QED BY <1>1, <2>3, <2>5, <2>6 DEF CallInv, Stored
<1> HIDE DEF heard
<1>3. Hears(c, heard) /\ UNCHANGED <<conn, ended>> BY DEF Exchanged, heard
<1> QED BY <1>1, <1>2, <1>3, HearKeeps

LEMMA RotatedStep ==
  ASSUME Inv, NEW c \in Calls, Rotated(c)
  PROVE  Inv'
<1> DEFINE v == request[c].version + 1
           row == call[c].row
           heard == Refreshed(c, v)
<1>1. /\ BrokerInv' /\ Onward /\ Others(c)
      /\ request[c].op = "refresh" /\ request[c].cred \in Credentials
      /\ creds'[request[c].cred].version = v
  BY RotateKeeps DEF Inv, Rotated
<1>2. v \in Nat BY RequestTypes DEF Inv, BrokerInv, Request
<1> HIDE DEF v
<1>3. ASSUME call[c].pc = "asks" PROVE heard \in Call /\ (call'[c] = heard => CallInv(c)')
  <2>1. call[c] \in Call /\ row \in Row /\ call[c].kind \in {"refresh", "resolve"}
    BY <1>1, <1>3, Asked
  <2>2. /\ RowInv(row) /\ row.cred = request[c].cred /\ row.cred \in Credentials
        /\ row.rev <= conn.rev
        /\ row.rev = conn.rev => row.ver = conn.ver /\ row.cred = conn.cred
    BY <1>3, <2>1 DEF Inv, MailHubInv, CallInv
  <2>3. CASE heard = Idle BY <2>3, RowTypes, IdleInv
  <2>4. CASE heard # Idle
    <3> DEFINE larger == Larger(v, row.ver)
               new == [row EXCEPT !.status = "active", !.rev = row.rev + 1, !.ver = larger]
    <3>1. /\ heard = [call[c] EXCEPT !.pc = "save", !.row = new]
          /\ call[c].kind = "refresh" /\ v >= row.ver
      BY <2>4 DEF Refreshed
    <3>2. row.ver \in Nat /\ row.rev \in Nat /\ larger = v
      BY <1>2, <2>1, <3>1 DEF Row, Larger
    <3> HIDE DEF larger
    <3>3. /\ new \in Row /\ new.status = "active" /\ new.rev = row.rev + 1
          /\ new.ver = v /\ new.cred = row.cred
      <4>1. row.rev + 1 \in Nat /\ larger \in Nat BY <1>2, <3>2
      <4>2. "active" \in Status BY DEF Status, Live
      <4> QED BY <2>1, <3>2, <4>1, <4>2 DEF Row
    <3> HIDE DEF new
    <3>4. heard \in Call /\ heard.pc = "save" /\ heard.kind = "refresh" /\ heard.row = new
      BY <2>1, <3>1, <3>3 DEF Call
    <3> SUFFICES ASSUME call'[c] = heard PROVE CallInv(c)' BY <3>4
    <3>5. call'[c].pc = "save" /\ call'[c].kind = "refresh" /\ call'[c].row = new BY <3>4
    <3>6. conn' = conn /\ conn \in Row BY DEF Rotated, Inv, MailHubInv, ConnInv, RowInv
    <3>7. conn.rev \in Nat /\ conn.ver \in Nat BY <3>6 DEF Row
    <3>8. creds'[new.cred].status # "none"
      BY <1>1, <2>2, <3>3 DEF RowInv, Stored, Onward
    <3>9. v >= conn.ver \/ row.rev # conn.rev BY <2>2, <3>1, <3>2
    <3> HIDE DEF heard, row
    <3>10. RowInv(call[c].row)'
      BY <1>1, <1>2, <2>2, <3>3, <3>5, <3>8 DEF RowInv, Stored
    <3>11. Fits(call[c].row)'
      BY <1>2, <2>2, <3>2, <3>3, <3>5, <3>6, <3>7, <3>9 DEF Fits
    <3> QED BY <3>3, <3>5, <3>10, <3>11 DEF CallInv
  <2> QED BY <2>3, <2>4
<1> HIDE DEF heard
<1>4. Hears(c, heard) /\ UNCHANGED <<conn, ended>> BY DEF Rotated, heard, v
<1> QED BY <1>1, <1>3, <1>4, HearKeeps

LEMMA RevokedStep ==
  ASSUME Inv, NEW c \in Calls, Revoked(c)
  PROVE  Inv'
<1> DEFINE heard == [call[c] EXCEPT !.pc = "save"]
<1>1. /\ BrokerInv' /\ Onward /\ Others(c)
      /\ request[c].op = "revoke" /\ request[c].cred \in Credentials
      /\ creds'[request[c].cred].status = "REVOKED"
  BY DestroyKeeps, FailKeeps DEF Inv, Revoked
<1>2. ASSUME call[c].pc = "asks" PROVE heard \in Call /\ (call'[c] = heard => CallInv(c)')
  <2>1. call[c] \in Call /\ call[c].row \in Row /\ call[c].kind \in {"revoke", "delete"}
    BY <1>1, <1>2, Asked
  <2>2. /\ RowInv(call[c].row) /\ request[c].cred = call[c].cred
        /\ call[c].row.status \in {"revoked", "deleted"} /\ Fits(call[c].row)
        /\ call[c].row.status = "revoked" => call[c].row.cred = call[c].cred
    BY <1>2, <2>1 DEF Inv, MailHubInv, CallInv
  <2>3. heard \in Call /\ heard.pc = "save" /\ heard.row = call[c].row
        /\ heard.cred = call[c].cred
    BY <2>1 DEF Call
  <2> SUFFICES ASSUME call'[c] = heard PROVE CallInv(c)' BY <2>3
  <2>4. call'[c].pc = "save" /\ call'[c].row = call[c].row /\ call'[c].cred = call[c].cred
    BY <2>3
  <2> HIDE DEF heard
  <2>5. conn' = conn BY DEF Revoked
  <2>6. \A k \in Credentials : creds[k].version \in Nat /\ creds'[k].version \in Nat
    BY <1>1 DEF Inv, BrokerInv, BrokerTypeOK, Credential
  <2>7. call[c].row.ver \in Nat BY <2>1 DEF Row
  <2>8. RowInv(call[c].row)'
    BY <1>1, <2>2, <2>4, <2>6, <2>7 DEF RowInv, Stored, Onward
  <2>9. Fits(call[c].row)'
    BY <1>1, <2>2, <2>4, <2>5 DEF Fits, RowInv, Stored, Onward
  <2>10. Gone(call[c].cred)' BY <1>1, <2>2, <2>4 DEF Gone
  <2>11. call'[c].row.status = "revoked" => Gone(call[c].row.cred)'
    BY <1>1, <2>2, <2>4 DEF Gone
  <2> QED BY <2>2, <2>4, <2>8, <2>9, <2>10, <2>11 DEF CallInv
<1> HIDE DEF heard
<1>3. Hears(c, heard) /\ UNCHANGED <<conn, ended>> BY DEF Revoked, heard
<1> QED BY <1>1, <1>2, <1>3, HearKeeps

LEMMA RefusedStep ==
  ASSUME Inv, NEW c \in Calls, Refused(c)
  PROVE  Inv'
<1>1. BrokerInv' /\ Onward /\ Others(c) BY FailKeeps DEF Inv, Refused
<1>2. Hears(c, Idle) /\ UNCHANGED <<conn, ended>> BY DEF Refused
<1> QED BY <1>1, <1>2, RowTypes, IdleInv, HearKeeps

-----------------------------------------------------------------------------
(* The steps of a call.                                                     *)

\* A step that leaves the row alone and moves the call on.
LEMMA CallStep ==
  ASSUME Inv, NEW c \in Calls, NEW next \in Call, BrokerInv', Onward,
         \A d \in Calls \ {c} : request'[d] = request[d],
         call' = [call EXCEPT ![c] = next], UNCHANGED <<conn, ended>>,
         call'[c] = next => CallInv(c)'
  PROVE  Inv'
<1>1. CallTypes' /\ call'[c] = next /\ \A d \in Calls \ {c} : call'[d] = call[d]
  BY DEF Inv, MailHubInv, CallTypes
<1> QED BY <1>1, StepKeeps DEF RowMoves

\* The row, and a copy of it with another status.
LEMMA ConnTypes ==
  ASSUME Inv, NEW s \in Status
  PROVE  /\ conn \in Row /\ conn.rev \in Nat /\ conn.ver \in Nat /\ RowInv(conn)
         /\ Changed(s) \in Row /\ Changed(s).status = s /\ Changed(s).rev = conn.rev + 1
         /\ Changed(s).ver = conn.ver /\ Changed(s).cred = conn.cred
<1>1. conn \in Row /\ RowInv(conn) BY DEF Inv, MailHubInv, ConnInv, RowInv
<1>2. conn.rev \in Nat /\ conn.ver \in Nat /\ conn.rev + 1 \in Nat BY <1>1 DEF Row
<1>3. Changed(s) = [conn EXCEPT !.status = s, !.rev = conn.rev + 1]
  BY <1>1 DEF Changed, Row
<1> QED BY <1>1, <1>2, <1>3 DEF Row

LEMMA ChangeStep ==
  ASSUME Inv, NEW c \in Calls, NEW s \in Live \cup {"reauthorization_required"}, Change(c, s)
  PROVE  Inv'
<1> DEFINE next == [Idle EXCEPT !.pc = "save", !.kind = "change", !.cred = conn.cred,
                                !.row = Changed(s)]
<1>1. /\ call' = [call EXCEPT ![c] = next] /\ UNCHANGED <<conn, ended>> /\ UNCHANGED broker
      /\ conn.status \notin {"none", "revoked", "deleted"}
  BY DEF Change, Starts
<1>2. BrokerInv' /\ Onward /\ request' = request BY <1>1, NothingKeeps DEF Inv
<1>3. s \in Status \ {"none", "revoked", "deleted"} BY DEF Status, Live
<1> DEFINE row == Changed(s)
<1>4. /\ conn \in Row /\ conn.rev \in Nat /\ conn.ver \in Nat /\ RowInv(conn)
      /\ row \in Row /\ row.status = s /\ row.rev = conn.rev + 1
      /\ row.ver = conn.ver /\ row.cred = conn.cred
  BY <1>3, ConnTypes
<1> HIDE DEF row
<1>5. /\ next \in Call /\ next.pc = "save" /\ next.kind = "change" /\ next.row = row
  BY <1>4 DEF next, row, Idle, Call, Row
<1>6. ASSUME call'[c] = next PROVE CallInv(c)'
  <2>1. /\ call'[c].pc = "save" /\ call'[c].kind = "change" /\ call'[c].row = row
        /\ conn' = conn /\ creds' = creds
    BY <1>1, <1>5, <1>6 DEF broker, store
  <2> HIDE DEF next
  <2>2. RowInv(call[c].row)'
    BY <1>1, <1>4, <2>1 DEF RowInv, Stored
  <2>3. Fits(call[c].row)' BY <1>4, <2>1 DEF Fits
  <2> QED BY <1>3, <1>4, <2>1, <2>2, <2>3 DEF CallInv
<1> HIDE DEF next
<1> QED BY <1>1, <1>2, <1>5, <1>6, CallStep

LEMMA CallbackStep ==
  ASSUME Inv, NEW c \in Calls, NEW f \in Flows, Callback(c, f)
  PROVE  Inv'
<1> DEFINE next == [Idle EXCEPT !.pc = "state", !.kind = "callback", !.flow = f]
<1>1. /\ call' = [call EXCEPT ![c] = next] /\ UNCHANGED <<conn, ended>> /\ UNCHANGED broker
      /\ flow[f].status # "none"
  BY DEF Callback
<1>2. BrokerInv' /\ Onward /\ request' = request BY <1>1, NothingKeeps DEF Inv
<1>3. /\ next \in Call /\ next.pc = "state" /\ next.kind = "callback" /\ next.flow = f
      /\ next.row = NoRow
  BY RowTypes DEF Idle, Call
<1>4. ASSUME call'[c] = next PROVE CallInv(c)'
  <2>1. /\ call'[c].pc = "state" /\ call'[c].kind = "callback" /\ call'[c].flow = f
        /\ call'[c].row = NoRow
    BY <1>3, <1>4
  <2>2. flow'[f].status # "none" BY <1>1, <1>2 DEF Onward
  <2> HIDE DEF next
  <2> QED BY <2>1, <2>2, RowTypes DEF CallInv, RowInv
<1> HIDE DEF next
<1> QED BY <1>1, <1>2, <1>3, <1>4, CallStep

LEMMA ExchangeStep ==
  ASSUME Inv, NEW c \in Calls, Exchange(c)
  PROVE  Inv'
<1> DEFINE f == call[c].flow
           next == [call[c] EXCEPT !.pc = "asks"]
<1>1. call[c] \in Call /\ CallInv(c) /\ call[c].pc = "state"
  BY DEF Inv, MailHubInv, CallTypes, Exchange
<1>2. call[c].kind = "callback" /\ f \in Flows /\ RowInv(call[c].row) BY <1>1 DEF CallInv
<1>3. /\ call' = [call EXCEPT ![c] = next] /\ UNCHANGED <<conn, ended>>
      /\ ConsumeState(f) /\ Arrives(c, "exchange", f, NoCredential)
      /\ UNCHANGED <<creds, lock, outside, past>>
  BY DEF Exchange, Inv, MailHubInv, CallTypes
<1>4. /\ next \in Call /\ next.pc = "asks" /\ next.kind = "callback" /\ next.flow = f
      /\ next.row = call[c].row
  BY <1>1, <1>2 DEF Call
<1> HIDE DEF f, next
<1>5. BrokerInv' /\ Onward /\ Others(c) /\ request'[c].pc # "idle"
      /\ request'[c].op = "exchange" /\ request'[c].flow = f
  BY <1>2, <1>3, ExchangeKeeps DEF Inv
<1>6. ASSUME call'[c] = next PROVE CallInv(c)'
  <2>1. /\ call'[c].pc = "asks" /\ call'[c].kind = "callback" /\ call'[c].flow = f
        /\ call'[c].row = call[c].row /\ creds' = creds
    BY <1>3, <1>4, <1>6
  <2> QED BY <1>2, <1>5, <2>1 DEF CallInv, RowInv, Stored
<1> QED BY <1>3, <1>4, <1>5, <1>6, CallStep DEF Others

LEMMA ReauthorizeStep ==
  ASSUME Inv, NEW c \in Calls, ReauthorizeConnection(c)
  PROVE  Inv'
<1> DEFINE k == call[c].cred
           larger == Larger(1, conn.ver)
           row == [Changed("active") EXCEPT !.cred = k, !.ver = larger]
           next == [call[c] EXCEPT !.pc = "save", !.row = row]
<1>1. /\ call[c] \in Call /\ CallInv(c) /\ call[c].pc = "bind" /\ UNCHANGED <<conn, ended>>
      /\ UNCHANGED broker /\ conn.rev = flow[call[c].flow].rev /\ 1 >= conn.ver
  BY DEF Inv, MailHubInv, CallTypes, ReauthorizeConnection, Bound, NoRollback
<1>2. call' = [call EXCEPT ![c] = next]
  BY DEF ReauthorizeConnection, Inv, MailHubInv, CallTypes
<1>3. BrokerInv' /\ Onward /\ request' = request BY <1>1, NothingKeeps DEF Inv
<1>4. /\ call[c].kind = "callback" /\ Stored(k) /\ origin[k] = call[c].flow
  BY <1>1 DEF CallInv
<1>5. creds[k].version \in Nat /\ creds[k].version > 0 /\ k \in Credentials
  BY <1>4 DEF Stored, Inv, BrokerInv, BrokerTypeOK, CredentialInv, Credential
<1>6. "active" \in Status BY DEF Status, Live
<1>7. /\ conn.rev \in Nat /\ conn.ver \in Nat
      /\ Changed("active") \in Row /\ Changed("active").status = "active"
      /\ Changed("active").rev = conn.rev + 1
  BY <1>6, ConnTypes
<1>8. larger = 1 BY <1>1, <1>7 DEF Larger
<1> HIDE DEF larger
<1>9. /\ row \in Row /\ row.status = "active" /\ row.rev = conn.rev + 1 /\ row.ver = 1
      /\ row.cred = k
  BY <1>5, <1>7, <1>8 DEF Row
<1> HIDE DEF row
<1>10. next \in Call /\ next.pc = "save" /\ next.kind = "callback" /\ next.row = row
  BY <1>1, <1>4, <1>9 DEF Call
<1> HIDE DEF next
<1>11. ASSUME call'[c] = next PROVE CallInv(c)'
  <2>1. /\ call'[c].pc = "save" /\ call'[c].kind = "callback" /\ call'[c].row = row
        /\ conn' = conn /\ creds' = creds /\ flow' = flow /\ origin' = origin
    BY <1>1, <1>10, <1>11 DEF broker, store, past
  <2> HIDE DEF k
  <2>2. RowInv(call[c].row)' BY <1>4, <1>5, <1>9, <2>1 DEF RowInv, Stored
  <2>3. Fits(call[c].row)' BY <1>1, <1>4, <1>7, <1>9, <2>1 DEF Fits
  <2> QED BY <1>9, <2>1, <2>2, <2>3 DEF CallInv
<1> QED BY <1>1, <1>2, <1>3, <1>10, <1>11, CallStep

LEMMA CreateStep ==
  ASSUME Inv, NEW c \in Calls, CreateConnection(c)
  PROVE  Inv'
<1> DEFINE k == call[c].cred
           row == [status |-> "pending_authorization", rev |-> 1, cred |-> k, ver |-> 1]
           next == [call[c] EXCEPT !.pc = "activate"]
<1>1. /\ call[c] \in Call /\ CallInv(c) /\ call[c].pc = "bind" /\ conn.status = "none"
      /\ conn' = row /\ UNCHANGED broker /\ ended' = ended
  BY DEF Inv, MailHubInv, CallTypes, CreateConnection
<1>2. call' = [call EXCEPT ![c] = next]
  BY DEF CreateConnection, Inv, MailHubInv, CallTypes
<1>3. BrokerInv' /\ Onward /\ request' = request BY <1>1, NothingKeeps DEF Inv
<1>4. Stored(k) /\ RowInv(call[c].row) BY <1>1 DEF CallInv
<1>5. creds[k].version \in Nat /\ creds[k].version > 0 /\ k \in Credentials
  BY <1>4 DEF Stored, Inv, BrokerInv, BrokerTypeOK, CredentialInv, Credential
<1>6. conn = NoRow BY <1>1 DEF Inv, MailHubInv, ConnInv
<1>7. row \in Row /\ row.rev = conn.rev + 1 BY <1>5, <1>6 DEF Row, Status, NoRow
<1>8. /\ next \in Call /\ next.pc = "activate" /\ next.row = call[c].row
      /\ next.kind = call[c].kind /\ next.flow = call[c].flow
  BY <1>1 DEF Call
<1> HIDE DEF next
<1>9. /\ CallTypes' /\ call'[c] = next /\ \A d \in Calls \ {c} : call'[d] = call[d]
  BY <1>1, <1>2, <1>8 DEF Inv, MailHubInv, CallTypes
<1>10. CallInv(c)'
  <2>1. /\ call'[c].pc = "activate" /\ call'[c].row = call[c].row /\ creds' = creds
        /\ call'[c].kind = "callback" /\ call'[c].flow \in Flows
    BY <1>1, <1>8, <1>9 DEF broker, store, CallInv
  <2> QED BY <1>4, <2>1 DEF CallInv, RowInv, Stored
<1>11. ConnInv'
  <2>1. creds' = creds BY <1>1 DEF broker, store
  <2> QED BY <1>1, <1>4, <1>5, <1>7, <2>1 DEF ConnInv, RowInv, Stored
<1>12. RowMoves BY <1>1, <1>7 DEF RowMoves
<1> QED BY <1>1, <1>3, <1>9, <1>10, <1>11, <1>12, StepKeeps

LEMMA ActivateStep ==
  ASSUME Inv, NEW c \in Calls, ActivateConnection(c)
  PROVE  Inv'
<1> DEFINE row == Changed("active")
           next == [call[c] EXCEPT !.pc = "save", !.row = row]
<1>1. /\ call[c] \in Call /\ CallInv(c) /\ call[c].pc = "activate" /\ UNCHANGED <<conn, ended>>
      /\ UNCHANGED broker /\ conn.rev = 1 /\ conn.status \notin {"revoked", "deleted"}
  BY DEF Inv, MailHubInv, CallTypes, ActivateConnection
<1>2. call' = [call EXCEPT ![c] = next]
  BY DEF ActivateConnection, Inv, MailHubInv, CallTypes
<1>3. BrokerInv' /\ Onward /\ request' = request BY <1>1, NothingKeeps DEF Inv
<1>4. conn.status # "none" BY <1>1 DEF Inv, MailHubInv, ConnInv, NoRow
<1>5. "active" \in Status BY DEF Status, Live
<1>6. /\ conn.rev \in Nat /\ conn.ver \in Nat /\ RowInv(conn)
      /\ row \in Row /\ row.status = "active" /\ row.rev = conn.rev + 1
      /\ row.ver = conn.ver /\ row.cred = conn.cred
  BY <1>5, ConnTypes
<1> HIDE DEF row
<1>7. call[c].kind \notin {"revoke", "delete"} /\ next \in Call /\ next.pc = "save" /\ next.row = row
        /\ next.kind = call[c].kind
  BY <1>1, <1>6 DEF Call, CallInv
<1> HIDE DEF next
<1>8. ASSUME call'[c] = next PROVE CallInv(c)'
  <2>1. /\ call'[c].pc = "save" /\ call'[c].row = row /\ call'[c].kind = call[c].kind
        /\ conn' = conn /\ creds' = creds
    BY <1>1, <1>7, <1>8 DEF broker, store
  <2>2. RowInv(call[c].row)' BY <1>1, <1>4, <1>6, <2>1 DEF RowInv, Stored
  <2>3. Fits(call[c].row)' BY <1>6, <2>1 DEF Fits
  <2> QED BY <1>6, <1>7, <2>1, <2>2, <2>3 DEF CallInv
<1> QED BY <1>1, <1>2, <1>3, <1>7, <1>8, CallStep

\* refresh_connection and resolve ask with the row as they read it.
LEMMA RefreshStep ==
  ASSUME Inv, NEW c \in Calls, NEW asked \in {"refresh", "resolve"},
         conn.status \notin {"none", "deleted"}, Starts(c, "asks", asked, conn),
         Arrives(c, "refresh", NoCall, conn.cred),
         UNCHANGED <<store, lock, outside, past, conn, ended>>
  PROVE  Inv'
<1> DEFINE next == [Idle EXCEPT !.pc = "asks", !.kind = asked, !.cred = conn.cred, !.row = conn]
<1>1. /\ call' = [call EXCEPT ![c] = next] /\ UNCHANGED <<conn, ended>>
      /\ UNCHANGED <<store, lock, outside, past>>
  BY DEF Starts
<1>2. conn \in Row /\ RowInv(conn) /\ conn.cred \in Credentials
  BY DEF Inv, MailHubInv, ConnInv, RowInv
<1>3. BrokerInv' /\ Onward /\ Others(c) /\ request'[c].pc # "idle"
      /\ request'[c].op = "refresh" /\ request'[c].cred = conn.cred
  BY <1>1, <1>2, ArrivesKeeps DEF Inv
<1>4. /\ next \in Call /\ next.pc = "asks" /\ next.kind = asked /\ next.row = conn
  BY <1>2 DEF Idle, Call, Row
<1> HIDE DEF next
<1>5. ASSUME call'[c] = next PROVE CallInv(c)'
  <2>1. /\ call'[c].pc = "asks" /\ call'[c].kind = asked /\ call'[c].row = conn
        /\ conn' = conn /\ creds' = creds
    BY <1>1, <1>4, <1>5 DEF store
  <2>2. conn.rev \in Nat BY <1>2 DEF Row
  <2>3. RowInv(call[c].row)' BY <1>2, <2>1 DEF RowInv, Stored
  <2> QED BY <1>2, <1>3, <2>1, <2>2, <2>3 DEF CallInv
<1> QED BY <1>1, <1>3, <1>4, <1>5, CallStep DEF Others

\* A revocation, or the retry of a deletion, asks for the credential of the row.
LEMMA RevokeStep ==
  ASSUME Inv, NEW c \in Calls, NEW asked \in {"revoke", "delete"}, NEW row \in Row,
         conn.status \notin {"none", "deleted"}, Starts(c, "asks", asked, row),
         row.rev = conn.rev + 1, row.ver = conn.ver,
         \/ row.status = "revoked" /\ row.cred = conn.cred
         \/ row.status = "deleted" /\ row.cred = NoCredential,
         Arrives(c, "revoke", NoCall, conn.cred),
         UNCHANGED <<store, lock, outside, past, conn, ended>>
  PROVE  Inv'
<1> DEFINE next == [Idle EXCEPT !.pc = "asks", !.kind = asked, !.cred = conn.cred, !.row = row]
<1>1. /\ call' = [call EXCEPT ![c] = next] /\ UNCHANGED <<conn, ended>>
      /\ UNCHANGED <<store, lock, outside, past>>
  BY DEF Starts
<1>2. conn \in Row /\ RowInv(conn) /\ conn.cred \in Credentials
  BY DEF Inv, MailHubInv, ConnInv, RowInv
<1>3. BrokerInv' /\ Onward /\ Others(c) /\ request'[c].pc # "idle"
      /\ request'[c].op = "revoke" /\ request'[c].cred = conn.cred
  BY <1>1, <1>2, ArrivesKeeps DEF Inv
<1>4. /\ next \in Call /\ next.pc = "asks" /\ next.kind = asked /\ next.row = row
      /\ next.cred = conn.cred
  BY <1>2 DEF Idle, Call
<1> HIDE DEF next
<1>5. ASSUME call'[c] = next PROVE CallInv(c)'
  <2>1. /\ call'[c].pc = "asks" /\ call'[c].kind = asked /\ call'[c].row = row
        /\ call'[c].cred = conn.cred /\ conn' = conn /\ creds' = creds
    BY <1>1, <1>4, <1>5 DEF store
  <2>2. conn.rev \in Nat /\ conn.ver \in Nat BY <1>2 DEF Row
  <2>3. RowInv(call[c].row)' BY <1>2, <2>1, BrokerAssumption DEF RowInv, Stored
  <2>4. Fits(call[c].row)' BY <2>1, <2>2, BrokerAssumption DEF Fits
  <2> QED BY <1>2, <1>3, <2>1, <2>3, <2>4 DEF CallInv
<1> QED BY <1>1, <1>3, <1>4, <1>5, CallStep DEF Others

LEMMA TombstoneTypes ==
  ASSUME NEW row \in Row
  PROVE  /\ Tombstone(row) \in Row /\ Tombstone(row).status = "deleted"
         /\ Tombstone(row).rev = row.rev + 1 /\ Tombstone(row).ver = row.ver
         /\ Tombstone(row).cred = NoCredential /\ row.rev \in Nat /\ row.ver \in Nat
<1>1. row.rev \in Nat /\ row.ver \in Nat /\ row.rev + 1 \in Nat BY DEF Row
<1>2. Tombstone(row) = [row EXCEPT !.status = "deleted", !.rev = row.rev + 1,
                                   !.cred = NoCredential]
  BY DEF Tombstone, Row
<1>3. "deleted" \in Status BY DEF Status
<1> QED BY <1>1, <1>2, <1>3 DEF Row

LEMMA DeleteStep ==
  ASSUME Inv, NEW c \in Calls, Delete(c)
  PROVE  Inv'
<1> DEFINE row == Changed("deleting")
           next == [Idle EXCEPT !.pc = "mark", !.kind = "delete", !.cred = conn.cred, !.row = row]
<1>1. /\ call' = [call EXCEPT ![c] = next] /\ UNCHANGED <<conn, ended>> /\ UNCHANGED broker
      /\ conn.status \notin {"none", "deleted"}
  BY DEF Delete, Starts
<1>2. BrokerInv' /\ Onward /\ request' = request BY <1>1, NothingKeeps DEF Inv
<1>3. "deleting" \in Status BY DEF Status
<1>4. /\ conn \in Row /\ conn.rev \in Nat /\ conn.ver \in Nat /\ RowInv(conn)
      /\ row \in Row /\ row.status = "deleting" /\ row.rev = conn.rev + 1
      /\ row.ver = conn.ver /\ row.cred = conn.cred
  BY <1>3, ConnTypes
<1> HIDE DEF row
<1>5. conn.cred \in Credentials BY <1>1, <1>4 DEF RowInv
<1>6. /\ next \in Call /\ next.pc = "mark" /\ next.kind = "delete" /\ next.row = row
      /\ next.cred = conn.cred
  BY <1>4, <1>5 DEF Idle, Call
<1> HIDE DEF next
<1>7. ASSUME call'[c] = next PROVE CallInv(c)'
  <2>1. /\ call'[c].pc = "mark" /\ call'[c].kind = "delete" /\ call'[c].row = row
        /\ call'[c].cred = conn.cred /\ conn' = conn /\ creds' = creds
    BY <1>1, <1>6, <1>7 DEF broker, store
  <2>2. RowInv(call[c].row)' BY <1>4, <1>5, <2>1 DEF RowInv, Stored
  <2>3. Fits(call[c].row)' BY <1>4, <2>1 DEF Fits
  <2> QED BY <1>4, <1>5, <2>1, <2>2, <2>3 DEF CallInv
<1> QED BY <1>1, <1>2, <1>6, <1>7, CallStep

\* The row is DELETING; the call goes on to its tombstone.
LEMMA MarkStep ==
  ASSUME Inv, NEW c \in Calls, MarkDeleting(c)
  PROVE  Inv'
<1> DEFINE row == call[c].row
           tomb == Tombstone(row)
           stage == IF conn.status = "revoked" THEN "save" ELSE "asks"
           next == [call[c] EXCEPT !.pc = stage, !.row = tomb]
<1>1. /\ call[c] \in Call /\ CallInv(c) /\ call[c].pc = "mark" /\ conn.rev < row.rev
      /\ conn' = row /\ UNCHANGED <<store, lock, outside, past>> /\ ended' = ended
      /\ IF stage = "asks" THEN Arrives(c, "revoke", NoCall, conn.cred) ELSE UNCHANGED request
  BY DEF Inv, MailHubInv, CallTypes, MarkDeleting, RevisionFree
<1>2. call' = [call EXCEPT ![c] = next]
  BY DEF MarkDeleting, Inv, MailHubInv, CallTypes
<1>3. /\ call[c].kind = "delete" /\ Fits(row) /\ row.status = "deleting" /\ RowInv(row)
      /\ call[c].cred \in Credentials /\ row.cred = call[c].cred
      /\ row.rev = conn.rev + 1 => conn.cred = call[c].cred
  BY <1>1 DEF CallInv
<1>4. conn.rev \in Nat /\ row \in Row /\ row.rev \in Nat
  <2>1. conn \in Row /\ row \in Row BY <1>3 DEF RowInv, Inv, MailHubInv, ConnInv
  <2> QED BY <2>1 DEF Row
<1>5. row.rev = conn.rev + 1 /\ conn.cred = call[c].cred
  BY <1>1, <1>3, <1>4 DEF Fits
<1>6. /\ tomb \in Row /\ tomb.status = "deleted" /\ tomb.rev = row.rev + 1
      /\ tomb.ver = row.ver /\ tomb.cred = NoCredential /\ row.ver \in Nat
  BY <1>4, TombstoneTypes
<1> HIDE DEF tomb
<1>7. stage \in {"save", "asks"} /\ (stage = "save" => conn.status = "revoked") OBVIOUS
<1>8. /\ BrokerInv' /\ Onward /\ Others(c)
      /\ stage = "asks" => /\ request'[c].pc # "idle" /\ request'[c].op = "revoke"
                            /\ request'[c].cred = call[c].cred
  <2>1. CASE stage = "asks"
    <3>1. Arrives(c, "revoke", NoCall, call[c].cred) BY <1>1, <1>5, <2>1
    <3> QED BY <1>1, <1>3, <3>1, <2>1, ArrivesKeeps DEF Inv
  <2>2. CASE stage # "asks"
    <3>1. UNCHANGED broker BY <1>1, <2>2 DEF broker
    <3> QED BY <3>1, <2>2, NothingKeeps DEF Inv, Others
  <2> QED BY <2>1, <2>2
<1> HIDE DEF stage
<1>9. /\ next \in Call /\ next.pc = stage /\ next.kind = "delete" /\ next.row = tomb
      /\ next.cred = call[c].cred
  BY <1>1, <1>3, <1>6, <1>7 DEF Call
<1> HIDE DEF next
<1>10. /\ CallTypes' /\ call'[c] = next /\ \A d \in Calls \ {c} : call'[d] = call[d]
  BY <1>1, <1>2, <1>9 DEF Inv, MailHubInv, CallTypes
<1>11. creds' = creds BY <1>1 DEF store
<1>12. CallInv(c)'
  <2>1. /\ call'[c].pc = stage /\ call'[c].kind = "delete" /\ call'[c].row = tomb
        /\ call'[c].cred = call[c].cred
    BY <1>9, <1>10
  <2>2. RowInv(call[c].row)' BY <1>6, <2>1, BrokerAssumption DEF RowInv
  <2>3. Fits(call[c].row)' BY <1>1, <1>4, <1>6, <2>1, BrokerAssumption DEF Fits
  <2>4. CASE stage = "asks" BY <1>3, <1>6, <1>8, <2>1, <2>2, <2>3, <2>4 DEF CallInv
  <2>5. CASE stage = "save"
    <3>1. Gone(conn.cred) BY <1>7, <2>5 DEF Inv, MailHubInv, ConnInv
    <3>2. Gone(call[c].cred)' BY <1>5, <1>11, <2>1, <3>1 DEF Gone
    <3> QED BY <1>6, <2>1, <2>2, <2>3, <2>5, <3>2 DEF CallInv
  <2> QED BY <1>7, <2>4, <2>5
<1>13. ConnInv' BY <1>1, <1>3, <1>11 DEF ConnInv, RowInv, Stored
<1>14. RowMoves BY <1>1, <1>4, <1>5 DEF RowMoves
<1> QED BY <1>1, <1>8, <1>10, <1>12, <1>13, <1>14, StepKeeps DEF Others

LEMMA SaveStep ==
  ASSUME Inv, NEW c \in Calls, SaveConnection(c)
  PROVE  Inv' /\ conn'.rev = conn.rev + 1
<1> DEFINE row == call[c].row
<1>1. /\ call[c] \in Call /\ CallInv(c) /\ call[c].pc = "save" /\ conn.rev < row.rev
      /\ conn' = row /\ UNCHANGED broker /\ call' = [call EXCEPT ![c] = Idle]
      /\ ended' = ended \cup (IF call[c].kind \in {"revoke", "delete"}
                              THEN {call[c].cred} ELSE {})
  BY DEF Inv, MailHubInv, CallTypes, SaveConnection, RevisionFree
<1>2. BrokerInv' /\ Onward /\ request' = request BY <1>1, NothingKeeps DEF Inv
<1>3. /\ Fits(row) /\ row.status # "none" /\ RowInv(row)
      /\ row.status = "revoked" => Gone(row.cred)
      /\ call[c].kind \in {"revoke", "delete"} => Gone(call[c].cred)
  BY <1>1 DEF CallInv
<1>4. conn.rev \in Nat /\ row \in Row /\ row.rev \in Nat
  <2>1. conn \in Row /\ row \in Row BY <1>3 DEF RowInv, Inv, MailHubInv, ConnInv
  <2> QED BY <2>1 DEF Row
<1>5. row.rev = conn.rev + 1 BY <1>1, <1>3, <1>4 DEF Fits
<1>6. creds' = creds BY <1>1 DEF broker, store
<1>7. ConnInv' BY <1>1, <1>3, <1>6 DEF ConnInv, RowInv, Stored, Gone
<1>8. EndedInv' BY <1>1, <1>3, <1>6 DEF EndedInv, Gone, Inv, MailHubInv
<1>9. CallTypes' /\ call'[c] = Idle /\ \A d \in Calls \ {c} : call'[d] = call[d]
  BY <1>1, <1>3, RowTypes DEF Inv, MailHubInv, CallTypes, Gone
<1>10. CallInv(c)' BY <1>9, IdleInv
<1>11. RowMoves BY <1>1, <1>4, <1>5 DEF RowMoves
<1> QED BY <1>1, <1>2, <1>5, <1>7, <1>8, <1>9, <1>10, <1>11, StepKeeps

-----------------------------------------------------------------------------
(* The invariant.                                                           *)

LEMMA BeginStep ==
  ASSUME Inv, NEW f \in Flows, BeginNew(f) \/ BeginReauthorize(f)
  PROVE  Inv'
<1>1. conn.rev \in Nat BY DEF Inv, MailHubInv, ConnInv, RowInv, Row
<1>2. \E rev \in Nat : SaveState(f, rev) BY <1>1 DEF BeginNew, BeginReauthorize
<1>3. /\ UNCHANGED <<creds, lock, request, outside, past>>
      /\ call' = call /\ conn' = conn /\ ended' = ended
  BY DEF BeginNew, BeginReauthorize, mailhub
<1>4. BrokerInv' /\ Onward /\ request' = request BY <1>2, <1>3, SaveStateKeeps DEF Inv
<1>5. BrokerInv /\ ConnInv /\ RowMoves BY <1>3 DEF Inv, MailHubInv, RowMoves
<1>6. ASSUME NEW d \in Calls PROVE CallInv(d)'
  <2>1. CallInv(d) /\ Continues(d) BY <1>4 DEF Inv, MailHubInv, Continues
  <2> QED BY <1>3, <1>4, <1>5, <2>1, CallStays
<1>7. ConnInv' BY <1>3, <1>4, <1>5, ConnStays
<1>8. CallTypes' /\ EndedInv'
  BY <1>3, <1>4 DEF Inv, MailHubInv, CallTypes, EndedInv, Gone, Onward
<1> QED BY <1>4, <1>6, <1>7, <1>8 DEF Inv, MailHubInv

LEMMA FailStep ==
  ASSUME Inv, NEW c \in Calls, CallFails(c)
  PROVE  Inv'
<1>1. /\ call' = [call EXCEPT ![c] = Idle] /\ UNCHANGED broker /\ UNCHANGED <<conn, ended>>
  BY DEF CallFails
<1>2. BrokerInv' /\ Onward /\ request' = request BY <1>1, NothingKeeps DEF Inv
<1> QED BY <1>1, <1>2, RowTypes, IdleInv, CallStep

LEMMA MailHubStep ==
  ASSUME Inv, NEW c \in Calls, MailHubWorks(c)
  PROVE  Inv'
<1>1. CASE \E f \in Flows : Callback(c, f) BY <1>1, CallbackStep
<1>2. CASE \E s \in Live \cup {"reauthorization_required"} : Change(c, s)
  BY <1>2, ChangeStep
<1>3. CASE Exchange(c) \/ ReauthorizeConnection(c) \/ CreateConnection(c) \/ ActivateConnection(c)
  BY <1>3, ExchangeStep, ReauthorizeStep, CreateStep, ActivateStep
<1>4. CASE Refresh(c) BY <1>4, RefreshStep DEF Refresh
<1>5. CASE Resolve(c) BY <1>5, RefreshStep DEF Resolve
<1>6. CASE Revoke(c)
  <2>1. "revoked" \in Status BY DEF Status
  <2>2. /\ Changed("revoked") \in Row /\ Changed("revoked").status = "revoked"
        /\ Changed("revoked").rev = conn.rev + 1 /\ Changed("revoked").ver = conn.ver
        /\ Changed("revoked").cred = conn.cred
    BY <2>1, ConnTypes
  <2>3. conn.status \notin {"none", "deleted"} BY <1>6 DEF Revoke, Live
  <2> QED BY <1>6, <2>2, <2>3, RevokeStep DEF Revoke
<1>7. CASE ResumeDelete(c)
  <2>1. conn \in Row BY DEF Inv, MailHubInv, ConnInv, RowInv
  <2>2. /\ Tombstone(conn) \in Row /\ Tombstone(conn).status = "deleted"
        /\ Tombstone(conn).rev = conn.rev + 1 /\ Tombstone(conn).ver = conn.ver
        /\ Tombstone(conn).cred = NoCredential
    BY <2>1, TombstoneTypes
  <2>3. conn.status \notin {"none", "deleted"} BY <1>7 DEF ResumeDelete
  <2> QED BY <1>7, <2>2, <2>3, RevokeStep DEF ResumeDelete
<1>8. CASE Delete(c) \/ MarkDeleting(c) \/ SaveConnection(c) \/ CallFails(c)
  BY <1>8, DeleteStep, MarkStep, SaveStep, FailStep
<1> QED BY <1>1, <1>2, <1>3, <1>4, <1>5, <1>6, <1>7, <1>8 DEF MailHubWorks

LEMMA InitInv == Init => Inv
<1> SUFFICES ASSUME Init PROVE Inv OBVIOUS
<1>1. BrokerTypeOK
  BY DEF Init, BrokerInit, BrokerTypeOK, Providers, Flow, Credential, NotStored, Request,
         NoRequest, Locked
<1>2. Unshared /\ FlowInv /\ CredentialInv /\ NewestTokenKept
  BY DEF Init, BrokerInit, Unshared, FlowInv, CredentialInv, NewestTokenKept, NotStored, NoRequest
<1>3. \A c \in Calls : RequestInv(c)
  BY BrokerAssumption DEF Init, BrokerInit, RequestInv, NoRequest, Locked
<1>4. CallTypes /\ EndedInv BY RowTypes DEF Init, CallTypes, EndedInv
<1>5. ConnInv BY RowTypes DEF Init, ConnInv, RowInv
<1>6. \A c \in Calls : CallInv(c) BY RowTypes DEF Init, CallInv, RowInv
<1> QED BY <1>1, <1>2, <1>3, <1>4, <1>5, <1>6 DEF Inv, BrokerInv, MailHubInv

LEMMA StutterKeeps == Inv /\ UNCHANGED vars => Inv'
<1> SUFFICES ASSUME Inv, UNCHANGED vars PROVE Inv' OBVIOUS
<1>1. UNCHANGED broker /\ call' = call /\ conn' = conn /\ ended' = ended BY DEF vars, mailhub
<1>2. BrokerInv' /\ Onward /\ request' = request BY <1>1, NothingKeeps DEF Inv
<1>3. BrokerInv /\ ConnInv /\ RowMoves BY <1>1 DEF Inv, MailHubInv, RowMoves
<1>4. ASSUME NEW d \in Calls PROVE CallInv(d)'
  <2>1. CallInv(d) /\ Continues(d) BY <1>2 DEF Inv, MailHubInv, Continues
  <2> QED BY <1>1, <1>2, <1>3, <2>1, CallStays
<1>5. ConnInv' BY <1>1, <1>2, <1>3, ConnStays
<1>6. CallTypes' /\ EndedInv'
  BY <1>1, <1>2 DEF Inv, MailHubInv, CallTypes, EndedInv, Gone, Onward
<1> QED BY <1>2, <1>4, <1>5, <1>6 DEF Inv, MailHubInv

\* The invariant holds in every behaviour.
THEOREM Invariance == Spec => []Inv
<1>1. Inv /\ [Next]_vars => Inv'
  <2> SUFFICES ASSUME Inv, [Next]_vars PROVE Inv' OBVIOUS
  <2>1. CASE \E f \in Flows : BeginNew(f) \/ BeginReauthorize(f) BY <2>1, BeginStep
  <2>2. CASE \E c \in Calls : BrokerWorks(c) \/ Answers(c)
    BY <2>2, BrokerStep, ExchangedStep, RotatedStep, RevokedStep, RefusedStep DEF Answers
  <2>3. CASE \E c \in Calls : MailHubWorks(c) BY <2>3, MailHubStep
  <2>4. CASE UNCHANGED vars BY <2>4, StutterKeeps
  <2> QED BY <2>1, <2>2, <2>3, <2>4 DEF Next
<1> QED BY <1>1, InitInv, PTL DEF Spec

\* Broker, row and calls keep their types.
THEOREM TypeCorrect == Spec => []TypeOK
<1>1. Inv => TypeOK
  BY DEF Inv, BrokerInv, MailHubInv, CallTypes, ConnInv, RowInv, TypeOK
<1> QED BY <1>1, Invariance, PTL

\* CodeRedeemedOnce: the code of a flow is sent to the provider once.
THEOREM CodeRedeemedOnceTheorem == Spec => []CodeRedeemedOnce
<1>1. Inv => CodeRedeemedOnce BY DEF Inv, BrokerInv, FlowInv, CodeRedeemedOnce
<1> QED BY <1>1, Invariance, PTL

\* NewestTokenKept: an older refresh token is never stored over a newer one.
THEOREM NewestTokenKeptTheorem == Spec => []NewestTokenKept
<1>1. Inv => NewestTokenKept BY DEF Inv, BrokerInv
<1> QED BY <1>1, Invariance, PTL

\* VersionIsIssued: the row is never ahead of the host.
THEOREM VersionIsIssuedTheorem == Spec => []VersionIsIssued
<1>1. Inv => VersionIsIssued BY DEF Inv, MailHubInv, ConnInv, RowInv, VersionIsIssued
<1> QED BY <1>1, Invariance, PTL

\* EndedIsRevoked: what the row named when it ended is revoked, at the provider too.
THEOREM EndedIsRevokedTheorem == Spec => []EndedIsRevoked
<1>1. Inv => EndedIsRevoked
  BY DEF Inv, MailHubInv, BrokerInv, CredentialInv, EndedInv, Gone, EndedIsRevoked
<1> QED BY <1>1, Invariance, PTL

\* RowFollowsHost: the row is never ahead of the host, and what it gave up is revoked.
THEOREM RowFollowsHostTheorem == Spec => []RowFollowsHost
<1>1. VersionIsIssued /\ EndedIsRevoked => RowFollowsHost BY DEF RowFollowsHost
<1> QED BY <1>1, VersionIsIssuedTheorem, EndedIsRevokedTheorem, PTL

-----------------------------------------------------------------------------
(* The row takes no older version and no credential of a stale flow.        *)

StandsStep ==
  /\ conn'.cred \in Credentials \ {conn.cred} => flow[origin[conn'.cred]].rev = conn.rev
  /\ conn'.ver >= conn.ver

LEMMA RowStands ==
  ASSUME Inv, [Next]_vars
  PROVE  StandsStep
<1>1. conn \in Row /\ conn.ver \in Nat /\ conn.rev \in Nat
  BY DEF Inv, MailHubInv, ConnInv, RowInv, Row
<1>2. CASE conn' = conn BY <1>1, <1>2 DEF StandsStep
<1>3. ASSUME NEW c \in Calls, CallInv(c), conn.rev < call[c].row.rev, conn' = call[c].row,
             call[c].pc \in {"save", "mark"}
      PROVE  StandsStep
  <2>1. Fits(call[c].row) /\ call[c].row \in Row BY <1>3 DEF CallInv, RowInv
  <2>2. call[c].row.rev \in Nat BY <2>1 DEF Row
  <2> QED BY <1>1, <1>3, <2>1, <2>2 DEF Fits, StandsStep
<1>4. ASSUME NEW c \in Calls, SaveConnection(c) \/ MarkDeleting(c) PROVE StandsStep
  <2>1. CallInv(c) /\ conn.rev < call[c].row.rev /\ conn' = call[c].row
        /\ call[c].pc \in {"save", "mark"}
    BY <1>4 DEF Inv, MailHubInv, SaveConnection, MarkDeleting, RevisionFree
  <2> QED BY <1>3, <2>1
<1>5. ASSUME NEW c \in Calls, CreateConnection(c) PROVE StandsStep
  <2>1. conn = NoRow /\ CallInv(c) BY <1>5 DEF CreateConnection, Inv, MailHubInv, ConnInv
  <2>2. conn'.cred = call[c].cred /\ conn'.ver = 1 /\ origin[call[c].cred] = call[c].flow
        /\ flow[call[c].flow].rev = 0
    BY <1>5, <2>1 DEF CreateConnection, CallInv
  <2> QED BY <2>1, <2>2 DEF StandsStep, NoRow
<1>6. ASSUME ~ \E c \in Calls : SaveConnection(c) \/ MarkDeleting(c) \/ CreateConnection(c)
      PROVE  conn' = conn
  <2>1. CASE \E f \in Flows : BeginNew(f) \/ BeginReauthorize(f)
    BY <2>1 DEF BeginNew, BeginReauthorize, mailhub
  <2>2. CASE \E c \in Calls : BrokerWorks(c) \/ Answers(c)
    BY <2>2 DEF BrokerWorks, Answers, mailhub, Exchanged, Rotated, Revoked, Refused
  <2>3. CASE \E c \in Calls : MailHubWorks(c)
    BY <1>6, <2>3 DEF MailHubWorks, Callback, Change, Exchange, ReauthorizeConnection,
      ActivateConnection, Refresh, Resolve, Revoke, Delete, ResumeDelete, CallFails
  <2>4. CASE UNCHANGED vars BY <2>4 DEF vars, mailhub
  <2> QED BY <2>1, <2>2, <2>3, <2>4 DEF Next
<1> QED BY <1>2, <1>4, <1>5, <1>6

\* NewerRotationStands: a flow binds the row at the revision it began at, and versions only grow.
THEOREM NewerRotationStandsTheorem == Spec => NewerRotationStands
<1>1. Inv /\ [Next]_vars => [StandsStep]_vars BY RowStands
<1> QED BY <1>1, Invariance, PTL DEF Spec, NewerRotationStands, StandsStep

-----------------------------------------------------------------------------
(* The broker is a CredentialHost.                                          *)

HostStatus == [k \in Credentials |-> creds[k].status]
HostVersion == [k \in Credentials |-> creds[k].version]

\* A row that changes is a change of its status and version.
LEMMA HostChanges ==
  ASSUME BrokerTypeOK, NEW k \in Credentials, NEW row \in Credential,
         creds' = [creds EXCEPT ![k] = row]
  PROVE  /\ HostStatus' = [HostStatus EXCEPT ![k] = row.status]
         /\ HostVersion' = [HostVersion EXCEPT ![k] = row.version]
         /\ HostStatus[k] = creds[k].status /\ HostVersion[k] = creds[k].version
BY DEF BrokerTypeOK, HostStatus, HostVersion

HostStep == Host!CredentialNext \/ UNCHANGED Host!credentialVars

LEMMA HostMoves ==
  ASSUME NEW k \in Credentials, Host!Issue(k) \/ Host!RotateSecret(k) \/ Host!RevokeSecret(k)
  PROVE  HostStep
BY DEF HostStep, Host!CredentialNext

LEMMA HostStutters ==
  ASSUME creds' = creds
  PROVE  HostStep
BY DEF HostStep, Host!credentialVars

LEMMA Issues ==
  ASSUME Inv, NEW c \in Calls, StoreCredential(c)
  PROVE  HostStep
<1>1. request[c].cred \in Credentials /\ creds[request[c].cred].status = "none" /\ BrokerTypeOK
  BY DEF Inv, BrokerInv, RequestInv, StoreCredential
<1>2. PICK k \in Credentials : k = request[c].cred BY <1>1
<1>3. [status |-> "ACTIVE", version |-> 1, token |-> 1] \in Credential BY DEF Credential
<1>4. creds' = [creds EXCEPT ![k] = [status |-> "ACTIVE", version |-> 1, token |-> 1]]
  BY <1>2 DEF StoreCredential
<1>5. /\ HostStatus' = [HostStatus EXCEPT ![k] = "ACTIVE"] /\ HostStatus[k] = "none"
      /\ HostVersion' = [HostVersion EXCEPT ![k] = 1]
  BY <1>1, <1>2, <1>3, <1>4, HostChanges
<1>6. Host!Issue(k) BY <1>5 DEF Host!Issue, HostStatus, HostVersion
<1> QED BY <1>6, HostMoves

LEMMA Rotates ==
  ASSUME Inv, NEW c \in Calls, Rotate(c)
  PROVE  HostStep
<1>1. /\ request[c].cred \in Credentials /\ creds[request[c].cred].status = "ACTIVE"
      /\ BrokerTypeOK
      /\ creds[request[c].cred].version = request[c].version
      /\ request[c].version \in Nat /\ request[c].token \in Nat
  BY RotateKeeps, RequestTypes DEF Inv, BrokerInv, Request
<1>2. PICK k \in Credentials : k = request[c].cred BY <1>1
<1>3. [status |-> "ACTIVE", version |-> request[c].version + 1,
       token |-> request[c].token]
        \in Credential
  BY <1>1 DEF Credential
<1>4. PICK row \in Credential :
        row = [status |-> "ACTIVE", version |-> request[c].version + 1,
               token |-> request[c].token]
  BY ONLY <1>3
<1>5. creds' = [creds EXCEPT ![k] = row] BY <1>2, <1>4 DEF Rotate
<1>6. row.status = "ACTIVE" /\ row.version = creds[k].version + 1 BY <1>1, <1>2, <1>4
<1>7. /\ HostStatus' = [HostStatus EXCEPT ![k] = row.status]
      /\ HostVersion' = [HostVersion EXCEPT ![k] = row.version]
      /\ HostStatus[k] = creds[k].status /\ HostVersion[k] = creds[k].version
  BY <1>1, <1>5, HostChanges
<1>8. /\ HostStatus' = [HostStatus EXCEPT ![k] = "ACTIVE"] /\ HostStatus[k] = "ACTIVE"
      /\ HostVersion' = [HostVersion EXCEPT ![k] = HostVersion[k] + 1]
  BY <1>1, <1>2, <1>6, <1>7
<1>9. HostStatus' = HostStatus BY <1>8 DEF HostStatus
<1>10. Host!RotateSecret(k) BY <1>8, <1>9 DEF Host!RotateSecret, HostStatus, HostVersion
<1> QED BY <1>10, HostMoves

LEMMA Revokes ==
  ASSUME Inv, NEW c \in Calls, RevokeCredential(c)
  PROVE  HostStep
<1>1. /\ request[c].cred \in Credentials /\ creds[request[c].cred].status = "ACTIVE"
      /\ BrokerTypeOK
      /\ creds[request[c].cred].version = request[c].version /\ request[c].version \in Nat
  BY RequestTypes DEF Inv, BrokerInv, RequestInv, Request, RevokeCredential, Locked
<1>2. PICK k \in Credentials : k = request[c].cred BY <1>1
<1>3. [status |-> "REVOKED", version |-> request[c].version + 1, token |-> 0]
        \in Credential
  BY <1>1 DEF Credential
<1>4. PICK row \in Credential :
        row = [status |-> "REVOKED", version |-> request[c].version + 1, token |-> 0]
  BY ONLY <1>3
<1>5. creds' = [creds EXCEPT ![k] = row] BY <1>2, <1>4 DEF RevokeCredential
<1>6. row.status = "REVOKED" /\ row.version = creds[k].version + 1 BY <1>1, <1>2, <1>4
<1>7. /\ HostStatus' = [HostStatus EXCEPT ![k] = row.status]
      /\ HostVersion' = [HostVersion EXCEPT ![k] = row.version]
      /\ HostStatus[k] = creds[k].status /\ HostVersion[k] = creds[k].version
  BY <1>1, <1>5, HostChanges
<1>8. /\ HostStatus' = [HostStatus EXCEPT ![k] = "REVOKED"] /\ HostStatus[k] = "ACTIVE"
      /\ HostVersion' = [HostVersion EXCEPT ![k] = HostVersion[k] + 1]
  BY <1>1, <1>2, <1>6, <1>7
<1>9. Host!RevokeSecret(k) BY <1>8 DEF Host!RevokeSecret, HostStatus, HostVersion
<1> QED BY <1>9, HostMoves

\* ImplementsHost: every step of the broker issues, rotates, revokes or changes nothing.
THEOREM ImplementsHostTheorem == Spec => ImplementsHost
<1>1. Init => Host!CredentialInit
  BY DEF Init, BrokerInit, NotStored, Host!CredentialInit
<1>2. Inv /\ [Next]_vars => [Host!CredentialNext]_(Host!credentialVars)
  <2> SUFFICES ASSUME Inv, [Next]_vars PROVE HostStep BY DEF HostStep
  <2>1. CASE \E f \in Flows : BeginNew(f) \/ BeginReauthorize(f)
    BY <2>1, HostStutters DEF BeginNew, BeginReauthorize
  <2>2. CASE \E c \in Calls : BrokerWorks(c)
    BY <2>2, HostStutters DEF BrokerWorks, Redeem, LoadActive, TokenAnswers, RevokeGoogle, store
  <2>3. CASE \E c \in Calls : Answers(c)
    <3>1. ASSUME NEW c \in Calls, Refused(c) \/ AlreadyRevoked(c) PROVE HostStep
      BY <3>1, HostStutters DEF Refused, RequestFails, AlreadyRevoked, store
    <3> QED BY <2>3, <3>1, Issues, Rotates, Revokes DEF Answers, Exchanged, Rotated, Revoked
  <2>4. CASE \E c \in Calls : MailHubWorks(c)
    BY <2>4, HostStutters DEF MailHubWorks, Callback, Change, Exchange, ReauthorizeConnection,
      CreateConnection, ActivateConnection, Refresh, Resolve, Revoke, Delete, ResumeDelete,
      MarkDeleting, SaveConnection, CallFails, broker, store
  <2>5. CASE UNCHANGED vars BY <2>5, HostStutters DEF vars, broker, store
  <2> QED BY <2>1, <2>2, <2>3, <2>4, <2>5 DEF Next
<1> QED BY <1>1, <1>2, Invariance, PTL DEF Spec, ImplementsHost, Host!CredentialSpec

-----------------------------------------------------------------------------
(* What comes in: the pages of a connector (ProviderFeed).                  *)

\* A message comes once and goes for good once; in an IMAP folder nothing comes back.
LogInv ==
  /\ \A i, j \in DOMAIN log :
       i < j /\ log[i].msg = log[j].msg => log[j].what # "added" /\ log[i].what # "erased"
  /\ \A i \in DOMAIN log : log[i].what # "added" =>
       \E j \in DOMAIN log : j < i /\ log[j].msg = log[i].msg /\ log[j].what = "added"
  /\ Imap => \A i \in DOMAIN log : log[i].what \notin {"removed", "restored"}

\* The cursor has passed what is known of a message: its UID, or its last change.
Covered(m) ==
  CASE kind = "imap" -> Arrived(m) <= cursor.pos
    [] kind = "condstore" -> LastOf(m) <= cursor.base
    [] OTHER -> LastOf(m) <= cursor.pos

\* Of a message that is gone, a Graph cursor knows too if it left before the rebuild that
\* made the cursor.
Known(m) == LastOf(m) <= cursor.pos \/ LastOf(m) <= cursor.base

CursorInv ==
  cursor # NoCursor =>
    /\ cursor.pos <= Len(log) /\ cursor.base <= Len(log)
    /\ \A m \in Messages : InFolder(m) /\ Covered(m) => m \in stored \cup excused
    /\ ~Imap => \A m \in stored : Of(m) # {} /\ ~Exists(m) /\ Known(m) => m \in excused

Fetched == MessagesAt(sync.taken)

CameBack(m) == \E i \in Span(sync.from, Len(log)) : log[i] = [what |-> "restored", msg |-> m]

\* What every synchronisation holds: positions of the log, and for gone only what was gone
\* since its cursor, and is still gone unless it came back.
ReadInv ==
  sync.pc # "idle" =>
    /\ sync.taken \subseteq DOMAIN log
    /\ sync.from <= Len(log) /\ sync.horizon <= Len(log)
    /\ ~sync.reset => cursor # NoCursor /\ sync.from = cursor.pos
    /\ \A m \in sync.gone : /\ \E i \in Of(m) : sync.from < i
                            /\ InFolder(m) => CameBack(m)
    /\ sync.next # NoCursor => sync.next.pos <= Len(log) /\ sync.next.base <= Len(log)

\* Gmail. The history has been read as far as `at`: what left is gone, what else changed is
\* fetched.
HistoryRead ==
  /\ \A t \in sync.taken : sync.from < t
  /\ sync.from <= sync.at /\ sync.at <= Len(log)
  /\ \A i \in Span(sync.from, sync.at) :
       IF Leaves(i) THEN log[i].msg \in sync.gone ELSE log[i].msg \in Fetched

\* What is there and has not changed since the rebuild began.
Still(m) == Exists(m) /\ LastOf(m) <= sync.horizon

GmailInv ==
  kind = "gmail" =>
    /\ sync.pc \in {"idle", "history", "list", "get", "profile", "apply"}
    /\ sync.pc = "history" => ~sync.reset /\ HistoryRead
    /\ sync.pc \in {"get", "apply"} /\ ~sync.reset =>
         /\ HistoryRead
         /\ sync.next # NoCursor /\ sync.next.base = 0
         /\ ChangedIn(sync.at, sync.next.pos) \subseteq sync.missed
    /\ sync.pc \in {"list", "profile"} => sync.reset
    /\ sync.pc \in {"list", "get", "profile"} /\ sync.reset => sync.next = NoCursor
    /\ sync.pc = "list" =>
         \A m \in Messages : Still(m) /\ ~sync.first /\ sync.at <= Arrived(m) => Arrived(m) \in sync.taken
    /\ sync.pc \in {"get", "profile", "apply"} /\ sync.reset =>
         \A m \in Messages : Still(m) => m \in Fetched \cup sync.missed
    /\ sync.pc = "profile" =>
         \A m \in ToGet : Exists(m) \/ sync.horizon < LastOf(m)
    /\ sync.pc = "apply" /\ sync.reset =>
         /\ sync.next # NoCursor /\ sync.next.base = 0
         /\ ChangedIn(sync.horizon, sync.next.pos) \subseteq sync.missed
         /\ \A m \in ToGet : Exists(m) \/ sync.next.pos < LastOf(m) \/ m \in sync.missed

\* Graph. The delta has been read as far as `at`: what is in the folder is fetched or left
\* out, and what is not, and left after the rebuild began, is gone.
GraphInv ==
  kind = "graph" /\ sync.pc # "idle" =>
    /\ sync.pc \in {"delta", "apply"}
    /\ sync.from <= sync.at /\ sync.at <= Len(log)
    /\ sync.reset => sync.from = 0
    /\ ~sync.reset => sync.horizon = cursor.base
    /\ sync.pc = "delta" /\ sync.first => sync.taken = {} /\ sync.gone = {} /\ sync.at = sync.from
    /\ \A t \in sync.taken : sync.from < t
    /\ \A m \in Messages : sync.from < LastOf(m) /\ LastOf(m) <= sync.at =>
         /\ InFolder(m) => m \in Fetched \cup sync.missed
         /\ ~Exists(m) /\ sync.horizon < LastOf(m) => m \in sync.gone
    /\ \A m \in Fetched : Exists(m) \/ sync.horizon < LastOf(m)
    /\ sync.pc = "apply" => sync.next = DeltaLink(sync.at)

\* IMAP. What is in the folder and the new cursor passes, the old one passed or the search
\* found, unless the folder was numbered anew.
ImapInv ==
  Imap /\ sync.pc # "idle" =>
    /\ sync.pc \in {"search", "fetch", "apply"}
    /\ sync.gone = {}
    /\ sync.pc = "search" /\ sync.reset => cursor = NoCursor
    /\ sync.pc # "search" =>
         /\ sync.next # NoCursor
         /\ \A m \in Messages : InFolder(m) =>
              /\ kind = "imap" /\ Arrived(m) <= sync.next.pos =>
                   (~sync.reset /\ Arrived(m) <= cursor.pos) \/ m \in Fetched \cup sync.missed
              /\ kind = "condstore" /\ LastOf(m) <= sync.next.base =>
                   (~sync.reset /\ LastOf(m) <= cursor.base) \/ m \in Fetched \cup sync.missed

FeedInv ==
  FeedTypeOK /\ LogInv /\ CursorInv /\ ReadInv /\ GmailInv /\ GraphInv /\ ImapInv

\* A finite set has an element that a strict order puts none before: among the sets of
\* what is before an element, one that contains no other is empty.
LEMMA First ==
  ASSUME NEW S, IsFiniteSet(S), S # {}, NEW R,
         \A x \in S : <<x, x>> \notin R,
         \A x, y, z \in S : <<x, y>> \in R /\ <<y, z>> \in R => <<x, z>> \in R
  PROVE  \E x \in S : \A y \in S : <<y, x>> \notin R
<1> DEFINE Ahead(x) == {y \in S : <<y, x>> \in R}
           All == {Ahead(x) : x \in S}
           Less == StrictSubsetOrdering(S)
<1>1. IsWellFoundedOn(Less, SUBSET S)
  BY FS_StrictSubsetOrderingWellFounded, FS_FiniteSubsetsOfFinite
<1>2. PICK U \in All : \A V \in All : <<V, U>> \notin Less
  <2>1. All \subseteq SUBSET S /\ All # {}
    <3>1. \A x \in S : Ahead(x) \in SUBSET S
      OBVIOUS
    <3>2. PICK x \in S : TRUE
      OBVIOUS
    <3> HIDE DEF Ahead
    <3>. QED  BY <3>1, <3>2
  <2> HIDE DEF All, Less
  <2>. QED  BY <1>1, <2>1, WFMin
<1>3. PICK x \in S : U = Ahead(x)
  BY <1>2
<1>4. ASSUME NEW y \in S, <<y, x>> \in R  PROVE FALSE
  <2>1. Ahead(y) \subseteq U
    BY <1>3, <1>4
  <2>2. y \in U /\ y \notin Ahead(y)
    BY <1>3, <1>4
  <2>3. <<Ahead(y), U>> \in Less
    BY <1>3, <2>1, <2>2 DEF StrictSubsetOrdering
  <2>. QED  BY <1>2, <2>3
<1>. QED  BY <1>4


LEMMA MaxOf ==
  ASSUME NEW S \in SUBSET Nat, IsFiniteSet(S), S # {}
  PROVE  Max(S) \in S /\ \A x \in S : x <= Max(S)
<1> DEFINE R == {p \in S \X S : p[1] > p[2]}
<1>1. \E x \in S : \A y \in S : <<y, x>> \notin R
  <2>1. \A x \in S : <<x, x>> \notin R
    OBVIOUS
  <2>2. \A x, y, z \in S : <<x, y>> \in R /\ <<y, z>> \in R => <<x, z>> \in R
    OBVIOUS
  <2> HIDE DEF R
  <2>. QED  BY <2>1, <2>2, First
<1>2. \A x, y \in S : <<y, x>> \notin R => x >= y
  OBVIOUS
<1>3. \E x \in S : \A y \in S : x >= y
  <2> HIDE DEF R
  <2>. QED  BY <1>1, <1>2
<1>. QED  BY <1>3 DEF Max

LEMMA MinOf ==
  ASSUME NEW S \in SUBSET Nat, IsFiniteSet(S), S # {}
  PROVE  Min(S) \in S /\ \A x \in S : Min(S) <= x
<1> DEFINE R == {p \in S \X S : p[1] < p[2]}
<1>1. \E x \in S : \A y \in S : <<y, x>> \notin R
  <2>1. \A x \in S : <<x, x>> \notin R
    OBVIOUS
  <2>2. \A x, y, z \in S : <<x, y>> \in R /\ <<y, z>> \in R => <<x, z>> \in R
    OBVIOUS
  <2> HIDE DEF R
  <2>. QED  BY <2>1, <2>2, First
<1>2. \A x, y \in S : <<y, x>> \notin R => x <= y
  OBVIOUS
<1>3. \E x \in S : \A y \in S : x <= y
  <2> HIDE DEF R
  <2>. QED  BY <1>1, <1>2
<1>. QED  BY <1>3 DEF Min

\* What the log says of a message.
LEMMA LogFacts ==
  ASSUME FeedTypeOK, NEW m \in Messages
  PROVE  /\ Len(log) \in Nat /\ DOMAIN log = 1 .. Len(log)
         /\ Of(m) \subseteq 1 .. Len(log) /\ IsFiniteSet(Of(m))
         /\ LastOf(m) \in 0 .. Len(log)
         /\ \A i \in Of(m) : i <= LastOf(m) /\ log[i] \in LogEntry /\ log[i].msg = m
         /\ Of(m) # {} => LastOf(m) \in Of(m) /\ LastOf(m) > 0
         /\ Of(m) = {} => LastOf(m) = 0
         /\ Of(m) # {} => Arrived(m) \in Of(m) /\ \A i \in Of(m) : Arrived(m) <= i
         /\ Exists(m) <=> Of(m) # {} /\ log[LastOf(m)].what # "erased"
         /\ InFolder(m) => Exists(m)
<1>1. Len(log) \in Nat /\ DOMAIN log = 1 .. Len(log) /\ \A i \in 1 .. Len(log) : log[i] \in LogEntry
  BY DEF FeedTypeOK
<1>2. Of(m) \subseteq 1 .. Len(log) /\ \A i \in Of(m) : log[i] \in LogEntry /\ log[i].msg = m
  BY <1>1 DEF Of
<1>3. IsFiniteSet(1 .. Len(log)) /\ IsFiniteSet(Of(m))
  <2>1. 1 \in Int /\ Len(log) \in Int
    BY <1>1
  <2>. QED  BY <1>2, <2>1, FS_Interval, FS_Subset
<1>4. Max(Of(m) \cup {0}) \in Of(m) \cup {0} /\ \A i \in Of(m) \cup {0} : i <= Max(Of(m) \cup {0})
  <2>1. Of(m) \cup {0} \in SUBSET Nat /\ IsFiniteSet(Of(m) \cup {0}) /\ Of(m) \cup {0} # {}
    BY <1>1, <1>2, <1>3, FS_AddElement
  <2>. QED  BY <2>1, MaxOf
<1>5. LastOf(m) \in Of(m) \cup {0} /\ \A i \in Of(m) : i <= LastOf(m)
  BY <1>4 DEF LastOf
<1>6. Of(m) # {} => LastOf(m) \in Of(m) /\ LastOf(m) > 0
  BY <1>1, <1>2, <1>5
<1>7. Of(m) # {} => Arrived(m) \in Of(m) /\ \A i \in Of(m) : Arrived(m) <= i
  <2>1. Of(m) \in SUBSET Nat
    BY <1>1, <1>2
  <2>. QED  BY <2>1, <1>3, MinOf DEF Arrived
<1>8. Exists(m) <=> Of(m) # {} /\ log[LastOf(m)].what # "erased"
  BY DEF Exists, Latest
<1>9. LastOf(m) \in 0 .. Len(log)
  BY <1>1, <1>2, <1>5
<1>10. Of(m) = {} => LastOf(m) = 0
  BY <1>5
<1>. QED  BY <1>1, <1>2, <1>3, <1>5, <1>6, <1>7, <1>8, <1>9, <1>10 DEF InFolder

\* A message is in the folder if it came, or came back, and then was only touched.
LEMMA FolderFacts ==
  ASSUME FeedTypeOK, LogInv, NEW m \in Messages, Exists(m)
  PROVE  InFolder(m) <=>
           \E p \in Of(m) : /\ log[p].what \in {"added", "restored"}
                            /\ \A i \in Of(m) : p < i => log[i].what = "touched"
<1>1. Of(m) \in SUBSET Nat /\ IsFiniteSet(Of(m))
  BY LogFacts
<1>2. Placed(m) \subseteq Of(m) /\ Placed(m) \in SUBSET Nat /\ IsFiniteSet(Placed(m))
  BY <1>1, FS_Subset DEF Placed
<1>3. Placed(m) # {} => Max(Placed(m)) \in Placed(m) /\ \A i \in Placed(m) : i <= Max(Placed(m))
  BY <1>2, MaxOf
<1>4. ASSUME NEW p \in Of(m), log[p].what \in {"added", "restored"},
             \A i \in Of(m) : p < i => log[i].what = "touched"
      PROVE  InFolder(m)
  <2>1. p \in Placed(m)
    BY <1>4 DEF Placed
  <2>2. \A i \in Placed(m) : i <= p
    BY <1>1, <1>2, <1>4 DEF Placed
  <2>3. Max(Placed(m)) = p
    BY <1>2, <1>3, <2>1, <2>2
  <2>. QED  BY <1>4, <2>3 DEF InFolder
<1>5. Placed(m) # {}
  <2>1. PICK i \in Of(m) : TRUE
    BY LogFacts
  <2>2. \E j \in Of(m) : log[j].what = "added"
    BY <2>1 DEF LogInv, Of
  <2>. QED  BY <2>2 DEF Placed
<1>6. ASSUME InFolder(m)
      PROVE  \E p \in Of(m) : /\ log[p].what \in {"added", "restored"}
                              /\ \A i \in Of(m) : p < i => log[i].what = "touched"
  <2> DEFINE p == Max(Placed(m))
  <2>1. p \in Of(m) /\ p \in Nat /\ log[p].what \in {"added", "restored"}
    BY <1>2, <1>3, <1>5, <1>6 DEF InFolder
  <2>2. ASSUME NEW i \in Of(m), p < i  PROVE log[i].what = "touched"
    <3>1. i \notin Placed(m)
      BY <1>1, <1>3, <1>5, <2>1, <2>2
    <3>. QED  BY <3>1 DEF Placed
  <2>. QED  BY <2>1, <2>2
<1>. QED  BY <1>4, <1>6


\* An action that leaves the log alone leaves what it says alone.
LEMMA LogKept ==
  ASSUME UNCHANGED log
  PROVE  \A m \in Messages :
           /\ Of(m)' = Of(m) /\ LastOf(m)' = LastOf(m) /\ Arrived(m)' = Arrived(m)
           /\ Exists(m)' = Exists(m) /\ InFolder(m)' = InFolder(m)
BY DEF Of, LastOf, Arrived, Exists, InFolder, Latest, Placed

\* What left the folder and is in it again came back.
LEMMA LeftAndBack ==
  ASSUME FeedTypeOK, LogInv, NEW m \in Messages, NEW i \in Of(m), Leaves(i), InFolder(m)
  PROVE  \E j \in DOMAIN log : i < j /\ log[j] = [what |-> "restored", msg |-> m]
<1>1. Exists(m)
  BY LogFacts
<1>2. PICK p \in Of(m) : /\ log[p].what \in {"added", "restored"}
                         /\ \A k \in Of(m) : p < k => log[k].what = "touched"
  BY <1>1, FolderFacts
<1>3. i < p
  BY <1>2, LogFacts DEF Leaves
<1>4. p \in DOMAIN log /\ i \in DOMAIN log /\ log[p] \in LogEntry /\ log[p].msg = m /\ log[i].msg = m
  BY LogFacts
<1>5. log[p].what = "restored"
  BY <1>2, <1>3, <1>4 DEF LogInv
<1>. QED  BY <1>3, <1>4, <1>5 DEF LogEntry

\* In an IMAP folder, what there is is in the folder.
LEMMA ImapFolder ==
  ASSUME FeedTypeOK, LogInv, Imap, NEW m \in Messages, Exists(m)
  PROVE  InFolder(m)
<1>1. Of(m) # {} /\ LastOf(m) \in Of(m) /\ log[LastOf(m)].what # "erased"
  BY LogFacts
<1>2. \A i \in Of(m) : i \in DOMAIN log /\ i \in Nat /\ log[i] \in LogEntry /\ log[i].msg = m /\ i <= LastOf(m)
  BY LogFacts
<1>3. PICK p \in Of(m) : log[p].what = "added"
  BY <1>1 DEF LogInv, Of
<1>4. ASSUME NEW i \in Of(m), p < i  PROVE log[i].what = "touched"
  <2>1. log[i].what \in {"added", "touched", "removed", "restored", "erased"}
    BY <1>2 DEF LogEntry
  <2>2. log[i].what \notin {"removed", "restored"}
    BY <1>2 DEF LogInv
  <2>3. log[i].what # "added"
    BY <1>2, <1>4 DEF LogInv
  <2>4. log[i].what # "erased"
    BY <1>1, <1>2 DEF LogInv
  <2>. QED  BY <2>1, <2>2, <2>3, <2>4
<1>. QED  BY <1>3, <1>4, FolderFacts

\* A change is the last of its message; it comes back only as "added", "restored" or
\* "touched", and the first of them is when it arrived.
LEMMA Grown ==
  ASSUME FeedTypeOK, LogInv, NEW m \in Messages, MailboxChanges(m)
  PROVE  /\ Len(log)' = Len(log) + 1 /\ DOMAIN log' = 1 .. Len(log) + 1
         /\ \A i \in 1 .. Len(log) : log'[i] = log[i]
         /\ log'[Len(log) + 1] \in LogEntry /\ log'[Len(log) + 1].msg = m
         /\ Of(m)' = Of(m) \cup {Len(log) + 1} /\ LastOf(m)' = Len(log) + 1
         /\ \A x \in Messages \ {m} : /\ Of(x)' = Of(x) /\ LastOf(x)' = LastOf(x)
                                      /\ Arrived(x)' = Arrived(x)
                                      /\ Exists(x)' = Exists(x) /\ InFolder(x)' = InFolder(x)
         /\ FeedTypeOK'
<1>1. PICK w \in {"added", "touched", "removed", "restored", "erased"} :
           log' = Append(log, [what |-> w, msg |-> m])
  BY DEF MailboxChanges
<1> DEFINE n == Len(log) + 1
<1>2. Len(log) \in Nat /\ log \in Seq(LogEntry) /\ [what |-> w, msg |-> m] \in LogEntry
  BY <1>1 DEF FeedTypeOK, LogEntry
<1>3. Len(log') = n /\ DOMAIN log' = 1 .. n /\ log' \in Seq(LogEntry)
  BY <1>1, <1>2
<1>4. \A i \in 1 .. Len(log) : log'[i] = log[i]
  BY <1>1, <1>2
<1>5. log'[n] = [what |-> w, msg |-> m]
  BY <1>1, <1>2
<1>6. DOMAIN log = 1 .. Len(log)
  BY <1>2
<1>7. Of(m)' = Of(m) \cup {n}
  BY <1>2, <1>3, <1>4, <1>5, <1>6 DEF Of
<1>8. ASSUME NEW x \in Messages \ {m}  PROVE Of(x)' = Of(x)
  BY <1>2, <1>3, <1>4, <1>5, <1>6, <1>8 DEF Of
<1>9. FeedTypeOK'
  BY <1>3 DEF FeedTypeOK, MailboxChanges
<1>10. LastOf(m)' = n
  <2>1. Of(m) \subseteq 1 .. Len(log) /\ IsFiniteSet(Of(m))
    BY LogFacts
  <2> DEFINE S == Of(m) \cup {n} \cup {0}
  <2>2. S \in SUBSET Nat /\ S # {} /\ IsFiniteSet(S)
    <3>1. IsFiniteSet(Of(m) \cup {n})
      BY <2>1, FS_AddElement
    <3>2. IsFiniteSet(S)
      BY <3>1, FS_AddElement
    <3>. QED  BY <1>2, <2>1, <3>2
  <2>3. n \in S /\ \A i \in S : i \in Nat /\ i <= n
    BY <1>2, <2>1
  <2>4. Max(S) = n
    <3> HIDE DEF S
    <3>1. Max(S) \in S /\ \A i \in S : i <= Max(S)
      BY <2>2, MaxOf
    <3>. QED  BY <1>2, <2>3, <3>1
  <2>. QED  BY <1>7, <2>4 DEF LastOf
<1>11. ASSUME NEW x \in Messages \ {m}
       PROVE  /\ LastOf(x)' = LastOf(x) /\ Arrived(x)' = Arrived(x)
              /\ Exists(x)' = Exists(x) /\ InFolder(x)' = InFolder(x)
  <2>1. Of(x)' = Of(x) /\ Of(x) \subseteq 1 .. Len(log)
    BY <1>8, <1>11, LogFacts
  <2>2. LastOf(x)' = LastOf(x) /\ Arrived(x)' = Arrived(x)
    BY <2>1 DEF LastOf, Arrived
  <2>3. Placed(x)' = Placed(x)
    BY <1>4, <2>1 DEF Placed
  <2>4. Latest(x)' = Latest(x)
    <3>1. Of(x) # {} => LastOf(x) \in 1 .. Len(log)
      BY <2>1, <1>11, LogFacts
    <3>. QED  BY <1>4, <2>1, <2>2, <3>1 DEF Latest
  <2>5. Exists(x)' = Exists(x)
    BY <2>1, <2>4 DEF Exists
  <2>6. ASSUME Exists(x)  PROVE InFolder(x)' = InFolder(x)
    <3>1. Placed(x) \in SUBSET Nat /\ IsFiniteSet(Placed(x)) /\ Placed(x) \subseteq 1 .. Len(log)
      BY <2>1, <1>2, <1>11, LogFacts, FS_Subset DEF Placed
    <3>2. Placed(x) # {}
      <4>1. PICK i \in Of(x) : TRUE
        BY <2>6, <1>11, LogFacts
      <4>2. \E j \in Of(x) : log[j].what = "added"
        BY <4>1 DEF LogInv, Of
      <4>. QED  BY <4>2 DEF Placed
    <3>3. Max(Placed(x)) \in 1 .. Len(log)
      BY <3>1, <3>2, MaxOf
    <3>. QED  BY <1>4, <2>3, <2>5, <3>3 DEF InFolder
  <2>. QED  BY <2>2, <2>5, <2>6 DEF InFolder
<1>. QED  BY <1>3, <1>4, <1>5, <1>2, <1>7, <1>8, <1>9, <1>10, <1>11


LEMMA GrownFolder ==
  ASSUME FeedTypeOK, LogInv, NEW m \in Messages, MailboxChanges(m)
  PROVE  /\ Arrived(m)' = IF Of(m) = {} THEN Len(log) + 1 ELSE Arrived(m)
         /\ InFolder(m)' => \/ Of(m) = {} \/ InFolder(m)
                            \/ ~Imap /\ log'[Len(log) + 1] = [what |-> "restored", msg |-> m]
<1> DEFINE n == Len(log) + 1
<1>1. PICK w \in {"added", "touched", "removed", "restored", "erased"} :
           /\ log' = Append(log, [what |-> w, msg |-> m])
           /\ w = "added" => Of(m) = {}
           /\ w = "restored" => Exists(m) /\ ~InFolder(m)
           /\ w \in {"touched", "erased"} => Exists(m)
  BY DEF MailboxChanges
<1>2. Len(log) \in Nat /\ log \in Seq(LogEntry)
  BY DEF FeedTypeOK
<1>3. log'[n] = [what |-> w, msg |-> m] /\ \A i \in 1 .. Len(log) : log'[i] = log[i]
  BY <1>1, <1>2
<1>4. /\ Of(m)' = Of(m) \cup {n} /\ LastOf(m)' = n
      /\ Of(m) \subseteq 1 .. Len(log) /\ Of(m) \in SUBSET Nat /\ IsFiniteSet(Of(m))
  BY Grown, LogFacts
<1>5. Arrived(m)' = IF Of(m) = {} THEN n ELSE Arrived(m)
  <2> DEFINE S == Of(m) \cup {n}
  <2>1. S \in SUBSET Nat /\ S # {} /\ IsFiniteSet(S)
    BY <1>2, <1>4, FS_AddElement
  <2>2. /\ Of(m) = {} => n \in S /\ \A i \in S : n <= i
        /\ Of(m) # {} => Arrived(m) \in S /\ \A i \in S : Arrived(m) <= i
    BY <1>2, <1>4, LogFacts
  <2>3. Min(S) = IF Of(m) = {} THEN n ELSE Arrived(m)
    <3> HIDE DEF S
    <3>1. Min(S) \in S /\ \A i \in S : Min(S) <= i
      BY <2>1, MinOf
    <3>2. Min(S) \in Nat /\ n \in Nat
      <4>1. Min(S) \in Nat
        BY <2>1, <3>1
      <4>2. n \in Nat
        BY <1>2
      <4>. QED  BY <4>1, <4>2
    <3>3. CASE Of(m) = {}
      BY <2>2, <3>1, <3>2, <3>3
    <3>4. CASE Of(m) # {}
      <4>1. Arrived(m) \in Nat
        BY <1>4, <3>4, LogFacts
      <4>. QED  BY <2>2, <3>1, <3>2, <3>4, <4>1
    <3>. QED  BY <3>3, <3>4
  <2>. QED  BY <1>4, <2>3 DEF Arrived
<1>6. ASSUME InFolder(m)', Of(m) # {}, ~InFolder(m)
      PROVE  ~Imap /\ log'[n] = [what |-> "restored", msg |-> m]
  <2>1. w # "added"
    BY <1>1, <1>6
  <2>2. w # "erased"
    BY <1>3, <1>4, <1>6 DEF InFolder, Exists, Latest
  <2>3. Placed(m)' = IF w = "touched" THEN Placed(m) ELSE Placed(m) \cup {n}
    <3>1. \A i \in Of(m) : log'[i] = log[i]
      BY <1>3, <1>4
    <3>. QED  BY <1>3, <1>4, <3>1 DEF Placed
  <2>4. w # "touched"
    <3>1. ASSUME w = "touched"  PROVE FALSE
      <4>1. Exists(m) /\ \E i \in Of(m) : TRUE
        BY <1>1, <1>6, <3>1
      <4>2. \E j \in Of(m) : log[j].what = "added"
        BY <4>1 DEF LogInv, Of
      <4>3. Placed(m) \in SUBSET Nat /\ IsFiniteSet(Placed(m)) /\ Placed(m) # {} /\ Placed(m) \subseteq Of(m)
        BY <1>4, <4>2, FS_Subset DEF Placed
      <4>4. Max(Placed(m)) \in 1 .. Len(log)
        BY <1>4, <4>3, MaxOf
      <4>. QED  BY <1>3, <1>6, <2>3, <3>1, <4>1, <4>4 DEF InFolder
    <3>. QED  BY <3>1
  <2>5. w # "removed"
    <3>1. ASSUME w = "removed"  PROVE FALSE
      <4> DEFINE S == Placed(m) \cup {n}
      <4>1. S \in SUBSET Nat /\ IsFiniteSet(S) /\ S # {} /\ n \in S /\ \A i \in S : i <= n
        <5>1. Placed(m) \subseteq Of(m)
          BY DEF Placed
        <5>2. IsFiniteSet(Placed(m))
          BY <1>4, <5>1, FS_Subset
        <5>3. IsFiniteSet(S)
          BY <5>2, FS_AddElement
        <5>4. \A i \in S : i \in Nat /\ i <= n
          BY <1>2, <1>4, <5>1
        <5> HIDE DEF Placed
        <5>. QED  BY <1>2, <5>3, <5>4
      <4>2. Max(S) = n
        <5> HIDE DEF S
        <5>1. Max(S) \in S /\ n <= Max(S)
          BY <4>1, MaxOf
        <5>2. Max(S) \in Nat /\ n \in Nat /\ Max(S) <= n
          BY <1>2, <4>1, <5>1
        <5>. QED  BY <5>1, <5>2
      <4>. QED  BY <1>3, <1>6, <2>3, <3>1, <4>2 DEF InFolder
    <3>. QED  BY <3>1
  <2>6. w = "restored"
    BY <2>1, <2>2, <2>4, <2>5
  <2>. QED  BY <1>1, <1>3, <2>6, ImapFolder
<1>. QED  BY <1>5, <1>6

LEMMA LogStep ==
  ASSUME FeedTypeOK, LogInv, NEW m \in Messages, MailboxChanges(m)
  PROVE  LogInv'
<1> DEFINE n == Len(log) + 1
<1>1. PICK w \in {"added", "touched", "removed", "restored", "erased"} :
           /\ log' = Append(log, [what |-> w, msg |-> m])
           /\ w = "added" => Of(m) = {}
           /\ w # "added" => Exists(m)
           /\ w \in {"removed", "restored"} => ~Imap \/ (Exists(m) /\ ~InFolder(m))
           /\ kind' = kind
  <2>1. InFolder(m) => Exists(m)
    BY LogFacts
  <2>2. PICK w \in {"added", "touched", "removed", "restored", "erased"} :
             /\ CASE w = "added" -> Of(m) = {}
                  [] w = "removed" -> InFolder(m) /\ ~Imap
                  [] w = "restored" -> Exists(m) /\ ~InFolder(m)
                  [] OTHER -> Exists(m)
             /\ log' = Append(log, [what |-> w, msg |-> m])
    BY DEF MailboxChanges
  <2>3. kind' = kind
    BY DEF MailboxChanges
  <2>4. (w = "added" => Of(m) = {}) /\ (w # "added" => Exists(m))
    BY <2>1, <2>2
  <2>5. w \in {"removed", "restored"} => ~Imap \/ (Exists(m) /\ ~InFolder(m))
    BY <2>2
  <2>. QED  BY <2>2, <2>3, <2>4, <2>5
<1>2. Len(log) \in Nat /\ log \in Seq(LogEntry) /\ DOMAIN log = 1 .. Len(log)
  BY DEF FeedTypeOK
<1>3. log'[n] = [what |-> w, msg |-> m] /\ \A i \in 1 .. Len(log) : log'[i] = log[i]
  BY <1>1, <1>2
<1>4. DOMAIN log' = 1 .. n
  BY <1>1, <1>2
<1>5. ASSUME Exists(m), NEW i \in 1 .. Len(log), log[i].msg = m  PROVE log[i].what # "erased"
  <2>1. LastOf(m) \in Of(m) /\ log[LastOf(m)].what # "erased" /\ log[LastOf(m)].msg = m
    BY <1>5, LogFacts
  <2>2. i \in Of(m) /\ i <= LastOf(m) /\ LastOf(m) \in 1 .. Len(log)
    BY <1>2, <1>5, <2>1, LogFacts DEF Of
  <2>. QED  BY <1>2, <1>5, <2>1, <2>2 DEF LogInv
<1>6. ASSUME NEW i \in DOMAIN log', NEW j \in DOMAIN log', i < j, log'[i].msg = log'[j].msg
      PROVE  log'[j].what # "added" /\ log'[i].what # "erased"
  <2>1. i \in 1 .. Len(log)
    BY <1>2, <1>4, <1>6
  <2>2. CASE j \in 1 .. Len(log)
    BY <1>2, <1>3, <1>6, <2>1, <2>2 DEF LogInv
  <2>3. CASE j = n
    <3>1. log[i].msg = m /\ i \in Of(m)
      BY <1>2, <1>3, <1>6, <2>1, <2>3 DEF Of
    <3>2. w # "added"
      BY <1>1, <3>1
    <3>. QED  BY <1>1, <1>3, <1>5, <2>1, <2>3, <3>1, <3>2
  <2>. QED  BY <1>2, <1>4, <2>2, <2>3
<1>7. ASSUME NEW i \in DOMAIN log', log'[i].what # "added"
      PROVE  \E j \in DOMAIN log' : j < i /\ log'[j].msg = log'[i].msg /\ log'[j].what = "added"
  <2>1. CASE i \in 1 .. Len(log)
    <3>1. PICK j \in DOMAIN log : j < i /\ log[j].msg = log[i].msg /\ log[j].what = "added"
      BY <1>2, <1>3, <1>7, <2>1 DEF LogInv
    <3>. QED  BY <1>2, <1>3, <1>4, <2>1, <3>1
  <2>2. CASE i = n
    <3>1. Exists(m)
      BY <1>1, <1>3, <1>7, <2>2
    <3>2. PICK k \in Of(m) : TRUE
      BY <3>1, LogFacts
    <3>3. PICK j \in DOMAIN log : log[j].msg = m /\ log[j].what = "added"
      BY <3>2 DEF LogInv, Of
    <3>. QED  BY <1>2, <1>3, <1>4, <2>2, <3>3
  <2>. QED  BY <1>2, <1>4, <2>1, <2>2
<1>8. ASSUME Imap', NEW i \in DOMAIN log'  PROVE log'[i].what \notin {"removed", "restored"}
  <2>1. Imap
    BY <1>1, <1>8 DEF Imap
  <2>2. w \notin {"removed", "restored"}
    BY <1>1, <2>1, ImapFolder
  <2>3. CASE i \in 1 .. Len(log)
    BY <1>2, <1>3, <2>1, <2>3 DEF LogInv
  <2>4. CASE i = n
    BY <1>3, <2>2, <2>4
  <2>. QED  BY <1>2, <1>4, <1>8, <2>3, <2>4
<1>. QED  BY <1>6, <1>7, <1>8 DEF LogInv


-----------------------------------------------------------------------------
(* Types.                                                                  *)

LEMMA FeedMessages ==
  ASSUME FeedTypeOK, NEW S \in SUBSET DOMAIN log
  PROVE  /\ MessagesAt(S) \subseteq Messages
         /\ \A m \in MessagesAt(S) : \E i \in S : i \in Of(m)
         /\ \A m \in Messages : \A i \in S : i \in Of(m) => m \in MessagesAt(S)
<1>1. \A i \in DOMAIN log : log[i].msg \in Messages
  <2>1. \A i \in DOMAIN log : log[i] \in LogEntry
    BY DEF FeedTypeOK
  <2>. QED  BY <2>1 DEF LogEntry
<1>. QED  BY <1>1 DEF MessagesAt, Of

LEMMA ListFacts ==
  ASSUME FeedTypeOK
  PROVE  /\ DOMAIN log = 1 .. Len(log) /\ Len(log) \in Nat /\ IsFiniteSet(DOMAIN log)
         /\ {Arrived(m) : m \in {x \in Messages : Exists(x)}} \subseteq DOMAIN log
         /\ Uids \subseteq DOMAIN log
         /\ \A a, b \in Nat : Span(a, b) \subseteq DOMAIN log
<1>1. DOMAIN log = 1 .. Len(log) /\ Len(log) \in Nat
  BY DEF FeedTypeOK
<1>2. IsFiniteSet(DOMAIN log)
  <2>1. 1 \in Int /\ Len(log) \in Int
    BY <1>1
  <2>. QED  BY <1>1, <2>1, FS_Interval
<1>3. \A m \in Messages : Exists(m) => Arrived(m) \in DOMAIN log
  BY <1>1, LogFacts
<1>. QED  BY <1>1, <1>2, <1>3, LogFacts DEF Uids, Span

LEMMA BeginTypes ==
  ASSUME FeedTypeOK, Begin
  PROVE  sync' \in SyncRecord
<1> DEFINE from == IF cursor = NoCursor THEN 0 ELSE cursor.pos
           hor == IF cursor = NoCursor THEN Len(log) ELSE cursor.base
           pc == CASE Imap -> "search"
                   [] kind = "graph" -> "delta"
                   [] kind = "gmail" -> IF cursor = NoCursor THEN "list" ELSE "history"
<1>1. from \in Nat /\ hor \in Nat /\ pc \in SyncPc
  BY DEF FeedTypeOK, Cursor, SyncPc, Imap
<1>2. sync' = [IdleSync EXCEPT !.pc = pc, !.from = from, !.at = from, !.horizon = hor,
                 !.reset = cursor = NoCursor]
  BY DEF Begin
<1> HIDE DEF from, hor, pc
<1>. QED  BY <1>1, <1>2 DEF IdleSync, SyncRecord, Cursor

LEMMA GmailTypes ==
  ASSUME FeedTypeOK,
         HistoryPage \/ HistoryExpired \/ ListPage \/ GetMessages \/ ReadProfile
  PROVE  sync' \in SyncRecord
<1>1. Len(log) \in Nat /\ DOMAIN log \subseteq Nat
  BY ListFacts
<1>2. sync \in SyncRecord /\ IdleSync \in SyncRecord
  BY DEF FeedTypeOK, IdleSync, SyncRecord, SyncPc, Cursor
<1>3. \A a, b \in Nat : Span(a, b) \subseteq DOMAIN log
  BY ListFacts
<1>4. [pos |-> Len(log), base |-> 0] \in Cursor
  BY <1>1 DEF Cursor
<1>5. CASE HistoryPage
  <2>1. PICK e \in PageEnds(Room), named \in BOOLEAN :
          LET S == Span(sync.at, e)
              taken == sync.taken \cup HistoryRefs(S, named)
              last == e = Len(log) \/ Cardinality(taken) >= Limit
          IN sync' = [sync EXCEPT
               !.at = e, !.taken = taken,
               !.gone = @ \cup MessagesAt({i \in S : Leaves(i)}),
               !.next = [pos |-> Len(log), base |-> 0],
               !.missed = IF last THEN ChangedIn(e, Len(log)) ELSE {},
               !.pc = IF last THEN "get" ELSE "history"]
    BY <1>5 DEF HistoryPage
  <2> DEFINE S == Span(sync.at, e)
             T == sync.taken \cup HistoryRefs(S, named)
             G == sync.gone \cup MessagesAt({i \in S : Leaves(i)})
             M == IF e = Len(log) \/ Cardinality(T) >= Limit THEN ChangedIn(e, Len(log)) ELSE {}
             P == IF e = Len(log) \/ Cardinality(T) >= Limit THEN "get" ELSE "history"
  <2>2. e \in Nat
    BY <1>1, <1>2 DEF PageEnds, SyncRecord
  <2>3. S \subseteq DOMAIN log /\ Span(e, Len(log)) \subseteq DOMAIN log
    BY <1>1, <1>2, <1>3, <2>2 DEF SyncRecord
  <2>4. T \in SUBSET Nat
    BY <1>1, <1>2, <2>3 DEF HistoryRefs, SyncRecord
  <2>5. G \in SUBSET Messages /\ M \in SUBSET Messages
    BY <1>2, <2>3, FeedMessages DEF ChangedIn, SyncRecord
  <2>6. P \in SyncPc
    BY DEF SyncPc
  <2>7. sync' = [sync EXCEPT !.at = e, !.taken = T, !.gone = G,
                   !.next = [pos |-> Len(log), base |-> 0], !.missed = M, !.pc = P]
    BY <2>1
  <2> HIDE DEF S, T, G, M, P
  <2>. QED  BY <1>2, <1>4, <2>2, <2>4, <2>5, <2>6, <2>7 DEF SyncRecord
<1>6. CASE HistoryExpired
  BY <1>1, <1>2, <1>6 DEF HistoryExpired, SyncRecord, SyncPc, Cursor
<1>7. CASE ListPage
  <2> DEFINE listed == {Arrived(m) : m \in {x \in Messages : Exists(x)}}
             rest == IF sync.first THEN listed ELSE {i \in listed : i < sync.at}
  <2>1. PICK k \in (IF rest = {} THEN {0} ELSE 1 .. Room) :
          LET page == LastOnes(k, rest)
              last == page = rest \/ Cardinality(page) >= Room
          IN sync' = [sync EXCEPT
               !.taken = @ \cup page, !.first = FALSE,
               !.at = IF page = {} THEN 0 ELSE Min(page),
               !.missed = IF last THEN MessagesAt(rest \ page) ELSE {},
               !.pc = IF last THEN "get" ELSE "list"]
    BY <1>7 DEF ListPage
  <2> DEFINE page == LastOnes(k, rest)
             A == IF page = {} THEN 0 ELSE Min(page)
             M == IF page = rest \/ Cardinality(page) >= Room THEN MessagesAt(rest \ page) ELSE {}
             P == IF page = rest \/ Cardinality(page) >= Room THEN "get" ELSE "list"
  <2>2. rest \subseteq DOMAIN log
    BY ListFacts
  <2>3. page \subseteq rest
    <3> HIDE DEF rest
    <3>. QED  BY DEF LastOnes
  <2>4. A \in Nat
    <3> HIDE DEF page, rest
    <3>1. page \in SUBSET Nat /\ IsFiniteSet(page)
      BY <1>1, <2>2, <2>3, ListFacts, FS_Subset
    <3>. QED  BY <3>1, MinOf
  <2>5. M \in SUBSET Messages
    <3> HIDE DEF page, rest
    <3>. QED  BY <2>2, FeedMessages
  <2>6. P \in SyncPc
    BY DEF SyncPc
  <2>7. sync' = [sync EXCEPT !.taken = @ \cup page, !.first = FALSE, !.at = A, !.missed = M, !.pc = P]
    BY <2>1
  <2>8. sync.taken \cup page \in SUBSET Nat
    <3> HIDE DEF page, rest
    <3>. QED  BY <1>1, <1>2, <2>2, <2>3 DEF SyncRecord
  <2> HIDE DEF page, rest, A, M, P
  <2>. QED  BY <1>2, <2>4, <2>5, <2>6, <2>7, <2>8 DEF SyncRecord
<1>8. CASE GetMessages
  BY <1>2, <1>8 DEF GetMessages, SyncRecord, SyncPc
<1>9. CASE ReadProfile
  <2>1. ChangedIn(sync.horizon, Len(log)) \in SUBSET Messages
    BY <1>1, <1>2, <1>3, FeedMessages DEF ChangedIn, SyncRecord
  <2>2. sync' = [sync EXCEPT !.pc = "apply", !.next = [pos |-> Len(log), base |-> 0],
                   !.missed = @ \cup ChangedIn(sync.horizon, Len(log))]
    BY <1>9 DEF ReadProfile
  <2>. QED  BY <1>2, <1>4, <2>1, <2>2 DEF SyncRecord, SyncPc
<1>. QED  BY <1>5, <1>6, <1>7, <1>8, <1>9

LEMMA GraphTypes ==
  ASSUME FeedTypeOK, DeltaPage \/ DeltaExpired
  PROVE  sync' \in SyncRecord
<1>1. Len(log) \in Nat /\ DOMAIN log \subseteq Nat
  BY ListFacts
<1>2. sync \in SyncRecord
  BY DEF FeedTypeOK
<1>3. CASE DeltaPage
  <2>1. PICK e \in PageEnds(Limit) :
          LET items == DeltaItems(Span(sync.at, e))
              present == {i \in items : InFolder(log[i].msg)}
              taken == sync.taken \cup FirstOf(Room, present)
              last == e = Len(log) \/ Cardinality(taken) >= Limit
          IN sync' = [sync EXCEPT
               !.at = e, !.first = FALSE, !.taken = taken,
               !.gone = @ \cup MessagesAt({i \in items \ present : i > sync.horizon}),
               !.missed = @ \cup MessagesAt(present \ taken),
               !.next = IF last THEN DeltaLink(e) ELSE NoCursor,
               !.pc = IF last THEN "apply" ELSE "delta"]
    BY <1>3 DEF DeltaPage
  <2> DEFINE items == DeltaItems(Span(sync.at, e))
             present == {i \in items : InFolder(log[i].msg)}
             T == sync.taken \cup FirstOf(Room, present)
             G == sync.gone \cup MessagesAt({i \in items \ present : i > sync.horizon})
             M == sync.missed \cup MessagesAt(present \ T)
             N == IF e = Len(log) \/ Cardinality(T) >= Limit THEN DeltaLink(e) ELSE NoCursor
             P == IF e = Len(log) \/ Cardinality(T) >= Limit THEN "apply" ELSE "delta"
  <2>2. e \in Nat
    BY <1>1, <1>2 DEF PageEnds, SyncRecord
  <2>3. items \subseteq DOMAIN log /\ present \subseteq items
    <3>1. Span(sync.at, e) \subseteq DOMAIN log
      BY <1>2, <2>2, ListFacts DEF SyncRecord
    <3>. QED  BY <3>1 DEF DeltaItems
  <2>4. T \in SUBSET Nat
    <3> HIDE DEF items, present
    <3>. QED  BY <1>1, <1>2, <2>3 DEF FirstOf, SyncRecord
  <2>5. G \in SUBSET Messages /\ M \in SUBSET Messages
    <3> HIDE DEF items, present, T
    <3>1. {i \in items \ present : i > sync.horizon} \in SUBSET DOMAIN log
      BY <2>3
    <3>2. present \ T \in SUBSET DOMAIN log
      BY <2>3
    <3>. QED  BY <1>2, <3>1, <3>2, FeedMessages DEF SyncRecord
  <2>6. P \in SyncPc /\ N \in Cursor
    <3>1. DeltaLink(e) \in [pos : Nat, base : Nat]
      BY <1>2, <2>2 DEF DeltaLink, SyncRecord
    <3>. QED  BY <3>1 DEF SyncPc, Cursor
  <2>7. sync' = [sync EXCEPT !.at = e, !.first = FALSE, !.taken = T, !.gone = G,
                   !.missed = M, !.next = N, !.pc = P]
    BY <2>1
  <2> HIDE DEF items, present, T, G, M, N, P
  <2>. QED  BY <1>2, <2>2, <2>4, <2>5, <2>6, <2>7 DEF SyncRecord
<1>4. CASE DeltaExpired
  BY <1>1, <1>2, <1>4 DEF DeltaExpired, SyncRecord
<1>. QED  BY <1>3, <1>4

\* What a search found, and the UID it leaves off at.
LEMMA SearchFacts ==
  ASSUME FeedTypeOK, CursorInv, Imap, SearchFolder
  PROVE  \E found \in SUBSET Uids, taken \in SUBSET Uids, last \in 0 .. Len(log) :
           /\ taken \subseteq found
           /\ found = CASE Renumbered -> Uids
                        [] ~Renumbered /\ kind = "imap" -> Beyond(cursor.pos)
                        [] ~Renumbered /\ kind = "condstore" -> {u \in Uids : LastOf(log[u].msg) > cursor.base}
           /\ ~Renumbered => last = cursor.pos
           /\ Max(taken \cup {last}) \in 0 .. Len(log)
           /\ \A i \in taken \cup {last} : i <= Max(taken \cup {last})
           /\ sync' = [sync EXCEPT !.pc = "fetch", !.taken = taken,
                         !.missed = MessagesAt(found \ taken), !.reset = Renumbered,
                         !.next = [pos |-> Max(taken \cup {last}), base |-> HighestModseq]]
<1> DEFINE found == CASE Renumbered -> Uids
                      [] ~Renumbered /\ kind = "imap" -> Beyond(cursor.pos)
                      [] ~Renumbered /\ kind = "condstore" -> {u \in Uids : LastOf(log[u].msg) > cursor.base}
           taken == LastOnes(Limit, found)
           last == IF Renumbered THEN 0 ELSE cursor.pos
<1>1. sync' = [sync EXCEPT !.pc = "fetch", !.taken = taken,
                 !.missed = MessagesAt(found \ taken), !.reset = Renumbered,
                 !.next = [pos |-> Max(taken \cup {last}), base |-> HighestModseq]]
  BY DEF SearchFolder
<1>2. found \subseteq Uids
  BY DEF Beyond, LastOnes, Imap
<1>3. taken \subseteq found
  <2> HIDE DEF found
  <2>. QED  BY DEF LastOnes
<1>4. last \in 0 .. Len(log) /\ (~Renumbered => last = cursor.pos)
  BY ListFacts DEF Renumbered, CursorInv, FeedTypeOK, Cursor
<1>5. Max(taken \cup {last}) \in taken \cup {last} /\ \A i \in taken \cup {last} : i <= Max(taken \cup {last})
  <2> HIDE DEF found, taken, last
  <2>1. taken \subseteq DOMAIN log /\ IsFiniteSet(taken)
    BY <1>2, <1>3, ListFacts, FS_Subset
  <2>2. IsFiniteSet(taken \cup {last})
    BY <2>1, FS_AddElement
  <2>3. taken \cup {last} \in SUBSET Nat /\ taken \cup {last} # {}
    BY <1>4, <2>1, ListFacts
  <2>. QED  BY <2>2, <2>3, MaxOf
<1>6. Max(taken \cup {last}) \in 0 .. Len(log)
  <2> HIDE DEF found, taken, last
  <2>. QED  BY <1>2, <1>3, <1>4, <1>5, ListFacts
<1>7. found = CASE Renumbered -> Uids
                [] ~Renumbered /\ kind = "imap" -> Beyond(cursor.pos)
                [] ~Renumbered /\ kind = "condstore" -> {u \in Uids : LastOf(log[u].msg) > cursor.base}
  OBVIOUS
<1> HIDE DEF found, taken, last
<1>. QED  BY <1>1, <1>2, <1>3, <1>4, <1>5, <1>6, <1>7

LEMMA ImapTypes ==
  ASSUME FeedTypeOK, CursorInv, Imap, SearchFolder \/ FetchMessages
  PROVE  sync' \in SyncRecord
<1>1. sync \in SyncRecord /\ IdleSync \in SyncRecord
  BY DEF FeedTypeOK, IdleSync, SyncRecord, SyncPc, Cursor
<1>2. CASE SearchFolder
  <2>1. PICK found \in SUBSET Uids, taken \in SUBSET Uids, last \in 0 .. Len(log) :
           /\ Max(taken \cup {last}) \in 0 .. Len(log)
           /\ sync' = [sync EXCEPT !.pc = "fetch", !.taken = taken,
                         !.missed = MessagesAt(found \ taken), !.reset = Renumbered,
                         !.next = [pos |-> Max(taken \cup {last}), base |-> HighestModseq]]
    BY <1>2, SearchFacts
  <2>2. taken \in SUBSET Nat /\ MessagesAt(found \ taken) \in SUBSET Messages
    BY ListFacts, FeedMessages
  <2>3. [pos |-> Max(taken \cup {last}), base |-> HighestModseq] \in Cursor
    BY <2>1, ListFacts DEF Cursor, HighestModseq
  <2>4. Renumbered \in BOOLEAN
    BY DEF Renumbered, FeedTypeOK
  <2>. QED  BY <1>1, <2>1, <2>2, <2>3, <2>4 DEF SyncRecord, SyncPc
<1>3. CASE FetchMessages
  BY <1>1, <1>3 DEF FetchMessages, SyncRecord, SyncPc
<1>. QED  BY <1>2, <1>3

LEMMA StagesOf ==
  ASSUME FeedInv
  PROVE  /\ kind \in {"gmail", "graph", "imap", "condstore"}
         /\ sync.pc \in {"history", "list", "get", "profile"} => kind = "gmail"
         /\ sync.pc = "delta" => kind = "graph"
         /\ sync.pc \in {"search", "fetch"} => Imap
         /\ sync \in SyncRecord
BY DEF FeedInv, FeedTypeOK, GmailInv, GraphInv, ImapInv, Imap

LEMMA FeedTypeStep ==
  ASSUME FeedInv, FeedNext
  PROVE  FeedTypeOK'
<1>1. CASE Begin \/ HistoryPage \/ HistoryExpired \/ ListPage \/ GetMessages \/ ReadProfile
           \/ DeltaPage \/ DeltaExpired \/ SearchFolder \/ FetchMessages
  <2>1. SearchFolder \/ FetchMessages => Imap
    BY StagesOf DEF SearchFolder, FetchMessages
  <2>2. sync' \in SyncRecord
    BY <1>1, <2>1, BeginTypes, GmailTypes, GraphTypes, ImapTypes DEF FeedInv
  <2>3. Untouched
    BY <1>1 DEF Begin, HistoryPage, HistoryExpired, ListPage, GetMessages, ReadProfile,
                DeltaPage, DeltaExpired, SearchFolder, FetchMessages
  <2>. QED  BY <2>2, <2>3 DEF FeedInv, FeedTypeOK, Untouched
<1>2. IdleSync \in SyncRecord
  BY DEF IdleSync, SyncRecord, SyncPc, Cursor
<1>3. CASE ApplyPage
  <2>1. sync \in SyncRecord
    BY DEF FeedInv, FeedTypeOK
  <2> DEFINE messages == IF kind = "gmail" THEN ToGet ELSE MessagesAt(sync.taken)
  <2>2. Returned \subseteq Messages
    BY <2>1 DEF Returned, SyncRecord
  <2>3. stored' = Merged(messages)
    BY <1>3 DEF ApplyPage
  <2>4. excused' = (excused \ (messages \cup sync.gone)) \cup sync.missed \cup Returned
                    \cup IF sync.reset THEN stored \ messages ELSE {}
    BY <1>3 DEF ApplyPage
  <2>5. messages \subseteq Messages
    <3>1. MessagesAt(sync.taken) \subseteq Messages
      BY <1>3, FeedMessages DEF FeedInv, ReadInv, ApplyPage
    <3>. QED  BY <3>1 DEF ToGet
  <2> HIDE DEF messages
  <2>6. stored \subseteq Messages /\ excused \subseteq Messages /\ sync.missed \subseteq Messages
    BY <2>1 DEF FeedInv, FeedTypeOK, SyncRecord
  <2>7. stored' \subseteq Messages /\ excused' \subseteq Messages
    BY <2>2, <2>3, <2>4, <2>5, <2>6 DEF Merged
  <2>8. cursor' \in Cursor
    BY <1>3, <2>1 DEF ApplyPage, SyncRecord
  <2>. QED  BY <1>2, <1>3, <2>7, <2>8 DEF ApplyPage, FeedInv, FeedTypeOK
<1>4. CASE SyncFails \/ CursorExpires
  <2>1. faults' \in 0 .. MaxFaults
    BY <1>4, ChangesAssumption DEF FeedInv, FeedTypeOK, SyncFails, CursorExpires
  <2>2. sync' \in SyncRecord /\ stale' \in BOOLEAN
    BY <1>2, <1>4 DEF FeedInv, FeedTypeOK, SyncFails, CursorExpires
  <2>. QED  BY <1>4, <2>1, <2>2 DEF FeedInv, FeedTypeOK, SyncFails, CursorExpires
<1>5. CASE \E m \in Messages : MailboxChanges(m)
  BY <1>5, Grown DEF FeedInv
<1>. QED  BY <1>1, <1>3, <1>4, <1>5 DEF FeedNext, SyncStep


-----------------------------------------------------------------------------
(* The mailbox changes during a synchronisation.                           *)

\* What has been read of the log stays as it was read.
LEMMA ReadStays ==
  ASSUME FeedTypeOK, LogInv, NEW m \in Messages, MailboxChanges(m)
  PROVE  /\ \A S \in SUBSET DOMAIN log : MessagesAt(S)' = MessagesAt(S)
         /\ \A a \in Nat, b \in 0 .. Len(log) : Span(a, b)' = Span(a, b) /\ ChangedIn(a, b)' = ChangedIn(a, b)
         /\ \A i \in DOMAIN log : Leaves(i)' = Leaves(i)
<1>1. /\ DOMAIN log = 1 .. Len(log) /\ Len(log) \in Nat
      /\ DOMAIN log' = 1 .. Len(log) + 1
      /\ \A i \in 1 .. Len(log) : log'[i] = log[i]
  BY Grown, ListFacts
<1>2. \A S \in SUBSET DOMAIN log : {log'[i].msg : i \in S} = {log[i].msg : i \in S}
  BY <1>1
<1>3. \A a \in Nat, b \in 0 .. Len(log) : Span(a, b)' = Span(a, b) /\ Span(a, b) \subseteq DOMAIN log
  BY <1>1 DEF Span
<1>. QED  BY <1>1, <1>2, <1>3 DEF MessagesAt, ChangedIn, Leaves

LEMMA CursorGrows ==
  ASSUME FeedTypeOK, LogInv, CursorInv, NEW m \in Messages, MailboxChanges(m)
  PROVE  CursorInv'
<1>1. cursor' = cursor /\ stored' = stored /\ excused' = excused /\ kind' = kind
  BY DEF MailboxChanges
<1>2. Len(log) \in Nat /\ Len(log)' = Len(log) + 1 /\ LastOf(m)' = Len(log) + 1
  BY Grown, ListFacts
<1>. SUFFICES ASSUME cursor # NoCursor  PROVE CursorInv'
  BY <1>1 DEF CursorInv
<1>3. /\ cursor.pos \in Nat /\ cursor.base \in Nat
      /\ cursor.pos <= Len(log) /\ cursor.base <= Len(log)
  BY DEF CursorInv, FeedTypeOK, Cursor
<1>4. ASSUME NEW x \in Messages, InFolder(x)', Covered(x)'  PROVE x \in stored \cup excused
  <2>1. CASE x # m
    <3>1. InFolder(x) /\ Covered(x)
      BY <1>1, <1>4, <2>1, Grown DEF Covered
    <3>. QED  BY <3>1 DEF CursorInv
  <2>2. CASE x = m
    <3>1. kind = "imap" /\ Arrived(m)' <= cursor.pos
      BY <1>1, <1>2, <1>3, <1>4, <2>2 DEF Covered
    <3>2. Of(m) # {} /\ Arrived(m)' = Arrived(m)
      <4>1. Arrived(m)' = IF Of(m) = {} THEN Len(log) + 1 ELSE Arrived(m)
        BY GrownFolder
      <4>2. ~(Len(log) + 1 <= cursor.pos)
        BY <1>2, <1>3
      <4>. QED  BY <3>1, <4>1, <4>2
    <3>3. InFolder(m)
      BY <1>4, <2>2, <3>1, <3>2, GrownFolder DEF Imap
    <3>. QED  BY <2>2, <3>1, <3>2, <3>3 DEF CursorInv, Covered
  <2>. QED  BY <2>1, <2>2
<1>5. ASSUME ~Imap, NEW x \in stored, Of(x)' # {}, ~Exists(x)', Known(x)'  PROVE x \in excused
  <2>1. x \in Messages /\ x # m
    BY <1>1, <1>2, <1>3, <1>5 DEF Known, FeedTypeOK
  <2>2. Of(x) # {} /\ ~Exists(x) /\ Known(x)
    BY <1>1, <1>5, <2>1, Grown DEF Known
  <2>. QED  BY <1>5, <2>2 DEF CursorInv
<1>6. Imap' <=> Imap
  BY <1>1 DEF Imap
<1>. QED  BY <1>1, <1>2, <1>3, <1>4, <1>5, <1>6 DEF CursorInv

LEMMA ReadGrows ==
  ASSUME FeedTypeOK, LogInv, ReadInv, NEW m \in Messages, MailboxChanges(m)
  PROVE  ReadInv'
<1>1. sync' = sync /\ cursor' = cursor
  BY DEF MailboxChanges
<1>. SUFFICES ASSUME sync.pc # "idle"  PROVE ReadInv'
  BY <1>1 DEF ReadInv
<1>2. /\ Len(log) \in Nat /\ Len(log)' = Len(log) + 1 /\ LastOf(m)' = Len(log) + 1
      /\ DOMAIN log' = 1 .. Len(log) + 1 /\ DOMAIN log = 1 .. Len(log)
      /\ \A i \in DOMAIN log : log'[i] = log[i]
  BY Grown, ListFacts
<1>3. sync \in SyncRecord
  BY DEF FeedTypeOK
<1>4. sync.from \in Nat /\ sync.horizon \in Nat /\ sync.from <= Len(log) /\ sync.horizon <= Len(log)
  BY <1>3 DEF SyncRecord, ReadInv
<1>5. ASSUME NEW x \in sync.gone, InFolder(x)'  PROVE CameBack(x)'
  <2>1. x \in Messages /\ Of(x) # {}
    BY <1>3, <1>5 DEF SyncRecord, ReadInv
  <2>2. ASSUME InFolder(x)  PROVE CameBack(x)'
    <3>1. PICK i \in Span(sync.from, Len(log)) : log[i] = [what |-> "restored", msg |-> x]
      BY <1>5, <2>2 DEF ReadInv, CameBack
    <3>2. i \in DOMAIN log /\ i \in Nat /\ sync.from < i /\ i <= Len(log)
      BY <1>2, <3>1 DEF Span
    <3>3. i \in Span(sync.from, Len(log))'
      BY <1>1, <1>2, <3>2 DEF Span
    <3>. QED  BY <1>2, <3>1, <3>2, <3>3 DEF CameBack
  <2>3. ASSUME ~InFolder(x)  PROVE CameBack(x)'
    <3>1. x = m
      BY <1>5, <2>1, <2>3, Grown
    <3>2. log'[Len(log) + 1] = [what |-> "restored", msg |-> x]
      BY <1>5, <2>1, <2>3, <3>1, GrownFolder
    <3>3. Len(log) + 1 \in Span(sync.from, Len(log))'
      BY <1>1, <1>2, <1>4 DEF Span
    <3>. QED  BY <3>2, <3>3 DEF CameBack
  <2>. QED  BY <2>2, <2>3
<1>6. ASSUME NEW x \in sync.gone  PROVE \E i \in Of(x)' : sync.from < i
  <2>1. x \in Messages /\ \E i \in Of(x) : sync.from < i
    BY <1>3, <1>6 DEF SyncRecord, ReadInv
  <2>2. Of(x) \subseteq Of(x)'
    BY <2>1, Grown
  <2>. QED  BY <2>1, <2>2
<1>7. sync.next # NoCursor => /\ sync.next.pos \in Nat /\ sync.next.base \in Nat
                               /\ sync.next.pos <= Len(log) /\ sync.next.base <= Len(log)
  BY <1>3 DEF SyncRecord, Cursor, ReadInv
<1>8. sync.taken \subseteq DOMAIN log /\ (~sync.reset => cursor # NoCursor /\ sync.from = cursor.pos)
  BY DEF ReadInv
<1>. QED  BY <1>1, <1>2, <1>4, <1>5, <1>6, <1>7, <1>8 DEF ReadInv


LEMMA GmailGrows ==
  ASSUME FeedTypeOK, LogInv, ReadInv, GmailInv, NEW m \in Messages, MailboxChanges(m)
  PROVE  GmailInv'
<1>1. sync' = sync /\ cursor' = cursor /\ kind' = kind
  BY DEF MailboxChanges
<1>. SUFFICES ASSUME kind = "gmail", sync.pc # "idle"  PROVE GmailInv'
  BY <1>1 DEF GmailInv
<1>2. /\ Len(log) \in Nat /\ Len(log)' = Len(log) + 1 /\ LastOf(m)' = Len(log) + 1
      /\ DOMAIN log = 1 .. Len(log)
  BY Grown, ListFacts
<1>3. sync \in SyncRecord
  BY DEF FeedTypeOK
<1>4. /\ sync.taken \subseteq DOMAIN log
      /\ sync.from \in Nat /\ sync.at \in Nat /\ sync.horizon \in Nat
      /\ sync.from <= Len(log) /\ sync.horizon <= Len(log)
      /\ sync.next # NoCursor => sync.next.pos \in Nat /\ sync.next.pos <= Len(log)
  BY <1>3 DEF SyncRecord, Cursor, ReadInv
<1>5. Fetched' = Fetched /\ ToGet' = ToGet
  <2>1. MessagesAt(sync.taken)' = MessagesAt(sync.taken)
    BY <1>1, <1>4, ReadStays
  <2>. QED  BY <1>1, <2>1 DEF Fetched, ToGet
<1>6. HistoryRead => HistoryRead'
  <2>. SUFFICES ASSUME HistoryRead  PROVE HistoryRead'
    OBVIOUS
  <2>1. sync.at <= Len(log)
    BY DEF HistoryRead
  <2>2. Span(sync.from, sync.at)' = Span(sync.from, sync.at) /\ Span(sync.from, sync.at) \subseteq DOMAIN log
    BY <1>1, <1>2, <1>4, <2>1, ReadStays DEF Span
  <2>3. \A i \in DOMAIN log : (Leaves(i)' <=> Leaves(i)) /\ log'[i] = log[i]
    BY <1>2, ReadStays, Grown
  <2>. QED  BY <1>1, <1>2, <1>4, <1>5, <2>1, <2>2, <2>3 DEF HistoryRead
<1>7. \A x \in Messages : Still(x)' => Still(x) /\ Arrived(x)' = Arrived(x)
  <2>1. \A x \in Messages \ {m} : Still(x)' => Still(x) /\ Arrived(x)' = Arrived(x)
    BY <1>1, Grown DEF Still
  <2>2. ~Still(m)'
    BY <1>1, <1>2, <1>4 DEF Still
  <2>. QED  BY <2>1, <2>2
<1>8. \A x \in Messages : \A n \in 0 .. Len(log) :
        Exists(x) \/ n < LastOf(x) => Exists(x)' \/ n < LastOf(x)'
  <2>1. \A x \in Messages \ {m} : Exists(x)' = Exists(x) /\ LastOf(x)' = LastOf(x)
    BY Grown
  <2>. QED  BY <1>2, <2>1
<1>9. \A a \in Nat : sync.next # NoCursor => ChangedIn(a, sync.next.pos)' = ChangedIn(a, sync.next.pos)
  BY <1>1, <1>2, <1>4, ReadStays
<1>10. ToGet \subseteq Messages
  BY <1>4, FeedMessages DEF ToGet
<1>11. sync.pc = "list" =>
         \A x \in Messages : Still(x)' /\ ~sync.first /\ sync.at <= Arrived(x)' => Arrived(x)' \in sync.taken
  BY <1>7 DEF GmailInv
<1>12. sync.pc \in {"get", "profile", "apply"} /\ sync.reset =>
         \A x \in Messages : Still(x)' => x \in Fetched \cup sync.missed
  BY <1>7 DEF GmailInv
<1>13. sync.pc = "profile" => \A x \in ToGet : Exists(x)' \/ sync.horizon < LastOf(x)'
  BY <1>2, <1>4, <1>8, <1>10 DEF GmailInv
<1>14. sync.pc = "apply" /\ sync.reset =>
         \A x \in ToGet : Exists(x)' \/ sync.next.pos < LastOf(x)' \/ x \in sync.missed
  BY <1>2, <1>4, <1>8, <1>10 DEF GmailInv
<1>15. sync.pc = "apply" /\ sync.reset =>
         sync.next # NoCursor /\ ChangedIn(sync.horizon, sync.next.pos)' \subseteq sync.missed
  BY <1>1, <1>4, <1>9 DEF GmailInv
<1>16. sync.pc \in {"get", "apply"} /\ ~sync.reset =>
         sync.next # NoCursor /\ ChangedIn(sync.at, sync.next.pos)' \subseteq sync.missed
  BY <1>1, <1>4, <1>9 DEF GmailInv
<1>17. /\ sync.pc \in {"idle", "history", "list", "get", "profile", "apply"}
       /\ sync.pc = "history" => ~sync.reset /\ HistoryRead'
       /\ sync.pc \in {"get", "apply"} /\ ~sync.reset => HistoryRead' /\ sync.next.base = 0
       /\ sync.pc \in {"list", "profile"} => sync.reset
       /\ sync.pc \in {"list", "get", "profile"} /\ sync.reset => sync.next = NoCursor
       /\ sync.pc = "apply" /\ sync.reset => sync.next.base = 0
  BY <1>6 DEF GmailInv
<1>. QED
  BY <1>1, <1>5, <1>11, <1>12, <1>13, <1>14, <1>15, <1>16, <1>17 DEF GmailInv

LEMMA GraphGrows ==
  ASSUME FeedTypeOK, LogInv, ReadInv, GraphInv, NEW m \in Messages, MailboxChanges(m)
  PROVE  GraphInv'
<1>1. sync' = sync /\ cursor' = cursor /\ kind' = kind
  BY DEF MailboxChanges
<1>. SUFFICES ASSUME kind = "graph", sync.pc # "idle"  PROVE GraphInv'
  BY <1>1 DEF GraphInv
<1>2. /\ Len(log) \in Nat /\ Len(log)' = Len(log) + 1 /\ LastOf(m)' = Len(log) + 1
  BY Grown, ListFacts
<1>3. /\ sync.taken \subseteq DOMAIN log /\ sync.horizon \in Nat /\ sync.at \in Nat
      /\ sync.horizon <= Len(log) /\ sync.at <= Len(log)
  BY DEF FeedTypeOK, SyncRecord, ReadInv, GraphInv
<1>4. Fetched' = Fetched /\ Fetched \subseteq Messages
  <2>1. MessagesAt(sync.taken)' = MessagesAt(sync.taken)
    BY <1>1, <1>3, ReadStays
  <2>. QED  BY <1>1, <1>3, <2>1, FeedMessages DEF Fetched
<1>5. \A x \in Messages \ {m} : LastOf(x)' = LastOf(x) /\ Exists(x)' = Exists(x) /\ InFolder(x)' = InFolder(x)
  BY Grown
<1>6. \A x \in Messages : sync.from < LastOf(x)' /\ LastOf(x)' <= sync.at =>
         /\ InFolder(x)' => x \in Fetched \cup sync.missed
         /\ ~Exists(x)' /\ sync.horizon < LastOf(x)' => x \in sync.gone
  BY <1>2, <1>3, <1>5 DEF GraphInv
<1>7. \A x \in Fetched : Exists(x)' \/ sync.horizon < LastOf(x)'
  BY <1>2, <1>3, <1>4, <1>5 DEF GraphInv
<1>8. DeltaLink(sync.at)' = DeltaLink(sync.at)
  BY <1>1 DEF DeltaLink
<1>. QED  BY <1>1, <1>2, <1>3, <1>4, <1>6, <1>7, <1>8 DEF GraphInv, DeltaLink

LEMMA ImapGrows ==
  ASSUME FeedTypeOK, LogInv, ReadInv, ImapInv, NEW m \in Messages, MailboxChanges(m)
  PROVE  ImapInv'
<1>1. sync' = sync /\ cursor' = cursor /\ kind' = kind
  BY DEF MailboxChanges
<1>2. Imap' <=> Imap
  BY <1>1 DEF Imap
<1>. SUFFICES ASSUME Imap, sync.pc # "idle"  PROVE ImapInv'
  BY <1>1, <1>2 DEF ImapInv
<1>3. /\ Len(log) \in Nat /\ LastOf(m)' = Len(log) + 1
  BY Grown, ListFacts
<1>4. /\ sync.taken \subseteq DOMAIN log
      /\ sync.next # NoCursor => /\ sync.next.pos \in Nat /\ sync.next.pos <= Len(log)
                                 /\ sync.next.base \in Nat /\ sync.next.base <= Len(log)
  BY DEF FeedTypeOK, SyncRecord, Cursor, ReadInv
<1>5. Fetched' = Fetched
  <2>1. MessagesAt(sync.taken)' = MessagesAt(sync.taken)
    BY <1>1, <1>4, ReadStays
  <2>. QED  BY <1>1, <2>1 DEF Fetched
<1>6. ASSUME sync.pc # "search", NEW x \in Messages, InFolder(x)'
      PROVE  /\ kind = "imap" /\ Arrived(x)' <= sync.next.pos =>
                  (~sync.reset /\ Arrived(x)' <= cursor.pos) \/ x \in Fetched \cup sync.missed
             /\ kind = "condstore" /\ LastOf(x)' <= sync.next.base =>
                  (~sync.reset /\ LastOf(x)' <= cursor.base) \/ x \in Fetched \cup sync.missed
  <2>1. CASE x # m
    <3>1. InFolder(x) /\ Arrived(x)' = Arrived(x) /\ LastOf(x)' = LastOf(x)
      BY <1>6, <2>1, Grown
    <3>. QED  BY <1>6, <3>1 DEF ImapInv
  <2>2. CASE x = m
    <3>1. sync.next # NoCursor
      BY <1>6 DEF ImapInv
    <3>2. ~(LastOf(x)' <= sync.next.base) /\ ~(Len(log) + 1 <= sync.next.pos)
      BY <1>3, <1>4, <2>2, <3>1
    <3>3. CASE Of(m) = {}
      <4>1. Arrived(x)' = Len(log) + 1
        BY <2>2, <3>3, GrownFolder
      <4>. QED  BY <3>2, <4>1
    <3>4. CASE Of(m) # {}
      <4>1. Arrived(x)' = Arrived(x) /\ InFolder(x)
        BY <1>6, <2>2, <3>4, GrownFolder
      <4>. QED  BY <1>6, <3>2, <4>1 DEF ImapInv
    <3>. QED  BY <3>3, <3>4
  <2>. QED  BY <2>1, <2>2
<1>7. /\ sync.pc \in {"search", "fetch", "apply"} /\ sync.gone = {}
      /\ sync.pc = "search" /\ sync.reset => cursor = NoCursor
      /\ sync.pc # "search" => sync.next # NoCursor
  BY DEF ImapInv
<1>. QED  BY <1>1, <1>5, <1>6, <1>7 DEF ImapInv


-----------------------------------------------------------------------------
(* The steps of a synchronisation.                                         *)

\* What does not touch the mailbox, the store and the cursor.
LEMMA CursorKept ==
  ASSUME FeedTypeOK, LogInv, CursorInv, UNCHANGED <<kind, log, cursor, stored, excused>>
  PROVE  LogInv' /\ CursorInv' /\ (Imap' <=> Imap)
<1>1. Imap' <=> Imap
  BY DEF Imap
<1>2. LogInv'
  BY <1>1 DEF LogInv
<1>3. \A m \in Messages : /\ Of(m)' = Of(m) /\ LastOf(m)' = LastOf(m) /\ Arrived(m)' = Arrived(m)
                          /\ Exists(m)' = Exists(m) /\ InFolder(m)' = InFolder(m)
  BY LogKept
<1>4. \A m \in Messages : (Covered(m)' <=> Covered(m)) /\ (Known(m)' <=> Known(m))
  BY <1>3 DEF Covered, Known
<1>5. stored \subseteq Messages
  BY DEF FeedTypeOK
<1>. QED  BY <1>1, <1>2, <1>3, <1>4, <1>5 DEF CursorInv

\* What does not touch the synchronisation either.
LEMMA ReadKept ==
  ASSUME FeedInv, FeedTypeOK', UNCHANGED <<kind, log, cursor, stored, sync, excused>>
  PROVE  FeedInv'
<1>1. LogInv' /\ CursorInv' /\ (Imap' <=> Imap)
  BY CursorKept DEF FeedInv
<1>2. \A x : /\ Of(x)' = Of(x) /\ LastOf(x)' = LastOf(x) /\ Arrived(x)' = Arrived(x)
            /\ (Exists(x)' <=> Exists(x)) /\ (InFolder(x)' <=> InFolder(x))
            /\ (CameBack(x)' <=> CameBack(x))
  BY DEF Of, LastOf, Arrived, Exists, InFolder, Latest, Placed, CameBack, Span
<1>3. ReadInv'
  BY <1>2 DEF FeedInv, ReadInv
<1>4. /\ Fetched' = Fetched /\ ToGet' = ToGet /\ (HistoryRead' <=> HistoryRead)
      /\ ChangedIn(sync.at, sync.next.pos)' = ChangedIn(sync.at, sync.next.pos)
      /\ ChangedIn(sync.horizon, sync.next.pos)' = ChangedIn(sync.horizon, sync.next.pos)
      /\ DeltaLink(sync.at)' = DeltaLink(sync.at)
  BY DEF Fetched, ToGet, HistoryRead, ChangedIn, MessagesAt, Span, Leaves, DeltaLink
<1>5. GmailInv'
  BY <1>2, <1>4 DEF FeedInv, GmailInv, Still
<1>6. GraphInv'
  BY <1>2, <1>4 DEF FeedInv, GraphInv
<1>7. ImapInv'
  BY <1>1, <1>2, <1>4 DEF FeedInv, ImapInv
<1>. QED  BY <1>1, <1>3, <1>5, <1>6, <1>7 DEF FeedInv

LEMMA FeedBegins ==
  ASSUME FeedInv, Begin
  PROVE  ReadInv' /\ GmailInv' /\ GraphInv' /\ ImapInv'
<1>1. UNCHANGED <<kind, log, cursor>> /\ (Imap' <=> Imap)
  BY DEF Begin, Untouched, Imap
<1> DEFINE from == IF cursor = NoCursor THEN 0 ELSE cursor.pos
           hor == IF cursor = NoCursor THEN Len(log) ELSE cursor.base
           pc == CASE Imap -> "search"
                   [] kind = "graph" -> "delta"
                   [] kind = "gmail" -> IF cursor = NoCursor THEN "list" ELSE "history"
<1>2. sync' = [IdleSync EXCEPT !.pc = pc, !.from = from, !.at = from, !.horizon = hor,
                 !.reset = cursor = NoCursor]
  BY DEF Begin
<1>3. /\ from \in Nat /\ hor \in Nat /\ from <= Len(log) /\ hor <= Len(log) /\ Len(log) \in Nat
      /\ cursor = NoCursor => from = 0
      /\ cursor # NoCursor => from = cursor.pos /\ hor = cursor.base
  BY DEF FeedInv, FeedTypeOK, Cursor, CursorInv
<1>4. /\ Imap => pc = "search"
      /\ kind = "graph" => pc = "delta"
      /\ kind = "gmail" => pc = IF cursor = NoCursor THEN "list" ELSE "history"
  <2>1. Imap => pc = "search"
    BY DEF Imap
  <2>2. kind = "graph" => pc = "delta"
    <3>1. kind = "graph" => ~Imap
      BY DEF Imap
    <3>2. kind = "graph" => kind # "gmail"
      OBVIOUS
    <3>. QED  BY <3>1, <3>2, SMT DEF Imap
  <2>3. kind = "gmail" => pc = IF cursor = NoCursor THEN "list" ELSE "history"
    <3>1. kind = "gmail" => ~Imap /\ kind # "graph"
      BY DEF Imap
    <3>. QED  BY <3>1
  <2>. QED  BY <2>1, <2>2, <2>3
<1> HIDE DEF from, hor, pc
<1>5. /\ sync'.pc = pc /\ sync'.from = from /\ sync'.at = from /\ sync'.horizon = hor /\ sync'.first = TRUE
      /\ sync'.taken = {} /\ sync'.gone = {} /\ sync'.next = NoCursor
      /\ sync'.reset = (cursor = NoCursor) /\ sync'.missed = {}
  BY <1>2 DEF IdleSync
<1>6. ReadInv'
  BY <1>1, <1>3, <1>5 DEF ReadInv
<1>7. kind \in {"gmail", "graph", "imap", "condstore"}
  BY StagesOf
<1>8. GmailInv'
  <2>1. HistoryRead'
    <3>1. Span(sync.from, sync.at)' = {}
      BY <1>1, <1>3, <1>5 DEF Span
    <3>. QED  BY <1>1, <1>3, <1>5, <3>1 DEF HistoryRead
  <2>. QED  BY <1>1, <1>4, <1>5, <2>1 DEF GmailInv
<1>9. GraphInv'
  <2>1. Fetched' = {}
    BY <1>5 DEF Fetched, MessagesAt
  <2>2. \A m \in Messages : ~(sync'.from < LastOf(m)' /\ LastOf(m)' <= sync'.at)
    <3>1. \A m \in Messages : LastOf(m)' \in Nat
      BY <1>1, LogKept, LogFacts DEF FeedInv
    <3>. QED  BY <1>3, <1>5, <3>1
  <2>. SUFFICES ASSUME kind = "graph"  PROVE GraphInv'
    BY <1>1 DEF GraphInv
  <2>3. sync'.pc = "delta" /\ sync'.from <= sync'.at /\ sync'.at <= Len(log')
    BY <1>1, <1>3, <1>4, <1>5
  <2>4. (sync'.reset => sync'.from = 0) /\ (~sync'.reset => sync'.horizon = cursor'.base)
    BY <1>1, <1>3, <1>5
  <2>. QED  BY <1>1, <1>5, <2>1, <2>2, <2>3, <2>4 DEF GraphInv
<1>10. ImapInv'
  BY <1>1, <1>4, <1>5 DEF ImapInv
<1>. QED  BY <1>6, <1>8, <1>9, <1>10

\* The next page of the history.
LEMMA FeedReadsHistory ==
  ASSUME FeedInv, HistoryPage
  PROVE  ReadInv' /\ GmailInv'
<1>1. UNCHANGED <<kind, log, cursor>>
  BY DEF HistoryPage, Untouched
<1>2. PICK e \in PageEnds(Room), named \in BOOLEAN :
        LET S == Span(sync.at, e)
            taken == sync.taken \cup HistoryRefs(S, named)
            last == e = Len(log) \/ Cardinality(taken) >= Limit
        IN sync' = [sync EXCEPT
             !.at = e, !.taken = taken,
             !.gone = @ \cup MessagesAt({i \in S : Leaves(i)}),
             !.next = [pos |-> Len(log), base |-> 0],
             !.missed = IF last THEN ChangedIn(e, Len(log)) ELSE {},
             !.pc = IF last THEN "get" ELSE "history"]
  BY DEF HistoryPage
<1> DEFINE S == Span(sync.at, e)
           T == sync.taken \cup HistoryRefs(S, named)
           G == sync.gone \cup MessagesAt({i \in S : Leaves(i)})
           last == e = Len(log) \/ Cardinality(T) >= Limit
<1>3. /\ sync'.at = e /\ sync'.taken = T /\ sync'.gone = G
      /\ sync'.next = [pos |-> Len(log), base |-> 0]
      /\ sync'.missed = IF last THEN ChangedIn(e, Len(log)) ELSE {}
      /\ sync'.pc = IF last THEN "get" ELSE "history"
      /\ sync'.from = sync.from /\ sync'.horizon = sync.horizon /\ sync'.reset = sync.reset
  <2> HIDE DEF S, T, G, last
  <2>1. sync' = [sync EXCEPT !.at = e, !.taken = T, !.gone = G,
                   !.next = [pos |-> Len(log), base |-> 0],
                   !.missed = IF last THEN ChangedIn(e, Len(log)) ELSE {},
                   !.pc = IF last THEN "get" ELSE "history"]
    BY <1>2 DEF S, T, G, last
  <2>2. sync \in SyncRecord
    BY StagesOf
  <2>. QED  BY <2>1, <2>2 DEF SyncRecord
<1>4. sync.pc = "history" /\ kind = "gmail" /\ sync \in SyncRecord
  BY StagesOf DEF HistoryPage
<1>5. ~sync.reset /\ HistoryRead /\ ReadInv /\ FeedTypeOK /\ LogInv
  BY <1>4 DEF FeedInv, GmailInv
<1>6. DOMAIN log = 1 .. Len(log) /\ Len(log) \in Nat
  BY <1>5, ListFacts
<1>7. /\ sync.from \in Nat /\ sync.at \in Nat /\ sync.from <= sync.at
      /\ e \in Nat /\ sync.at <= e /\ e <= Len(log)
  BY <1>4, <1>5, <1>6 DEF SyncRecord, HistoryRead, PageEnds
<1>8. S \subseteq DOMAIN log /\ \A i \in S : i \in Nat /\ sync.at < i /\ i <= e
  BY <1>6 DEF Span
<1>9. HistoryRefs(S, named) \subseteq S
  <2> HIDE DEF S
  <2>. QED  BY DEF HistoryRefs
<1>10. sync.taken \subseteq DOMAIN log /\ T \subseteq DOMAIN log
  BY <1>4, <1>5, <1>8, <1>9 DEF ReadInv
<1> HIDE DEF S, T, G, last
<1>11. ASSUME NEW x \in G
       PROVE  (\E i \in Of(x) : sync.from < i) /\ (InFolder(x) => CameBack(x))
  <2>1. CASE x \in sync.gone
    BY <1>4, <1>5, <2>1 DEF ReadInv
  <2>2. CASE x \in MessagesAt({i \in S : Leaves(i)})
    <3>1. PICK i \in S : Leaves(i) /\ log[i].msg = x
      BY <2>2 DEF MessagesAt
    <3>2. i \in Of(x) /\ sync.from < i /\ i \in DOMAIN log
      BY <1>7, <1>8, <3>1 DEF Of
    <3>3. x \in Messages
      BY <1>5, <1>8, <2>2, FeedMessages
    <3>4. ASSUME InFolder(x)  PROVE CameBack(x)
      <4>1. PICK j \in DOMAIN log : i < j /\ log[j] = [what |-> "restored", msg |-> x]
        BY <1>5, <3>1, <3>2, <3>3, <3>4, LeftAndBack
      <4>2. j \in Span(sync.from, Len(log))
        BY <1>6, <1>7, <3>2, <4>1 DEF Span
      <4>. QED  BY <4>1, <4>2 DEF CameBack
    <3>. QED  BY <3>2, <3>4
  <2>. QED  BY <2>1, <2>2 DEF G
<1>12. \A x : Of(x)' = Of(x) /\ (InFolder(x)' <=> InFolder(x)) /\ (CameBack(x)' <=> CameBack(x))
  BY <1>1, <1>3 DEF Of, InFolder, Exists, Latest, LastOf, Placed, CameBack, Span
<1>13. ReadInv'
  <2>1. /\ sync.from <= Len(log) /\ sync.horizon <= Len(log)
        /\ ~sync.reset => cursor # NoCursor /\ sync.from = cursor.pos
    BY <1>4, <1>5 DEF ReadInv
  <2>. QED  BY <1>1, <1>3, <1>6, <1>10, <1>11, <1>12, <2>1 DEF ReadInv
<1>14. HistoryRead'
  <2>1. \A t \in T : sync.from < t
    BY <1>5, <1>7, <1>8, <1>9 DEF T, HistoryRead
  <2>2. ASSUME NEW i \in Span(sync.from, e)
        PROVE  IF Leaves(i) THEN log[i].msg \in G ELSE log[i].msg \in MessagesAt(T)
    <3>1. i \in DOMAIN log /\ i \in Nat /\ sync.from < i /\ i <= e
      BY <1>6 DEF Span
    <3>2. CASE i <= sync.at
      <4>1. i \in Span(sync.from, sync.at)
        BY <3>1, <3>2 DEF Span
      <4>. QED  BY <1>5, <4>1 DEF HistoryRead, Fetched, MessagesAt, G, T
    <3>3. CASE ~(i <= sync.at)
      <4>1. i \in S
        BY <1>7, <3>1, <3>3 DEF Span, S
      <4>2. Leaves(i) => log[i].msg \in G
        BY <4>1 DEF G, MessagesAt
      <4>3. ASSUME ~Leaves(i)  PROVE log[i].msg \in MessagesAt(T)
        <5> DEFINE C == {j \in S : log[j].msg = log[i].msg /\ (named \/ ~Leaves(j))}
        <5>1. C \in SUBSET Nat /\ IsFiniteSet(C) /\ i \in C
          <6>1. C \subseteq DOMAIN log /\ C \in SUBSET Nat /\ i \in C
            BY <1>8, <4>1, <4>3
          <6>. QED  BY <1>5, <6>1, ListFacts, FS_Subset
        <5>2. PICK j \in C : \A k \in C : j <= k
          <6> HIDE DEF C
          <6>. QED  BY <5>1, MinOf
        <5>3. j \in S /\ log[j].msg = log[i].msg /\ (named \/ ~Leaves(j))
          BY <5>2
        <5>4. \A k \in S : k \in Nat
          BY <1>8
        <5>5. ~\E k \in S : k < j /\ log[k].msg = log[j].msg /\ (named \/ ~Leaves(k))
          BY <5>2, <5>3, <5>4
        <5>6. j \in HistoryRefs(S, named)
          BY <5>3, <5>5 DEF HistoryRefs
        <5>. QED  BY <5>3, <5>6 DEF T, MessagesAt
      <4>. QED  BY <4>2, <4>3
    <3>. QED  BY <3>2, <3>3
  <2>3. Span(sync.from, sync.at)' = Span(sync.from, e)
    BY <1>1, <1>3 DEF Span
  <2>4. Fetched' = MessagesAt(T)
    BY <1>1, <1>3 DEF Fetched, MessagesAt
  <2>5. \A i : (Leaves(i)' <=> Leaves(i)) /\ log'[i] = log[i]
    BY <1>1 DEF Leaves
  <2>. QED  BY <1>1, <1>3, <1>7, <2>1, <2>2, <2>3, <2>4, <2>5 DEF HistoryRead
<1>15. ChangedIn(sync.at, sync.next.pos)' = ChangedIn(e, Len(log))
  BY <1>1, <1>3 DEF ChangedIn, MessagesAt, Span
<1>16. sync'.next # NoCursor /\ sync'.next.base = 0 /\ sync'.reset = FALSE
  <2>1. [pos |-> Len(log), base |-> 0] \in [pos : Nat, base : Nat]
    BY <1>6
  <2>2. sync.reset = FALSE
    BY <1>4, <1>5 DEF SyncRecord
  <2>. QED  BY <1>3, <2>1, <2>2, CursorAssumption
<1>17. last => sync'.missed = ChangedIn(e, Len(log))
  BY <1>3
<1>18. sync'.pc \in {"get", "history"} /\ (sync'.pc = "get" => last)
  BY <1>3
<1>. QED  BY <1>1, <1>4, <1>13, <1>14, <1>15, <1>16, <1>17, <1>18 DEF GmailInv


LEMMA FeedRests ==
  ASSUME sync' = IdleSync
  PROVE  ReadInv' /\ GmailInv' /\ GraphInv' /\ ImapInv'
BY DEF IdleSync, ReadInv, GmailInv, GraphInv, ImapInv

\* What is known to be gone, by a step that goes on from the same cursor.
LEMMA GoneStays ==
  ASSUME UNCHANGED log, sync'.from = sync.from
  PROVE  \A x : Of(x)' = Of(x) /\ (InFolder(x)' <=> InFolder(x)) /\ (CameBack(x)' <=> CameBack(x))
BY DEF Of, InFolder, Exists, Latest, LastOf, Placed, CameBack, Span

LEMMA FeedStartsOver ==
  ASSUME FeedInv, HistoryExpired
  PROVE  ReadInv' /\ GmailInv'
<1>1. UNCHANGED <<kind, log, cursor>>
  BY DEF HistoryExpired, Untouched
<1>2. sync \in SyncRecord /\ sync.pc = "history" /\ ReadInv /\ kind = "gmail"
  BY StagesOf DEF FeedInv, HistoryExpired
<1>3. /\ sync'.pc = "list" /\ sync'.taken = {} /\ sync'.next = NoCursor /\ sync'.reset = TRUE
      /\ sync'.horizon = Len(log) /\ sync'.first = TRUE
      /\ sync'.gone = sync.gone /\ sync'.from = sync.from
  BY <1>2 DEF HistoryExpired, SyncRecord
<1>4. Len(log) \in Nat
  BY ListFacts DEF FeedInv
<1>5. ReadInv'
  BY <1>1, <1>2, <1>3, <1>4, GoneStays DEF ReadInv
<1>6. GmailInv'
  BY <1>1, <1>3 DEF GmailInv
<1>. QED  BY <1>5, <1>6

LEMMA FeedLists ==
  ASSUME FeedInv, ListPage
  PROVE  ReadInv' /\ GmailInv'
<1>1. UNCHANGED <<kind, log, cursor>>
  BY DEF ListPage, Untouched
<1>2. /\ sync \in SyncRecord /\ sync.pc = "list" /\ ReadInv /\ kind = "gmail" /\ FeedTypeOK
      /\ sync.reset = TRUE /\ sync.next = NoCursor
  <2>1. sync \in SyncRecord /\ sync.pc = "list" /\ ReadInv /\ kind = "gmail" /\ FeedTypeOK
    BY StagesOf DEF FeedInv, ListPage
  <2>. QED  BY <2>1 DEF FeedInv, GmailInv, SyncRecord
<1> DEFINE listed == {Arrived(m) : m \in {x \in Messages : Exists(x)}}
           rest == IF sync.first THEN listed ELSE {i \in listed : i < sync.at}
<1>3. PICK k \in (IF rest = {} THEN {0} ELSE 1 .. Room) :
        LET page == LastOnes(k, rest)
            last == page = rest \/ Cardinality(page) >= Room
        IN sync' = [sync EXCEPT
             !.taken = @ \cup page, !.first = FALSE,
             !.at = IF page = {} THEN 0 ELSE Min(page),
             !.missed = IF last THEN MessagesAt(rest \ page) ELSE {},
             !.pc = IF last THEN "get" ELSE "list"]
  BY DEF ListPage
<1> DEFINE page == LastOnes(k, rest)
           last == page = rest \/ Cardinality(page) >= Room
<1>4. /\ sync'.taken = sync.taken \cup page /\ sync'.first = FALSE
      /\ sync'.at = IF page = {} THEN 0 ELSE Min(page)
      /\ sync'.missed = IF last THEN MessagesAt(rest \ page) ELSE {}
      /\ sync'.pc = IF last THEN "get" ELSE "list"
      /\ sync'.from = sync.from /\ sync'.horizon = sync.horizon /\ sync'.reset = TRUE
      /\ sync'.gone = sync.gone /\ sync'.next = NoCursor
  <2> HIDE DEF page, last, rest
  <2>1. sync' = [sync EXCEPT !.taken = @ \cup page, !.first = FALSE,
                   !.at = IF page = {} THEN 0 ELSE Min(page),
                   !.missed = IF last THEN MessagesAt(rest \ page) ELSE {},
                   !.pc = IF last THEN "get" ELSE "list"]
    BY <1>3 DEF page, last
  <2>. QED  BY <1>2, <2>1 DEF SyncRecord
<1>5. /\ DOMAIN log = 1 .. Len(log) /\ Len(log) \in Nat
      /\ listed \subseteq DOMAIN log /\ rest \subseteq listed
  BY <1>2, ListFacts
<1>6. \A m \in Messages : Exists(m) =>
        /\ Arrived(m) \in listed /\ Arrived(m) \in Of(m) /\ Arrived(m) \in DOMAIN log
        /\ Arrived(m) \notin rest => ~sync.first /\ sync.at <= Arrived(m)
  <2>. SUFFICES ASSUME NEW m \in Messages, Exists(m)
                PROVE  /\ Arrived(m) \in listed /\ Arrived(m) \in Of(m) /\ Arrived(m) \in DOMAIN log
                       /\ Arrived(m) \notin rest => ~sync.first /\ sync.at <= Arrived(m)
    OBVIOUS
  <2>1. Arrived(m) \in listed /\ Arrived(m) \in Of(m) /\ Arrived(m) \in DOMAIN log
    BY <1>2, <1>5, LogFacts
  <2>2. Arrived(m) \in Nat /\ sync.at \in Nat
    BY <1>2, <1>5, <2>1 DEF SyncRecord
  <2>. QED  BY <2>1, <2>2
<1>7. page \subseteq rest /\ \A i \in page, j \in rest : i <= j => j \in page
  <2> HIDE DEF rest, listed
  <2>1. page \subseteq rest
    BY DEF LastOnes
  <2>2. ASSUME NEW i \in page, NEW j \in rest, i <= j  PROVE j \in page
    <3> DEFINE I == {x \in rest : x > i}
               J == {x \in rest : x > j}
    <3>1. i \in Nat /\ j \in Nat /\ \A x \in rest : x \in Nat
      BY <1>5, <2>1, <2>2
    <3>2. J \subseteq I /\ I \subseteq DOMAIN log
      <4>1. \A x \in rest : x > j => x > i
        BY <2>2, <3>1
      <4>2. rest \subseteq DOMAIN log
        BY <1>5
      <4>. QED  BY <4>1, <4>2
    <3>3. IsFiniteSet(I)
      BY <1>2, <3>2, ListFacts, FS_Subset
    <3>4. Cardinality(J) <= Cardinality(I) /\ Cardinality(J) \in Nat /\ Cardinality(I) \in Nat
      BY <3>2, <3>3, FS_Subset, FS_CardinalityType
    <3>5. Cardinality(I) < k
      BY <2>2 DEF LastOnes
    <3>6. k \in Int
      BY <1>3
    <3>7. Cardinality(J) < k
      <4> HIDE DEF I, J
      <4>. QED  BY <3>4, <3>5, <3>6
    <3>. QED  BY <2>2, <3>7 DEF LastOnes
  <2>. QED  BY <2>1, <2>2
<1>8. page = {} => rest = {}
  <2> HIDE DEF listed
  <2>. SUFFICES ASSUME rest # {}  PROVE page # {}
    OBVIOUS
  <2> HIDE DEF rest
  <2>1. rest \in SUBSET Nat /\ IsFiniteSet(rest)
    <3>1. rest \subseteq DOMAIN log
      BY <1>5
    <3>. QED  BY <1>2, <1>5, <3>1, ListFacts, FS_Subset
  <2>2. Max(rest) \in rest /\ \A x \in rest : x <= Max(rest)
    BY <2>1, MaxOf
  <2>3. {x \in rest : x > Max(rest)} = {}
    <3>1. \A x \in rest : x \in Nat /\ Max(rest) \in Nat
      BY <2>1, <2>2
    <3>2. \A x \in rest : ~(x > Max(rest))
      BY <2>2, <3>1
    <3>. QED  BY <3>2
  <2>4. Cardinality({x \in rest : x > Max(rest)}) = 0
    BY <2>3, FS_EmptySet
  <2>5. k > 0
    BY <1>3
  <2>. QED  BY <2>2, <2>4, <2>5 DEF LastOnes
<1>9. page # {} => Min(page) \in page /\ Min(page) \in Nat
  <2> HIDE DEF listed, rest, page
  <2>1. page \subseteq DOMAIN log
    BY <1>5, <1>7
  <2>2. page \in SUBSET Nat /\ IsFiniteSet(page)
    BY <1>2, <1>5, <2>1, ListFacts, FS_Subset
  <2>. QED  BY <2>2, MinOf
<1> HIDE DEF listed, rest, page, last
<1>10. ReadInv'
  <2>1. page \subseteq DOMAIN log
    BY <1>5, <1>7
  <2>. QED  BY <1>1, <1>2, <1>4, <2>1, GoneStays DEF ReadInv
<1>11. \A m \in Messages : /\ (Still(m)' <=> Still(m)) /\ Arrived(m)' = Arrived(m)
                           /\ Still(m) => Exists(m)
  BY <1>1, <1>4, LogKept DEF Still
<1>12. \A m \in Messages : Still(m) /\ Arrived(m) \notin rest => Arrived(m) \in sync.taken
  BY <1>2, <1>6, <1>11 DEF FeedInv, GmailInv
<1>13. ASSUME NEW m \in Messages, Still(m), sync'.at <= Arrived(m)  PROVE Arrived(m) \in sync'.taken
  <2>1. CASE Arrived(m) \notin rest
    BY <1>4, <1>12, <1>13, <2>1
  <2>2. CASE Arrived(m) \in rest
    <3>1. page # {}
      BY <1>8, <2>2
    <3>2. Min(page) \in page /\ Min(page) <= Arrived(m)
      BY <1>4, <1>9, <1>13, <3>1
    <3>3. Arrived(m) \in page
      BY <1>7, <2>2, <3>2
    <3>. QED  BY <1>4, <3>3
  <2>. QED  BY <2>1, <2>2
<1>14. ASSUME NEW m \in Messages, Still(m), last  PROVE m \in Fetched' \cup sync'.missed
  <2>1. log[Arrived(m)].msg = m
    BY <1>6, <1>11, <1>14 DEF Of
  <2>2. CASE Arrived(m) \in sync.taken \cup page
    BY <1>1, <1>4, <2>1, <2>2 DEF Fetched, MessagesAt
  <2>3. CASE Arrived(m) \notin sync.taken \cup page
    <3>1. Arrived(m) \in rest \ page
      BY <1>12, <1>14, <2>3
    <3>2. m \in MessagesAt(rest \ page)
      BY <2>1, <3>1 DEF MessagesAt
    <3>. QED  BY <1>4, <1>14, <3>2
  <2>. QED  BY <2>2, <2>3
<1>15. sync'.pc \in {"get", "list"} /\ (sync'.pc = "get" => last)
  BY <1>4
<1>16. GmailInv'
  BY <1>1, <1>2, <1>4, <1>11, <1>13, <1>14, <1>15 DEF GmailInv
<1>. QED  BY <1>10, <1>16

LEMMA FeedGets ==
  ASSUME FeedInv, GetMessages
  PROVE  ReadInv' /\ GmailInv'
<1>1. UNCHANGED <<kind, log, cursor>>
  BY DEF GetMessages, Untouched
<1>2. sync \in SyncRecord /\ sync.pc = "get" /\ ReadInv /\ kind = "gmail" /\ GmailInv
  BY StagesOf DEF FeedInv, GetMessages
<1>3. CASE Unreadable
  BY <1>3, FeedRests DEF GetMessages
<1>4. CASE ~Unreadable
  <2>1. /\ sync'.pc = IF sync.next = NoCursor THEN "profile" ELSE "apply"
        /\ sync'.from = sync.from /\ sync'.at = sync.at /\ sync'.horizon = sync.horizon
        /\ sync'.taken = sync.taken /\ sync'.gone = sync.gone /\ sync'.next = sync.next
        /\ sync'.reset = sync.reset /\ sync'.missed = sync.missed
    BY <1>2, <1>4 DEF GetMessages, SyncRecord
  <2>2. ReadInv'
    BY <1>1, <1>2, <2>1, GoneStays DEF ReadInv
  <2>3. /\ Fetched' = Fetched /\ ToGet' = ToGet /\ (HistoryRead' <=> HistoryRead)
        /\ ChangedIn(sync.at, sync.next.pos)' = ChangedIn(sync.at, sync.next.pos)
    BY <1>1, <2>1 DEF Fetched, ToGet, HistoryRead, ChangedIn, MessagesAt, Span, Leaves
  <2>4. \A m \in Messages : (Still(m)' <=> Still(m)) /\ Exists(m)' = Exists(m)
    BY <1>1, <2>1, LogKept DEF Still
  <2>5. ToGet \subseteq Messages
    BY <1>2, FeedMessages DEF FeedInv, ReadInv, ToGet
  <2>6. \A m \in ToGet : Exists(m)
    BY <1>2, <1>4 DEF Unreadable
  <2>7. CASE sync.reset
    <3>1. sync.next = NoCursor /\ \A m \in Messages : Still(m) => m \in Fetched \cup sync.missed
      BY <1>2, <2>7 DEF GmailInv
    <3>2. sync'.pc = "profile"
      BY <2>1, <3>1
    <3>. QED  BY <1>1, <2>1, <2>2, <2>3, <2>4, <2>5, <2>6, <2>7, <3>1, <3>2 DEF GmailInv
  <2>8. CASE ~sync.reset
    <3>1. /\ HistoryRead /\ sync.next # NoCursor /\ sync.next.base = 0
          /\ ChangedIn(sync.at, sync.next.pos) \subseteq sync.missed
      BY <1>2, <2>8 DEF GmailInv
    <3>2. sync'.pc = "apply"
      BY <2>1, <3>1
    <3>. QED  BY <1>1, <2>1, <2>2, <2>3, <2>8, <3>1, <3>2 DEF GmailInv
  <2>. QED  BY <2>7, <2>8
<1>. QED  BY <1>3, <1>4

LEMMA FeedReadsProfile ==
  ASSUME FeedInv, ReadProfile
  PROVE  ReadInv' /\ GmailInv'
<1>1. UNCHANGED <<kind, log, cursor>>
  BY DEF ReadProfile, Untouched
<1>2. sync \in SyncRecord /\ sync.pc = "profile" /\ ReadInv /\ kind = "gmail" /\ GmailInv /\ FeedTypeOK
  BY StagesOf DEF FeedInv, ReadProfile
<1>3. sync.reset /\ \A m \in Messages : Still(m) => m \in Fetched \cup sync.missed
  BY <1>2 DEF GmailInv
<1>4. Len(log) \in Nat /\ DOMAIN log = 1 .. Len(log)
  BY <1>2, ListFacts
<1>5. /\ sync'.pc = "apply" /\ sync'.next = [pos |-> Len(log), base |-> 0]
      /\ sync'.missed = sync.missed \cup ChangedIn(sync.horizon, Len(log))
      /\ sync'.from = sync.from /\ sync'.horizon = sync.horizon /\ sync'.reset = sync.reset
      /\ sync'.taken = sync.taken /\ sync'.gone = sync.gone
  BY <1>2 DEF ReadProfile, SyncRecord
<1>6. sync'.next # NoCursor
  <2>1. [pos |-> Len(log), base |-> 0] \in [pos : Nat, base : Nat]
    BY <1>4
  <2>. QED  BY <1>5, <2>1, CursorAssumption
<1>7. ReadInv'
  BY <1>1, <1>2, <1>4, <1>5, GoneStays DEF ReadInv
<1>8. /\ Fetched' = Fetched /\ ToGet' = ToGet
      /\ ChangedIn(sync.horizon, sync.next.pos)' = ChangedIn(sync.horizon, Len(log))
  BY <1>1, <1>5 DEF Fetched, ToGet, ChangedIn, MessagesAt, Span
<1>9. \A m \in Messages : (Still(m)' <=> Still(m)) /\ Exists(m)' = Exists(m) /\ LastOf(m)' = LastOf(m)
  BY <1>1, <1>5, LogKept DEF Still
<1>10. ToGet \subseteq Messages
  BY <1>2, FeedMessages DEF ReadInv, ToGet
<1>11. ASSUME NEW m \in ToGet, ~Exists(m)  PROVE m \in ChangedIn(sync.horizon, Len(log))
  <2>1. m \in Messages /\ sync.horizon < LastOf(m)
    BY <1>2, <1>10, <1>11 DEF GmailInv
  <2>2. LastOf(m) \in Of(m)
    <3>1. sync.horizon \in Nat /\ LastOf(m) \in Nat
      BY <1>2, <1>4, <2>1, LogFacts DEF SyncRecord
    <3>. QED  BY <1>2, <2>1, <3>1, LogFacts
  <2>3. LastOf(m) \in Span(sync.horizon, Len(log)) /\ log[LastOf(m)].msg = m
    BY <1>2, <1>4, <2>1, <2>2, LogFacts DEF Span
  <2>. QED  BY <2>3 DEF ChangedIn, MessagesAt
<1>12. GmailInv'
  BY <1>1, <1>2, <1>3, <1>5, <1>6, <1>8, <1>9, <1>10, <1>11 DEF GmailInv
<1>. QED  BY <1>7, <1>12


LEMMA FeedReadsDelta ==
  ASSUME FeedInv, DeltaPage
  PROVE  ReadInv' /\ GraphInv'
<1>1. UNCHANGED <<kind, log, cursor>>
  BY DEF DeltaPage, Untouched
<1>2. sync \in SyncRecord /\ sync.pc = "delta" /\ ReadInv /\ kind = "graph" /\ GraphInv /\ FeedTypeOK
  BY StagesOf DEF FeedInv, DeltaPage
<1>3. PICK e \in PageEnds(Limit) :
        LET items == DeltaItems(Span(sync.at, e))
            present == {i \in items : InFolder(log[i].msg)}
            taken == sync.taken \cup FirstOf(Room, present)
            last == e = Len(log) \/ Cardinality(taken) >= Limit
        IN sync' = [sync EXCEPT
             !.at = e, !.first = FALSE, !.taken = taken,
             !.gone = @ \cup MessagesAt({i \in items \ present : i > sync.horizon}),
             !.missed = @ \cup MessagesAt(present \ taken),
             !.next = IF last THEN DeltaLink(e) ELSE NoCursor,
             !.pc = IF last THEN "apply" ELSE "delta"]
  BY DEF DeltaPage
<1> DEFINE items == DeltaItems(Span(sync.at, e))
           present == {i \in items : InFolder(log[i].msg)}
           T == sync.taken \cup FirstOf(Room, present)
           G == sync.gone \cup MessagesAt({i \in items \ present : i > sync.horizon})
           M == sync.missed \cup MessagesAt(present \ T)
           last == e = Len(log) \/ Cardinality(T) >= Limit
<1>4. /\ sync'.at = e /\ sync'.first = FALSE /\ sync'.taken = T /\ sync'.gone = G /\ sync'.missed = M
      /\ sync'.next = IF last THEN DeltaLink(e) ELSE NoCursor
      /\ sync'.pc = IF last THEN "apply" ELSE "delta"
      /\ sync'.from = sync.from /\ sync'.horizon = sync.horizon /\ sync'.reset = sync.reset
  <2> HIDE DEF items, present, T, G, M, last
  <2>1. sync' = [sync EXCEPT !.at = e, !.first = FALSE, !.taken = T, !.gone = G, !.missed = M,
                   !.next = IF last THEN DeltaLink(e) ELSE NoCursor,
                   !.pc = IF last THEN "apply" ELSE "delta"]
    BY <1>3 DEF items, present, T, G, M, last
  <2>. QED  BY <1>2, <2>1 DEF SyncRecord
<1>5. DOMAIN log = 1 .. Len(log) /\ Len(log) \in Nat
  BY <1>2, ListFacts
<1>6. /\ sync.from \in Nat /\ sync.at \in Nat /\ sync.horizon \in Nat /\ sync.from <= sync.at
      /\ e \in Nat /\ sync.at <= e /\ e <= Len(log) /\ sync.horizon <= Len(log)
  BY <1>2, <1>5 DEF SyncRecord, GraphInv, ReadInv, PageEnds
<1>7. items \subseteq DOMAIN log /\ \A i \in items : i \in Nat /\ sync.at < i /\ i <= e
  BY <1>5 DEF DeltaItems, Span
<1>8. /\ present \subseteq items
      /\ \A i \in items : i \in present <=> InFolder(log[i].msg)
  OBVIOUS
<1> HIDE DEF items, present
<1>9. FirstOf(Room, present) \subseteq present /\ T \subseteq DOMAIN log /\ sync.taken \subseteq DOMAIN log
  BY <1>2, <1>7, <1>8 DEF FirstOf, ReadInv
<1>10. ASSUME NEW x \in G
       PROVE  (\E i \in Of(x) : sync.from < i) /\ (InFolder(x) => CameBack(x))
  <2>1. CASE x \in sync.gone
    BY <1>2, <2>1 DEF ReadInv
  <2>2. CASE x \in MessagesAt({i \in items \ present : i > sync.horizon})
    <3>1. PICK i \in items \ present : log[i].msg = x
      BY <2>2 DEF MessagesAt
    <3>. QED  BY <1>6, <1>7, <1>8, <3>1 DEF Of
  <2>. QED  BY <2>1, <2>2
<1>11. (DeltaLink(e) \in [pos : Nat, base : Nat]) /\ DeltaLink(e).pos <= Len(log) /\ DeltaLink(e).base <= Len(log)
  BY <1>5, <1>6 DEF DeltaLink
<1>12. ReadInv'
  <2>1. /\ sync.from <= Len(log) /\ sync.horizon <= Len(log)
        /\ ~sync.reset => cursor # NoCursor /\ sync.from = cursor.pos
    BY <1>2 DEF ReadInv
  <2> HIDE DEF T, G, M, last
  <2>. QED  BY <1>1, <1>4, <1>9, <1>10, <1>11, <2>1, GoneStays DEF ReadInv
<1>13. ASSUME NEW m \in Messages, sync.from < LastOf(m), LastOf(m) <= e
       PROVE  /\ InFolder(m) => m \in MessagesAt(T) \cup M
              /\ ~Exists(m) /\ sync.horizon < LastOf(m) => m \in G
  <2>1. LastOf(m) \in Nat /\ LastOf(m) \in Of(m) /\ log[LastOf(m)].msg = m /\ \A i \in Of(m) : i <= LastOf(m)
    <3>1. LastOf(m) \in Nat
      BY <1>2, <1>5, LogFacts
    <3>. QED  BY <1>2, <1>6, <1>13, <3>1, LogFacts
  <2>2. CASE LastOf(m) <= sync.at
    <3>1. /\ InFolder(m) => m \in Fetched \cup sync.missed
          /\ ~Exists(m) /\ sync.horizon < LastOf(m) => m \in sync.gone
      BY <1>2, <1>13, <2>2 DEF GraphInv
    <3>. QED  BY <3>1 DEF Fetched, MessagesAt
  <2>3. CASE ~(LastOf(m) <= sync.at)
    <3>1. LastOf(m) \in items
      <4>1. LastOf(m) \in Span(sync.at, e) /\ LastOf(m) \in DOMAIN log
        BY <1>2, <1>6, <1>13, <2>1, <2>3, LogFacts DEF Span
      <4>2. ~\E j \in Span(sync.at, e) : j > LastOf(m) /\ log[j].msg = m
        <5>1. \A j \in Span(sync.at, e) : log[j].msg = m => j \in Of(m) /\ j \in Nat
          BY <1>5 DEF Span, Of
        <5>. QED  BY <2>1, <5>1
      <4>. QED  BY <2>1, <4>1, <4>2 DEF items, DeltaItems
    <3>2. InFolder(m) => m \in MessagesAt(T) \cup M
      BY <1>8, <2>1, <3>1 DEF M, MessagesAt
    <3>3. ~Exists(m) /\ sync.horizon < LastOf(m) => m \in G
      <4>1. InFolder(m) => Exists(m)
        BY <1>2, LogFacts
      <4>. QED  BY <1>6, <1>8, <2>1, <3>1, <4>1 DEF G, MessagesAt
    <3>. QED  BY <3>2, <3>3
  <2>. QED  BY <2>2, <2>3
<1>14. ASSUME NEW m \in MessagesAt(T)  PROVE Exists(m) \/ sync.horizon < LastOf(m)
  <2>1. CASE m \in MessagesAt(sync.taken)
    BY <1>2, <2>1 DEF GraphInv, Fetched
  <2>2. CASE m \in MessagesAt(present)
    <3>1. m \in Messages /\ InFolder(m)
      BY <1>2, <1>7, <1>8, <2>2, FeedMessages DEF MessagesAt
    <3>. QED  BY <1>2, <3>1, LogFacts
  <2>. QED  BY <1>9, <1>14, <2>1, <2>2 DEF MessagesAt
<1>15. \A t \in T : sync.from < t
  BY <1>2, <1>6, <1>7, <1>8, <1>9 DEF GraphInv
<1>16. Fetched' = MessagesAt(T) /\ DeltaLink(sync.at)' = DeltaLink(e)
  BY <1>1, <1>4 DEF Fetched, MessagesAt, DeltaLink
<1>17. /\ sync.reset => sync.from = 0
       /\ ~sync.reset => sync.horizon = cursor.base
  BY <1>2 DEF GraphInv
<1>18. \A m \in Messages : LastOf(m)' = LastOf(m) /\ Exists(m)' = Exists(m) /\ InFolder(m)' = InFolder(m)
  BY <1>1, LogKept
<1>19. MessagesAt(T) \subseteq Messages
  BY <1>2, <1>9, FeedMessages
<1>20. sync'.pc \in {"delta", "apply"} /\ (sync'.pc = "apply" => sync'.next = DeltaLink(e))
  BY <1>4
<1> HIDE DEF T, G, M, last
<1>21. \A m \in MessagesAt(T) : Exists(m)' \/ sync.horizon < LastOf(m)'
  BY <1>14, <1>18, <1>19
<1>22. GraphInv'
  BY <1>1, <1>4, <1>6, <1>13, <1>15, <1>16, <1>17, <1>18, <1>20, <1>21 DEF GraphInv
<1>. QED  BY <1>12, <1>22

LEMMA FeedDeltaAgain ==
  ASSUME FeedInv, DeltaExpired
  PROVE  ReadInv' /\ GraphInv'
<1>1. UNCHANGED <<kind, log, cursor>>
  BY DEF DeltaExpired, Untouched
<1>2. /\ sync \in SyncRecord /\ sync.pc = "delta" /\ sync.first /\ kind = "graph"
      /\ ReadInv /\ GraphInv /\ FeedTypeOK
  BY StagesOf DEF FeedInv, DeltaExpired
<1>3. sync.taken = {} /\ sync.gone = {}
  BY <1>2 DEF GraphInv
<1>4. /\ sync'.pc = "delta" /\ sync'.from = 0 /\ sync'.at = 0 /\ sync'.horizon = Len(log)
      /\ sync'.reset = TRUE /\ sync'.taken = {} /\ sync'.gone = {} /\ sync'.next = sync.next
  BY <1>2, <1>3 DEF DeltaExpired, SyncRecord
<1>5. Len(log) \in Nat
  BY <1>2, ListFacts
<1>6. ReadInv'
  BY <1>1, <1>2, <1>4, <1>5 DEF ReadInv
<1>7. Fetched' = {}
  BY <1>4 DEF Fetched, MessagesAt
<1>8. \A m \in Messages : ~(0 < LastOf(m)' /\ LastOf(m)' <= 0)
  <2>1. \A m \in Messages : LastOf(m)' \in Nat
    BY <1>1, <1>2, <1>5, LogKept, LogFacts
  <2>. QED  BY <2>1
<1>9. GraphInv'
  BY <1>1, <1>4, <1>5, <1>7, <1>8 DEF GraphInv
<1>. QED  BY <1>6, <1>9

LEMMA FeedSearches ==
  ASSUME FeedInv, SearchFolder
  PROVE  ReadInv' /\ ImapInv'
<1>1. UNCHANGED <<kind, log, cursor>>
  BY DEF SearchFolder, Untouched
<1>2. /\ sync \in SyncRecord /\ sync.pc = "search" /\ Imap
      /\ ReadInv /\ ImapInv /\ CursorInv /\ FeedTypeOK
  BY StagesOf DEF FeedInv, SearchFolder
<1>3. PICK found \in SUBSET Uids, taken \in SUBSET Uids, last \in 0 .. Len(log) :
           /\ taken \subseteq found
           /\ found = CASE Renumbered -> Uids
                        [] ~Renumbered /\ kind = "imap" -> Beyond(cursor.pos)
                        [] ~Renumbered /\ kind = "condstore" -> {u \in Uids : LastOf(log[u].msg) > cursor.base}
           /\ ~Renumbered => last = cursor.pos
           /\ Max(taken \cup {last}) \in 0 .. Len(log)
           /\ sync' = [sync EXCEPT !.pc = "fetch", !.taken = taken,
                         !.missed = MessagesAt(found \ taken), !.reset = Renumbered,
                         !.next = [pos |-> Max(taken \cup {last}), base |-> HighestModseq]]
  BY <1>2, SearchFacts
<1>4. /\ sync'.pc = "fetch" /\ sync'.taken = taken /\ sync'.missed = MessagesAt(found \ taken)
      /\ sync'.reset = Renumbered
      /\ sync'.next = [pos |-> Max(taken \cup {last}), base |-> HighestModseq]
      /\ sync'.from = sync.from /\ sync'.horizon = sync.horizon /\ sync'.gone = sync.gone
  BY <1>2, <1>3 DEF SyncRecord
<1>5. Len(log) \in Nat /\ DOMAIN log = 1 .. Len(log) /\ Uids \subseteq DOMAIN log
  BY <1>2, ListFacts
<1>6. HighestModseq \in 0 .. Len(log) /\ sync'.next \in [pos : Nat, base : Nat]
  BY <1>3, <1>4, <1>5 DEF HighestModseq
<1>7. sync'.next # NoCursor
  BY <1>6, CursorAssumption
<1>8. sync.gone = {}
  BY <1>2 DEF ImapInv
<1>9. ~Renumbered => cursor # NoCursor /\ sync.from = cursor.pos
  BY <1>2 DEF Renumbered, ReadInv, ImapInv
<1>10. ReadInv'
  <2>1. sync'.taken \subseteq DOMAIN log' /\ sync'.gone = {}
    BY <1>1, <1>3, <1>4, <1>5, <1>8
  <2>2. sync'.from <= Len(log') /\ sync'.horizon <= Len(log')
    BY <1>1, <1>2, <1>4 DEF ReadInv
  <2>3. sync'.next.pos <= Len(log') /\ sync'.next.base <= Len(log')
    BY <1>1, <1>3, <1>4, <1>5, <1>6
  <2>4. ~sync'.reset => cursor' # NoCursor /\ sync'.from = cursor'.pos
    BY <1>1, <1>4, <1>9
  <2>. QED  BY <2>1, <2>2, <2>3, <2>4 DEF ReadInv
<1>11. ASSUME NEW m \in Messages, InFolder(m)
       PROVE  /\ Arrived(m) \in Uids /\ Arrived(m) \in Nat /\ LastOf(m) \in Nat
              /\ log[Arrived(m)].msg = m
              /\ Arrived(m) \in found => m \in MessagesAt(taken) \cup MessagesAt(found \ taken)
  <2>1. Arrived(m) \in Uids
    BY <1>11 DEF Uids
  <2>2. Arrived(m) \in Of(m) /\ LastOf(m) \in Nat
    BY <1>2, <1>5, <1>11, LogFacts
  <2>. QED  BY <1>5, <2>1, <2>2 DEF Of, MessagesAt
<1>12. ASSUME Renumbered  PROVE found = Uids
  BY <1>3, <1>12
<1>13. ASSUME ~Renumbered, kind = "imap", NEW m \in Messages, InFolder(m), Arrived(m) \notin found
       PROVE  Arrived(m) <= cursor.pos
  <2>1. found = Beyond(cursor.pos)
    BY <1>3, <1>13
  <2>2. cursor.pos \in Nat
    BY <1>2, <1>9, <1>13 DEF FeedTypeOK, Cursor
  <2>3. Arrived(m) \in Uids /\ Arrived(m) \in Nat
    BY <1>11, <1>13
  <2>4. ~(Arrived(m) > cursor.pos)
    BY <1>13, <2>1, <2>3 DEF Beyond
  <2>. QED  BY <2>2, <2>3, <2>4
<1>14. ASSUME ~Renumbered, kind = "condstore", NEW m \in Messages, InFolder(m), Arrived(m) \notin found
       PROVE  LastOf(m) <= cursor.base
  <2>1. found = {u \in Uids : LastOf(log[u].msg) > cursor.base}
    BY <1>3, <1>14
  <2>2. cursor.base \in Nat
    BY <1>2, <1>9, <1>14 DEF FeedTypeOK, Cursor
  <2>3. Arrived(m) \in Uids /\ LastOf(m) \in Nat /\ log[Arrived(m)].msg = m
    BY <1>11, <1>14
  <2>4. ~(LastOf(m) > cursor.base)
    BY <1>14, <2>1, <2>3
  <2>. QED  BY <2>2, <2>3, <2>4
<1>15. Fetched' = MessagesAt(taken)
  BY <1>1, <1>4 DEF Fetched, MessagesAt
<1>16. \A m \in Messages : LastOf(m)' = LastOf(m) /\ Arrived(m)' = Arrived(m) /\ InFolder(m)' = InFolder(m)
  BY <1>1, LogKept
<1>17. ASSUME NEW m \in Messages, InFolder(m), m \notin MessagesAt(taken) \cup MessagesAt(found \ taken)
       PROVE  /\ ~Renumbered
              /\ kind = "imap" => Arrived(m) <= cursor.pos
              /\ kind = "condstore" => LastOf(m) <= cursor.base
  <2>1. Arrived(m) \notin found /\ Arrived(m) \in Uids
    BY <1>11, <1>17
  <2>2. ~Renumbered
    BY <1>12, <2>1
  <2>. QED  BY <1>13, <1>14, <1>17, <2>1, <2>2
<1>18. ImapInv'
  BY <1>1, <1>4, <1>7, <1>8, <1>15, <1>16, <1>17 DEF ImapInv
<1>. QED  BY <1>10, <1>18

LEMMA FeedFetches ==
  ASSUME FeedInv, FetchMessages
  PROVE  ReadInv' /\ ImapInv'
<1>1. UNCHANGED <<kind, log, cursor>>
  BY DEF FetchMessages, Untouched
<1>2. sync \in SyncRecord /\ sync.pc = "fetch" /\ ReadInv /\ ImapInv /\ Imap
  BY StagesOf DEF FeedInv, FetchMessages
<1>3. CASE Vanished
  BY <1>3, FeedRests DEF FetchMessages
<1>4. CASE ~Vanished
  <2>1. /\ sync'.pc = "apply" /\ sync'.from = sync.from /\ sync'.horizon = sync.horizon
        /\ sync'.taken = sync.taken /\ sync'.gone = sync.gone /\ sync'.next = sync.next
        /\ sync'.reset = sync.reset /\ sync'.missed = sync.missed
    BY <1>2, <1>4 DEF FetchMessages, SyncRecord
  <2>2. ReadInv'
    BY <1>1, <1>2, <2>1, GoneStays DEF ReadInv
  <2>3. Fetched' = Fetched
    BY <1>1, <2>1 DEF Fetched, MessagesAt
  <2>4. \A m \in Messages : LastOf(m)' = LastOf(m) /\ Arrived(m)' = Arrived(m) /\ InFolder(m)' = InFolder(m)
    BY <1>1, LogKept
  <2>5. ImapInv'
    BY <1>1, <1>2, <2>1, <2>3, <2>4 DEF ImapInv
  <2>. QED  BY <2>2, <2>5
<1>. QED  BY <1>3, <1>4


-----------------------------------------------------------------------------
(* The page is stored. What a connector says of a message is then true of   *)
(* the store, or the message is among those it could not account for.       *)

\* How the store and the excuses change.
LEMMA Applied ==
  ASSUME FeedInv, ApplyPage,
         NEW messages, messages = IF kind = "gmail" THEN ToGet ELSE Fetched
  PROVE  /\ UNCHANGED <<kind, log>> /\ cursor' = sync.next
         /\ messages \cap sync.gone = {} \/ kind # "gmail"
         /\ \A m \in stored \cup messages : m \in sync.gone \/ m \in stored'
         /\ \A m \in stored' : m \notin sync.gone /\ m \in stored \cup messages
         /\ \A m \in excused : m \notin messages \cup sync.gone => m \in excused'
         /\ \A m \in sync.missed : m \in excused'
         /\ \A m \in sync.gone : CameBack(m) => m \in excused'
         /\ sync.reset => \A m \in stored \ messages : m \in excused'
<1>1. stored' = (stored \cup messages) \ sync.gone
  BY DEF ApplyPage, Merged, Fetched
<1>2. excused' = (excused \ (messages \cup sync.gone)) \cup sync.missed \cup Returned
                  \cup IF sync.reset THEN stored \ messages ELSE {}
  BY DEF ApplyPage, Fetched
<1>3. \A m \in sync.gone : CameBack(m) => m \in Returned
  BY DEF CameBack, Returned
<1>. QED  BY <1>1, <1>2, <1>3 DEF ApplyPage, ToGet

\* What a synchronisation took for gone is accounted for, wherever it is now.
LEMMA GoneIsAccounted ==
  ASSUME FeedInv, ApplyPage, NEW m \in sync.gone
  PROVE  InFolder(m) => m \in excused'
<1>1. CameBack(m) \/ ~InFolder(m)
  BY DEF FeedInv, ReadInv, ApplyPage
<1>. QED  BY <1>1, Applied DEF Fetched

\* What the cursor had passed before stays accounted for.
LEMMA StaysCovered ==
  ASSUME FeedInv, ApplyPage, NEW m \in Messages, InFolder(m),
         m \in stored \cup excused \/ m \in (IF kind = "gmail" THEN ToGet ELSE Fetched) \/ m \in sync.missed
  PROVE  m \in stored' \cup excused'
<1> DEFINE messages == IF kind = "gmail" THEN ToGet ELSE Fetched
<1>1. /\ \A x \in stored \cup messages : x \in sync.gone \/ x \in stored'
      /\ \A x \in excused : x \notin messages \cup sync.gone => x \in excused'
      /\ \A x \in sync.missed : x \in excused'
  <2>1. messages = IF kind = "gmail" THEN ToGet ELSE Fetched
    OBVIOUS
  <2> HIDE DEF messages
  <2>. QED  BY <2>1, Applied
<1>2. m \in sync.gone => m \in excused'
  BY GoneIsAccounted
<1>. QED  BY <1>1, <1>2

LEMMA GmailApplies ==
  ASSUME FeedInv, ApplyPage, kind = "gmail"
  PROVE  /\ sync.next # NoCursor /\ sync.next.base = 0
         /\ \A m \in Messages : InFolder(m) /\ LastOf(m) <= sync.next.pos => m \in stored' \cup excused'
         /\ \A m \in stored' : Of(m) # {} /\ ~Exists(m) /\ LastOf(m) <= sync.next.pos => m \in excused'
<1>1. /\ sync \in SyncRecord /\ sync.pc = "apply" /\ ReadInv /\ GmailInv /\ CursorInv /\ FeedTypeOK
      /\ ~Imap
  BY StagesOf DEF FeedInv, ApplyPage, Imap
<1>2. sync.next # NoCursor /\ sync.next.base = 0
  BY <1>1 DEF GmailInv
<1>3. DOMAIN log = 1 .. Len(log) /\ Len(log) \in Nat
  BY <1>1, ListFacts
<1>4. /\ sync.next.pos \in Nat /\ sync.next.pos <= Len(log) /\ sync.from \in Nat /\ sync.at \in Nat /\ sync.horizon \in Nat
      /\ sync.taken \subseteq DOMAIN log
  BY <1>1, <1>2 DEF SyncRecord, Cursor, ReadInv
<1>5. \A m \in Messages : Of(m) # {} =>
        /\ LastOf(m) \in DOMAIN log /\ LastOf(m) \in Nat /\ log[LastOf(m)].msg = m /\ LastOf(m) <= Len(log)
        /\ \A a \in Nat : a < LastOf(m) /\ LastOf(m) <= sync.next.pos => m \in ChangedIn(a, sync.next.pos)
  <2>. SUFFICES ASSUME NEW m \in Messages, Of(m) # {}
                PROVE  /\ LastOf(m) \in DOMAIN log /\ LastOf(m) \in Nat /\ log[LastOf(m)].msg = m /\ LastOf(m) <= Len(log)
                       /\ \A a \in Nat : a < LastOf(m) /\ LastOf(m) <= sync.next.pos => m \in ChangedIn(a, sync.next.pos)
    OBVIOUS
  <2>1. LastOf(m) \in DOMAIN log /\ LastOf(m) \in Nat /\ log[LastOf(m)].msg = m /\ LastOf(m) <= Len(log)
    BY <1>1, <1>3, LogFacts
  <2>. QED  BY <2>1 DEF ChangedIn, Span, MessagesAt
<1>6. ASSUME NEW m \in Messages, Of(m) # {}, LastOf(m) <= sync.next.pos, ~sync.reset
      PROVE  \/ LastOf(m) <= sync.from
             \/ sync.from < LastOf(m) /\ IF Leaves(LastOf(m)) THEN m \in sync.gone ELSE m \in Fetched
             \/ m \in sync.missed
  <2>1. HistoryRead /\ ChangedIn(sync.at, sync.next.pos) \subseteq sync.missed
    BY <1>1, <1>6 DEF GmailInv
  <2>2. LastOf(m) \in Nat /\ LastOf(m) \in DOMAIN log /\ log[LastOf(m)].msg = m
    BY <1>5, <1>6
  <2>3. CASE sync.from < LastOf(m) /\ LastOf(m) <= sync.at
    <3>1. LastOf(m) \in Span(sync.from, sync.at)
      BY <2>2, <2>3 DEF Span
    <3>. QED  BY <2>1, <2>2, <2>3, <3>1 DEF HistoryRead
  <2>4. CASE sync.at < LastOf(m)
    BY <1>4, <1>5, <1>6, <2>1, <2>4
  <2>. QED  BY <1>4, <2>2, <2>3, <2>4
<1>7. ASSUME NEW m \in Messages, InFolder(m), LastOf(m) <= sync.next.pos
      PROVE  m \in stored' \cup excused'
  <2>1. Of(m) # {} /\ Exists(m)
    BY <1>1, <1>7, LogFacts
  <2>2. m \in sync.gone => m \in excused'
    BY <1>7, GoneIsAccounted
  <2>3. m \in Fetched => m \in ToGet \/ m \in sync.gone
    BY DEF Fetched, ToGet
  <2>4. CASE ~sync.reset
    <3>1. LastOf(m) <= sync.from => m \in stored \cup excused
      <4>1. cursor # NoCursor /\ sync.from = cursor.pos
        BY <1>1, <2>4 DEF ReadInv
      <4>. QED  BY <1>1, <1>7, <4>1 DEF CursorInv, Covered
    <3>2. m \in stored \cup excused \/ m \in sync.gone \/ m \in ToGet \/ m \in sync.missed
      BY <1>6, <1>7, <2>1, <2>3, <2>4, <3>1
    <3>. QED  BY <1>7, <2>2, <3>2, StaysCovered
  <2>5. CASE sync.reset
    <3>1. CASE LastOf(m) <= sync.horizon
      <4>1. m \in Fetched \cup sync.missed
        BY <1>1, <2>1, <2>5, <3>1 DEF GmailInv, Still
      <4>. QED  BY <1>7, <2>2, <2>3, <4>1, StaysCovered
    <3>2. CASE ~(LastOf(m) <= sync.horizon)
      <4>1. m \in ChangedIn(sync.horizon, sync.next.pos)
        BY <1>4, <1>5, <1>7, <2>1, <3>2
      <4>2. m \in sync.missed
        BY <1>1, <2>5, <4>1 DEF GmailInv
      <4>. QED  BY <1>7, <4>2, StaysCovered
    <3>. QED  BY <3>1, <3>2
  <2>. QED  BY <2>4, <2>5
<1>8. ASSUME NEW m \in stored', Of(m) # {}, ~Exists(m), LastOf(m) <= sync.next.pos
      PROVE  m \in excused'
  <2>1. /\ m \notin sync.gone /\ m \in stored \cup ToGet
        /\ m \in excused /\ m \notin ToGet => m \in excused'
        /\ m \in sync.missed => m \in excused'
        /\ sync.reset /\ m \notin ToGet => m \in excused'
    BY <1>8, Applied
  <2>2. m \in Messages
    <3>1. ToGet \subseteq Messages
      BY <1>1, <1>4, FeedMessages DEF ToGet
    <3>. QED  BY <1>1, <2>1, <3>1 DEF FeedTypeOK
  <2>3. Leaves(LastOf(m))
    BY <1>1, <1>8, <2>2, LogFacts DEF Leaves
  <2>4. CASE ~sync.reset
    <3>1. HistoryRead
      BY <1>1, <2>4 DEF GmailInv
    <3>2. CASE LastOf(m) <= sync.from
      <4>1. m \notin ToGet
        <5>1. ASSUME NEW t \in sync.taken, log[t].msg = m  PROVE FALSE
          <6>1. t \in Of(m) /\ sync.from < t
            BY <1>4, <3>1, <5>1 DEF Of, HistoryRead
          <6>2. t <= LastOf(m) /\ t \in Nat /\ LastOf(m) \in Nat
            BY <1>1, <1>3, <1>4, <2>2, <6>1, LogFacts
          <6>. QED  BY <1>4, <3>2, <6>1, <6>2
        <5>. QED  BY <5>1 DEF ToGet, MessagesAt
      <4>2. cursor # NoCursor /\ sync.from = cursor.pos
        BY <1>1, <2>4 DEF ReadInv
      <4>3. m \in excused
        BY <1>1, <1>8, <2>1, <3>2, <4>1, <4>2 DEF CursorInv, Known
      <4>. QED  BY <2>1, <4>1, <4>3
    <3>3. CASE ~(LastOf(m) <= sync.from)
      BY <1>6, <1>8, <2>1, <2>2, <2>3, <2>4, <3>3
    <3>. QED  BY <3>2, <3>3
  <2>5. CASE sync.reset
    <3>1. CASE m \in ToGet
      <4>1. sync.next.pos < LastOf(m) \/ m \in sync.missed
        BY <1>1, <1>8, <2>5, <3>1 DEF GmailInv
      <4>2. ~(sync.next.pos < LastOf(m))
        BY <1>4, <1>5, <1>8, <2>2
      <4>. QED  BY <2>1, <4>1, <4>2
    <3>. QED  BY <2>1, <2>5, <3>1
  <2>. QED  BY <2>4, <2>5
<1>. QED  BY <1>2, <1>7, <1>8


LEMMA GraphApplies ==
  ASSUME FeedInv, ApplyPage, kind = "graph"
  PROVE  /\ sync.next # NoCursor
         /\ \A m \in Messages : InFolder(m) /\ LastOf(m) <= sync.next.pos => m \in stored' \cup excused'
         /\ \A m \in stored' :
              Of(m) # {} /\ ~Exists(m) /\ (LastOf(m) <= sync.next.pos \/ LastOf(m) <= sync.next.base)
                => m \in excused'
<1>1. /\ sync \in SyncRecord /\ sync.pc = "apply" /\ ReadInv /\ GraphInv /\ CursorInv /\ FeedTypeOK
      /\ ~Imap
  BY StagesOf DEF FeedInv, ApplyPage, Imap
<1>2. /\ DOMAIN log = 1 .. Len(log) /\ sync.taken \subseteq DOMAIN log
      /\ sync.from \in Nat /\ sync.at \in Nat /\ sync.horizon \in Nat
  BY <1>1, ListFacts DEF ReadInv, SyncRecord
<1>3. /\ sync.next.pos = sync.at /\ sync.next.base \in {0, sync.horizon}
      /\ sync.next \in [pos : Nat, base : Nat]
  BY <1>1, <1>2 DEF GraphInv, DeltaLink
<1>4. sync.next # NoCursor
  BY <1>3, CursorAssumption
<1>5. Fetched \subseteq Messages
  BY <1>1, <1>2, FeedMessages DEF Fetched
<1>6. \A m \in Messages : Of(m) # {} =>
        LastOf(m) \in Nat /\ LastOf(m) > 0 /\ \A i \in Of(m) : i <= LastOf(m)
  BY <1>1, LogFacts
<1>7. ASSUME NEW m \in Messages, InFolder(m), LastOf(m) <= sync.next.pos
      PROVE  m \in stored' \cup excused'
  <2>1. Of(m) # {}
    BY <1>1, <1>7, LogFacts
  <2>2. CASE sync.from < LastOf(m)
    <3>1. m \in Fetched \cup sync.missed
      BY <1>1, <1>3, <1>7, <2>2 DEF GraphInv
    <3>. QED  BY <1>1, <1>7, <3>1, StaysCovered
  <2>3. CASE ~(sync.from < LastOf(m))
    <3>1. ~sync.reset
      BY <1>1, <1>2, <1>6, <2>1, <2>3 DEF GraphInv
    <3>2. cursor # NoCursor /\ sync.from = cursor.pos
      BY <1>1, <3>1 DEF ReadInv
    <3>3. LastOf(m) <= cursor.pos
      BY <1>2, <1>6, <2>1, <2>3, <3>2
    <3>4. m \in stored \cup excused
      BY <1>1, <1>7, <3>2, <3>3 DEF CursorInv, Covered, Imap
    <3>. QED  BY <1>7, <3>4, StaysCovered
  <2>. QED  BY <2>2, <2>3
<1>8. ASSUME NEW m \in stored', Of(m) # {}, ~Exists(m),
             LastOf(m) <= sync.next.pos \/ LastOf(m) <= sync.next.base
      PROVE  m \in excused'
  <2>1. /\ m \notin sync.gone /\ m \in stored \cup Fetched
        /\ m \in excused /\ m \notin Fetched => m \in excused'
        /\ sync.reset /\ m \notin Fetched => m \in excused'
    <3>1. Fetched = IF kind = "gmail" THEN ToGet ELSE Fetched
      OBVIOUS
    <3>. QED  BY <1>8, <3>1, Applied
  <2>2. m \in Messages /\ LastOf(m) \in Nat /\ LastOf(m) > 0
    BY <1>1, <1>5, <1>6, <1>8, <2>1 DEF FeedTypeOK
  <2>3. LastOf(m) <= sync.at /\ sync.from < LastOf(m) => ~(sync.horizon < LastOf(m))
    BY <1>1, <1>8, <2>1, <2>2 DEF GraphInv
  <2>4. LastOf(m) <= sync.at \/ LastOf(m) <= sync.horizon
    BY <1>2, <1>3, <1>8, <2>2
  <2>5. CASE m \in Fetched
    <3>1. sync.horizon < LastOf(m)
      BY <1>1, <1>8, <2>5 DEF GraphInv
    <3>2. sync.from < LastOf(m)
      <4>1. PICK t \in sync.taken : log[t].msg = m
        BY <2>5 DEF Fetched, MessagesAt
      <4>2. t \in Of(m) /\ sync.from < t /\ t \in Nat
        BY <1>1, <1>2, <4>1 DEF Of, GraphInv
      <4>. QED  BY <1>2, <1>6, <1>8, <2>2, <4>2
    <3>. QED  BY <1>2, <2>2, <2>3, <2>4, <3>1, <3>2
  <2>6. CASE m \notin Fetched /\ ~sync.reset
    <3>1. cursor # NoCursor /\ sync.from = cursor.pos /\ sync.horizon = cursor.base
      BY <1>1, <2>6 DEF ReadInv, GraphInv
    <3>2. LastOf(m) <= sync.horizon \/ LastOf(m) <= sync.from
      BY <1>2, <2>2, <2>3, <2>4
    <3>3. m \in excused
      BY <1>1, <1>8, <2>1, <2>6, <3>1, <3>2 DEF CursorInv, Known
    <3>. QED  BY <2>1, <2>6, <3>3
  <2>7. CASE m \notin Fetched /\ sync.reset
    BY <2>1, <2>7
  <2>. QED  BY <2>5, <2>6, <2>7
<1>. QED  BY <1>4, <1>7, <1>8

LEMMA ImapApplies ==
  ASSUME FeedInv, ApplyPage, Imap
  PROVE  /\ sync.next # NoCursor
         /\ \A m \in Messages : InFolder(m) =>
              /\ kind = "imap" /\ Arrived(m) <= sync.next.pos => m \in stored' \cup excused'
              /\ kind = "condstore" /\ LastOf(m) <= sync.next.base => m \in stored' \cup excused'
<1>1. ReadInv /\ ImapInv /\ CursorInv /\ sync.pc = "apply" /\ kind # "gmail" /\ sync.next # NoCursor
  BY DEF FeedInv, ApplyPage, Imap, ImapInv
<1>2. ASSUME NEW m \in Messages, InFolder(m),
             \/ kind = "imap" /\ Arrived(m) <= sync.next.pos
             \/ kind = "condstore" /\ LastOf(m) <= sync.next.base
      PROVE  m \in stored' \cup excused'
  <2>1. CASE m \in Fetched \cup sync.missed
    BY <1>1, <1>2, <2>1, StaysCovered
  <2>2. CASE m \notin Fetched \cup sync.missed
    <3>1. ~sync.reset /\ Covered(m)
      BY <1>1, <1>2, <2>2 DEF ImapInv, Covered
    <3>2. cursor # NoCursor
      BY <1>1, <3>1 DEF ReadInv
    <3>3. m \in stored \cup excused
      BY <1>1, <1>2, <3>1, <3>2 DEF CursorInv
    <3>. QED  BY <1>2, <3>3, StaysCovered
  <2>. QED  BY <2>1, <2>2
<1>. QED  BY <1>1, <1>2

LEMMA FeedApplies ==
  ASSUME FeedInv, ApplyPage
  PROVE  LogInv' /\ CursorInv' /\ ReadInv' /\ GmailInv' /\ GraphInv' /\ ImapInv'
<1>1. UNCHANGED <<kind, log>> /\ cursor' = sync.next /\ sync' = IdleSync
  BY DEF ApplyPage
<1>2. kind \in {"gmail", "graph", "imap", "condstore"} /\ ReadInv /\ sync.pc = "apply"
  BY StagesOf DEF FeedInv, ApplyPage
<1>3. Imap' <=> Imap
  BY <1>1 DEF Imap
<1>4. LogInv'
  BY <1>1, <1>3 DEF FeedInv, LogInv
<1>5. ReadInv' /\ GmailInv' /\ GraphInv' /\ ImapInv'
  BY <1>1, FeedRests
<1>6. \A m \in Messages : /\ Of(m)' = Of(m) /\ LastOf(m)' = LastOf(m) /\ Arrived(m)' = Arrived(m)
                          /\ Exists(m)' = Exists(m) /\ InFolder(m)' = InFolder(m)
  BY <1>1, LogKept
<1>7. cursor' # NoCursor => cursor'.pos <= Len(log') /\ cursor'.base <= Len(log')
  BY <1>1, <1>2 DEF ReadInv
<1>8. stored' \subseteq Messages
  <2>1. FeedTypeOK'
    BY FeedTypeStep DEF FeedNext, SyncStep
  <2>. QED  BY <2>1 DEF FeedTypeOK
<1>9. CASE kind = "gmail"
  <2>1. \A m \in Messages : InFolder(m)' /\ Covered(m)' => m \in stored' \cup excused'
    BY <1>1, <1>6, <1>9, GmailApplies DEF Covered
  <2>2. \A m \in stored' : Of(m)' # {} /\ ~Exists(m)' /\ Known(m)' => m \in excused'
    <3>. SUFFICES ASSUME NEW m \in stored', Of(m)' # {}, ~Exists(m)', Known(m)'  PROVE m \in excused'
      OBVIOUS
    <3>1. Of(m) # {} /\ ~Exists(m) /\ (LastOf(m) <= sync.next.pos \/ LastOf(m) <= sync.next.base)
      BY <1>1, <1>6, <1>8 DEF Known
    <3>2. LastOf(m) > 0 /\ LastOf(m) \in Nat
      <4>1. FeedTypeOK /\ m \in Messages /\ Len(log) \in Nat
        BY <1>8, ListFacts DEF FeedInv
      <4>. QED  BY <3>1, <4>1, LogFacts
    <3>. QED  BY <1>9, <3>1, <3>2, GmailApplies
  <2>. QED  BY <1>4, <1>5, <1>7, <2>1, <2>2 DEF CursorInv
<1>10. CASE kind = "graph"
  <2>1. \A m \in Messages : InFolder(m)' /\ Covered(m)' => m \in stored' \cup excused'
    BY <1>1, <1>6, <1>10, GraphApplies DEF Covered
  <2>2. \A m \in stored' : Of(m)' # {} /\ ~Exists(m)' /\ Known(m)' => m \in excused'
    BY <1>1, <1>6, <1>8, <1>10, GraphApplies DEF Known
  <2>. QED  BY <1>4, <1>5, <1>7, <2>1, <2>2 DEF CursorInv
<1>11. CASE Imap
  <2>1. \A m \in Messages : InFolder(m)' /\ Covered(m)' => m \in stored' \cup excused'
    BY <1>1, <1>6, <1>11, ImapApplies DEF Covered, Imap
  <2>. QED  BY <1>3, <1>4, <1>5, <1>7, <1>11, <2>1 DEF CursorInv
<1>. QED  BY <1>2, <1>4, <1>5, <1>9, <1>10, <1>11 DEF Imap

-----------------------------------------------------------------------------
LEMMA FeedStarts == FeedInit => FeedInv
<1>. SUFFICES ASSUME FeedInit  PROVE FeedInv
  OBVIOUS
<1>1. FeedTypeOK
  <2>1. log \in Seq(LogEntry) /\ faults \in 0 .. MaxFaults
    BY ChangesAssumption DEF FeedInit
  <2>2. sync \in SyncRecord
    BY DEF FeedInit, IdleSync, SyncRecord, SyncPc, Cursor
  <2>. QED  BY <2>1, <2>2 DEF FeedInit, FeedTypeOK, Cursor
<1>2. LogInv /\ CursorInv
  BY DEF FeedInit, LogInv, CursorInv
<1>3. ReadInv /\ GmailInv /\ GraphInv /\ ImapInv
  BY DEF FeedInit, IdleSync, ReadInv, GmailInv, GraphInv, ImapInv
<1>. QED  BY <1>1, <1>2, <1>3 DEF FeedInv

LEMMA FeedStep == FeedInv /\ [FeedNext]_feedVars => FeedInv'
<1>. SUFFICES ASSUME FeedInv, [FeedNext]_feedVars  PROVE FeedInv'
  OBVIOUS
<1>1. FeedTypeOK /\ LogInv /\ CursorInv /\ ReadInv /\ GmailInv /\ GraphInv /\ ImapInv
  BY DEF FeedInv
<1>2. ASSUME FeedNext  PROVE FeedTypeOK'
  BY <1>2, FeedTypeStep
<1>3. CASE Begin \/ HistoryPage \/ HistoryExpired \/ ListPage \/ GetMessages \/ ReadProfile
           \/ DeltaPage \/ DeltaExpired \/ SearchFolder \/ FetchMessages
  <2>1. Untouched /\ UNCHANGED kind
    BY <1>3 DEF Begin, HistoryPage, HistoryExpired, ListPage, GetMessages, ReadProfile,
                DeltaPage, DeltaExpired, SearchFolder, FetchMessages, Untouched
  <2>2. LogInv' /\ CursorInv' /\ (Imap' <=> Imap)
    BY <1>1, <2>1, CursorKept DEF Untouched
  <2>3. FeedTypeOK'
    BY <1>2, <1>3 DEF FeedNext, SyncStep
  <2>4. CASE Begin
    BY <2>2, <2>3, <2>4, FeedBegins DEF FeedInv
  <2>5. CASE HistoryPage \/ HistoryExpired \/ ListPage \/ GetMessages \/ ReadProfile
    <3>1. kind = "gmail"
      BY <2>5, StagesOf DEF HistoryPage, HistoryExpired, ListPage, GetMessages, ReadProfile
    <3>2. GraphInv' /\ ImapInv'
      BY <2>1, <2>2, <3>1 DEF GraphInv, ImapInv, Imap
    <3>3. ReadInv' /\ GmailInv'
      BY <2>5, FeedReadsHistory, FeedStartsOver, FeedLists, FeedGets, FeedReadsProfile
    <3>. QED  BY <2>2, <2>3, <3>2, <3>3 DEF FeedInv
  <2>6. CASE DeltaPage \/ DeltaExpired
    <3>1. kind = "graph"
      BY <2>6, StagesOf DEF DeltaPage, DeltaExpired
    <3>2. GmailInv' /\ ImapInv'
      BY <2>1, <2>2, <3>1 DEF GmailInv, ImapInv, Imap
    <3>3. ReadInv' /\ GraphInv'
      BY <2>6, FeedReadsDelta, FeedDeltaAgain
    <3>. QED  BY <2>2, <2>3, <3>2, <3>3 DEF FeedInv
  <2>7. CASE SearchFolder \/ FetchMessages
    <3>1. Imap
      BY <2>7, StagesOf DEF SearchFolder, FetchMessages
    <3>2. GmailInv' /\ GraphInv'
      BY <2>1, <3>1 DEF GmailInv, GraphInv, Imap
    <3>3. ReadInv' /\ ImapInv'
      BY <2>7, FeedSearches, FeedFetches
    <3>. QED  BY <2>2, <2>3, <3>2, <3>3 DEF FeedInv
  <2>. QED  BY <1>3, <2>4, <2>5, <2>6, <2>7
<1>4. CASE ApplyPage
  BY <1>2, <1>4, FeedApplies DEF FeedInv, FeedNext, SyncStep
<1>5. CASE SyncFails
  <2>1. UNCHANGED <<kind, log, cursor, stored, excused>> /\ sync' = IdleSync
    BY <1>5 DEF SyncFails
  <2>2. FeedTypeOK'
    BY <1>2, <1>5 DEF FeedNext
  <2>3. LogInv' /\ CursorInv'
    BY <1>1, <2>1, CursorKept
  <2>. QED  BY <2>1, <2>2, <2>3, FeedRests DEF FeedInv
<1>6. CASE CursorExpires
  <2>1. UNCHANGED <<kind, log, cursor, stored, sync, excused>>
    BY <1>6 DEF CursorExpires
  <2>2. FeedTypeOK'
    BY <1>2, <1>6 DEF FeedNext
  <2>. QED  BY <2>1, <2>2, ReadKept
<1>7. ASSUME NEW m \in Messages, MailboxChanges(m)  PROVE FeedInv'
  BY <1>1, <1>7, Grown, LogStep, CursorGrows, ReadGrows, GmailGrows, GraphGrows, ImapGrows DEF FeedInv
<1>8. CASE UNCHANGED feedVars
  <2>1. UNCHANGED <<kind, log, stale, cursor, stored, sync, excused, faults>>
    BY <1>8 DEF feedVars
  <2>2. FeedTypeOK'
    BY <1>1, <2>1 DEF FeedTypeOK
  <2>. QED  BY <2>1, <2>2, ReadKept
<1>. QED  BY <1>3, <1>4, <1>5, <1>6, <1>7, <1>8 DEF FeedNext, SyncStep

\* Whatever a mailbox does while Gmail, Graph or IMAP synchronisations of it go on, fail
\* and start over, and whenever its cursors expire: what the store lacks of the folder, or
\* keeps of what was deleted, behind the cursor, was left out in one of the named ways
\* (the connectors' pages and _sync_connection). For any number of messages, any limit.
THEOREM NothingElseDiffersTheorem == FeedSpec => []NothingElseDiffers
<1>1. FeedInv => NothingElseDiffers
  <2>. SUFFICES ASSUME FeedInv  PROVE NothingElseDiffers
    OBVIOUS
  <2>1. FeedTypeOK /\ CursorInv /\ kind \in {"gmail", "graph", "imap", "condstore"}
    BY StagesOf DEF FeedInv
  <2>2. ASSUME NEW m \in Messages, Settled(m)
        PROVE  cursor # NoCursor /\ (InFolder(m) => Covered(m)) /\ (~Imap => Known(m))
    <3>1. /\ Of(m) # {} /\ LastOf(m) <= Reached
          /\ LastOf(m) \in Nat /\ LastOf(m) > 0 /\ Arrived(m) <= LastOf(m) /\ Arrived(m) \in Nat
      <4>1. Of(m) # {} /\ LastOf(m) <= Reached
        BY <2>2 DEF Settled
      <4>2. Len(log) \in Nat
        BY <2>1, ListFacts
      <4>. QED  BY <2>1, <4>1, <4>2, LogFacts
    <3>2. cursor # NoCursor
      BY <3>1 DEF Reached
    <3>3. cursor.pos \in Nat /\ cursor.base \in Nat
      BY <2>1, <3>2 DEF FeedTypeOK, Cursor
    <3>. QED  BY <2>1, <3>1, <3>2, <3>3 DEF Reached, Covered, Known, Imap
  <2>3. NothingElseMissed
    BY <2>1, <2>2 DEF NothingElseMissed, CursorInv
  <2>4. NothingElseKept
    <3>1. \A m \in stored : Settled(m) => m \in Messages /\ Of(m) # {}
      BY <2>1 DEF FeedTypeOK, Settled
    <3>. QED  BY <2>1, <2>2, <3>1 DEF NothingElseKept, CursorInv
  <2>. QED  BY <2>3, <2>4 DEF NothingElseDiffers
<1>. QED  BY <1>1, FeedStarts, FeedStep, PTL DEF FeedSpec
================================================================================
