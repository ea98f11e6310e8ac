------------------------ MODULE BootstrapDeviceCode ------------------------
(***************************************************************************)
(* The device authorization grant of the bootstrap server (deployment/     *)
(* infrastructure/lambda-functions/bootstrap_device_code/index.py): a      *)
(* desktop application asks for a device code, its user signs in through   *)
(* /verify and /callback, and the application polls /oauth/token.  Every   *)
(* request is a lambda invocation of its own; invocations meet only in the *)
(* DynamoDB table, whose reads are eventually consistent, whose index      *)
(* follows the table, and which deletes items some time after their ttl.   *)
(***************************************************************************)
EXTENDS Naturals

CONSTANTS
    Codes,      \* device codes; each is generated once
    UserCodes,  \* user codes, which are shorter and may repeat
    SignIns,    \* sign-ins at the identity provider, each with its callback
    Polls,      \* invocations of /oauth/token that may run at once
    None        \* no device code, user code or sign-in

ASSUME NoneAssumption == None \notin Codes \cup UserCodes \cup SignIns

VARIABLES
    \* The table.
    item,      \* item[d]: the item of device code d, or Absent
    replica,   \* what an eventually consistent read may still return
    index,     \* the device codes that user-code-index shows
    lapsed,    \* the device codes whose ttl has passed
    \* The desktop applications.
    user,      \* user[d]: the user code handed out with d, None if d is unused
    \* The callbacks.
    cb,        \* cb[s]: where the callback of sign-in s is
    state,     \* state[s]: the user code s was started with
    hit,       \* hit[s]: the device code the index gave to s
    \* The polls.
    poll,      \* poll[q]: where invocation q is
    code,      \* code[q]: the device code it was called with
    tokens,    \* tokens[q]: the sign-in whose tokens it read
    \* What has happened to each code.
    approvals, \* approvals[d]: updates of d to "approved"
    issues     \* issues[d]: answers that carried tokens for d

table == <<item, replica, index, lapsed>>
callbacks == <<cb, state, hit>>
polls == <<poll, code, tokens>>
history == <<approvals, issues>>
vars == <<table, user, callbacks, polls, history>>

Absent == [status |-> "absent", session |-> None, whole |-> FALSE]

(* "whole": the item has the user_code and ttl that put_item gave it.  An  *)
(* update of a deleted item creates one that has neither.                  *)
Items == [status : {"absent", "pending", "approved", "consumed"},
          session : SignIns \cup {None}, whole : BOOLEAN]

TypeOK ==
    /\ item \in [Codes -> Items] /\ replica \in [Codes -> Items]
    /\ index \subseteq Codes /\ lapsed \subseteq Codes
    /\ user \in [Codes -> UserCodes \cup {None}]
    /\ cb \in [SignIns -> {"unused", "exchange", "query", "update", "done"}]
    /\ state \in [SignIns -> UserCodes \cup {None}]
    /\ hit \in [SignIns -> Codes \cup {None}]
    /\ poll \in [Polls -> {"idle", "read", "consume"}]
    /\ code \in [Polls -> Codes \cup {None}]
    /\ tokens \in [Polls -> SignIns \cup {None}]
    /\ approvals \in [Codes -> Nat]
    /\ issues \in [Codes -> Nat]

Init ==
    /\ item = [d \in Codes |-> Absent] /\ replica = [d \in Codes |-> Absent]
    /\ index = {} /\ lapsed = {}
    /\ user = [d \in Codes |-> None]
    /\ cb = [s \in SignIns |-> "unused"]
    /\ state = [s \in SignIns |-> None]
    /\ hit = [s \in SignIns |-> None]
    /\ poll = [q \in Polls |-> "idle"]
    /\ code = [q \in Polls |-> None]
    /\ tokens = [q \in Polls |-> None]
    /\ approvals = [d \in Codes |-> 0]
    /\ issues = [d \in Codes |-> 0]

-----------------------------------------------------------------------------
(* POST /device/code.                                                      *)

HandleDeviceCode(d, u) ==
    /\ user[d] = None
    /\ user' = [user EXCEPT ![d] = u]
    /\ item' = [item EXCEPT ![d] = [status |-> "pending", session |-> None, whole |-> TRUE]]
    /\ UNCHANGED <<replica, index, lapsed, callbacks, polls, history>>

-----------------------------------------------------------------------------
(* GET /verify, the sign-in, and GET /callback.                            *)

(* Anyone who has the link signs in, as often as they like.  /verify       *)
(* checks only that there is a user code; it becomes the OAuth state.      *)
HandleVerify(s, u) ==
    /\ cb[s] = "unused" /\ u \in {user[d] : d \in Codes} \ {None}
    /\ cb' = [cb EXCEPT ![s] = "exchange"]
    /\ state' = [state EXCEPT ![s] = u]
    /\ UNCHANGED <<table, user, hit, polls, history>>

(* The identity provider redirects back, and the code is exchanged.        *)
ExchangeCode(s) ==
    /\ cb[s] = "exchange"
    /\ \E l \in {"query", "done"} : cb' = [cb EXCEPT ![s] = l]
    /\ UNCHANGED <<table, user, state, hit, polls, history>>

(* Mutant: the user code is not part of the query.                         *)
AnyIndexed(u) == index

Indexed(u) == {d \in index : user[d] = u}

(* The first item that the index has for the user code, in no given order. *)
FindDevice(s) ==
    /\ cb[s] = "query"
    /\ \/ /\ Indexed(state[s]) = {}
          /\ cb' = [cb EXCEPT ![s] = "done"]
          /\ UNCHANGED hit
       \/ \E d \in Indexed(state[s]) :
          /\ hit' = [hit EXCEPT ![s] = d]
          /\ cb' = [cb EXCEPT ![s] = "update"]
    /\ UNCHANGED <<table, user, state, polls, history>>

(* The update has no condition: it approves whatever is there by now.      *)
Approve(s) ==
    /\ cb[s] = "update"
    /\ cb' = [cb EXCEPT ![s] = "done"]
    /\ item' = [item EXCEPT ![hit[s]] =
                   [status |-> "approved", session |-> s, whole |-> @.whole]]
    /\ approvals' = [approvals EXCEPT ![hit[s]] = @ + 1]
    /\ UNCHANGED <<replica, index, lapsed, user, state, hit, polls, issues>>

-----------------------------------------------------------------------------
(* POST /oauth/token.                                                      *)

StartPoll(q, d) ==
    /\ poll[q] = "idle" /\ user[d] # None
    /\ poll' = [poll EXCEPT ![q] = "read"]
    /\ code' = [code EXCEPT ![q] = d]
    /\ UNCHANGED <<table, user, callbacks, tokens, history>>

EndPoll(q) ==
    /\ poll' = [poll EXCEPT ![q] = "idle"]
    /\ code' = [code EXCEPT ![q] = None]
    /\ tokens' = [tokens EXCEPT ![q] = None]

(* get_item without ConsistentRead; everything but "approved" is an error  *)
(* answer (expired_token or authorization_pending).                        *)
ReadItem(q) ==
    /\ poll[q] = "read"
    /\ \E i \in {item[code[q]], replica[code[q]]} :
        \/ /\ i.status = "approved"
           /\ poll' = [poll EXCEPT ![q] = "consume"]
           /\ tokens' = [tokens EXCEPT ![q] = i.session]
           /\ UNCHANGED code
        \/ i.status # "approved" /\ EndPoll(q)
    /\ UNCHANGED <<table, user, callbacks, history>>

(* Mutant: the item is put anew with its status alone.                     *)
ConsumedAnew(i) == [status |-> "consumed"]

Consumed(i) == [status |-> "consumed", session |-> i.session, whole |-> i.whole]

(* Mutant: the update has no ConditionExpression.                          *)
ConsumeAnyway(q) ==
    /\ poll[q] = "consume"
    /\ item' = [item EXCEPT ![code[q]] = Consumed(@)]
    /\ issues' = [issues EXCEPT ![code[q]] = @ + 1]
    /\ EndPoll(q)
    /\ UNCHANGED <<replica, index, lapsed, user, callbacks, approvals>>

(* The conditional update, and the answer with the tokens read before it.  *)
(* Any exception is answered with expired_token: the condition failed, the *)
(* call did, or it took effect and only its reply was lost.                *)
Consume(q) ==
    /\ poll[q] = "consume"
    /\ \/ /\ item[code[q]].status = "approved"
          /\ item' = [item EXCEPT ![code[q]] = Consumed(@)]
          /\ issues' = [issues EXCEPT ![code[q]] = @ + 1]
       \/ /\ item[code[q]].status = "approved"
          /\ item' = [item EXCEPT ![code[q]] = Consumed(@)]
          /\ UNCHANGED issues
       \/ UNCHANGED <<item, issues>>
    /\ EndPoll(q)
    /\ UNCHANGED <<replica, index, lapsed, user, callbacks, approvals>>

-----------------------------------------------------------------------------
(* DynamoDB and time.                                                      *)

Replicate(d) ==
    /\ replica[d] # item[d]
    /\ replica' = [replica EXCEPT ![d] = item[d]]
    /\ UNCHANGED <<item, index, lapsed, user, callbacks, polls, history>>

IndexCatchesUp(d) ==
    /\ d \in index <=> ~item[d].whole
    /\ index' = IF item[d].whole THEN index \cup {d} ELSE index \ {d}
    /\ UNCHANGED <<item, replica, lapsed, user, callbacks, polls, history>>

Lapse(d) ==
    /\ user[d] # None /\ d \notin lapsed
    /\ lapsed' = lapsed \cup {d}
    /\ UNCHANGED <<item, replica, index, user, callbacks, polls, history>>

DeleteExpired(d) ==
    /\ d \in lapsed /\ item[d].whole
    /\ item' = [item EXCEPT ![d] = Absent]
    /\ UNCHANGED <<replica, index, lapsed, user, callbacks, polls, history>>

Next ==
    \/ \E d \in Codes, u \in UserCodes : HandleDeviceCode(d, u)
    \/ \E s \in SignIns, u \in UserCodes : HandleVerify(s, u)
    \/ \E s \in SignIns : ExchangeCode(s) \/ FindDevice(s) \/ Approve(s)
    \/ \E q \in Polls, d \in Codes : StartPoll(q, d)
    \/ \E q \in Polls : ReadItem(q) \/ Consume(q)
    \/ \E d \in Codes : Replicate(d) \/ IndexCatchesUp(d) \/ Lapse(d) \/ DeleteExpired(d)

Spec == Init /\ [][Next]_vars

-----------------------------------------------------------------------------
(* Properties.                                                             *)

(* Polls that overlap, read stale replicas or retry never take more tokens *)
(* out of a device code than its user's sign-ins put in: the read of the   *)
(* item and its conditional update are two calls, and only the second one  *)
(* decides.                                                                *)
IssuesCovered == \A d \in Codes : issues[d] <= approvals[d]

(* The tokens that an answer for d can carry are those of a sign-in that   *)
(* was started from the user code handed out with d, however the callback, *)
(* the index, the replicas and the deletion of items interleave.           *)
OwnSignIn ==
    \A q \in Polls : tokens[q] # None => state[tokens[q]] = user[code[q]]
=============================================================================
