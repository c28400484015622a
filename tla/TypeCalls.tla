------------------------------ MODULE TypeCalls ------------------------------
(***************************************************************************)
(* What the type server's client promises the code above it                *)
(* (source/fastlint/tsgo/client.h): calls are made one at a time, each is   *)
(* answered with the server's answer to that very call or with an error,    *)
(* and a connection that has failed or was stopped answers nothing again.   *)
(* TsgoClient implements this over two pipes and a process.                 *)
(***************************************************************************)
CONSTANTS
  Call,      \* the calls made over the client's life
  NoCall,    \* no call is under way
  NotYet,    \* the outcome of a call that has not returned
  Failed     \* the outcome of a call that returned false

VARIABLES
  pending,   \* the call under way, or NoCall
  outcome,   \* what each call returned: the call whose answer it is, or Failed
  usable     \* FALSE once the connection has failed or was stopped

callVars == <<pending, outcome, usable>>

CallsInit ==
  /\ pending = NoCall
  /\ outcome = [c \in Call |-> NotYet]
  /\ usable = FALSE

(***************************************************************************)
(* Opening a session is the one step that makes a connection usable.  It is *)
(* taken before any call has returned an answer, and is itself a call.      *)
(***************************************************************************)
Connect(c) ==
  /\ ~usable
  /\ pending = NoCall
  /\ outcome[c] = NotYet
  /\ \A d \in Call : outcome[d] \in {NotYet, Failed}
  /\ pending' = c
  /\ usable' = TRUE
  /\ UNCHANGED outcome

Begin(c) ==
  /\ usable
  /\ pending = NoCall
  /\ outcome[c] = NotYet
  /\ pending' = c
  /\ UNCHANGED <<outcome, usable>>

Refuse(c) ==
  /\ pending = NoCall
  /\ outcome[c] = NotYet
  /\ outcome' = [outcome EXCEPT ![c] = Failed]
  /\ usable' = FALSE
  /\ UNCHANGED pending

Return(c) ==
  /\ pending = c
  /\ pending' = NoCall
  /\ \E o \in {c, Failed} : outcome' = [outcome EXCEPT ![c] = o]
  /\ usable' \in {usable, FALSE}

Disconnect ==
  /\ usable
  /\ usable' = FALSE
  /\ UNCHANGED <<pending, outcome>>

CallsNext ==
  \/ \E c \in Call : Connect(c) \/ Begin(c) \/ Refuse(c) \/ Return(c)
  \/ Disconnect

CallsSpec ==
  /\ CallsInit
  /\ [][CallsNext]_callVars
  /\ WF_callVars(\E c \in Call : Return(c))

=============================================================================
