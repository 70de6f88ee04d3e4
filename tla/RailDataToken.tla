--------------------------- MODULE RailDataToken ---------------------------
(***************************************************************************)
(* The RailData client of the board refresher (tracks/raildata): a token   *)
(* is cached in memory and on disk and reused while it is young, requests  *)
(* for a new one are counted in a rolling window, and a failed request     *)
(* pauses the client.  One call is in progress at a time; it works with    *)
(* the time at which it began, while its requests take up to Timeout.      *)
(***************************************************************************)
EXTENDS Naturals, Sequences, FiniteSets

CONSTANTS
  Budget,    \* TOKEN_BUDGET
  Window,    \* TOKEN_BUDGET_WINDOW
  Reuse,     \* TOKEN_REUSE
  Pause,     \* TOKEN_FAILURE_PAUSE
  Timeout,   \* the longest a call takes
  SavesFail, \* whether the cache file may be impossible to write
  MaxTime    \* bound: the clock

ASSUME TokenAssumption ==
  /\ Budget \in Nat /\ Window \in Nat /\ Reuse \in Nat /\ Pause \in Nat
  /\ Timeout \in Nat /\ SavesFail \in BOOLEAN /\ MaxTime \in Nat

VARIABLES
  now,        \* SystemTime
  memory,     \* TokenCache.state
  disk,       \* raildata-token.json
  suspended,  \* RailDataClient.suspended_until; 0 is never
  call,       \* what the call in progress does next
  at,         \* when that call began
  replaced,   \* whether that call had a token refused
  asked,      \* when getToken was received, oldest first
  failed      \* when this process last had one refused; 0 is never

vars == <<now, memory, disk, suspended, call, at, replaced, asked, failed>>

(* issued is 0 when no token is held.                                      *)
TokenState == [issued : Nat, requests : Seq(Nat)]
NoToken == [issued |-> 0, requests |-> << >>]

TypeOK ==
  /\ now \in Nat /\ at \in 0 .. now
  /\ memory \in TokenState /\ disk \in TokenState
  /\ suspended \in Nat /\ failed \in 0 .. now
  /\ call \in {"none", "token", "record", "get", "schedule"}
  /\ replaced \in BOOLEAN
  /\ asked \in Seq(Nat)

Init ==
  /\ now = 1 /\ at = 0
  /\ memory = NoToken /\ disk = NoToken
  /\ suspended = 0 /\ call = "none" /\ replaced = FALSE
  /\ asked = << >> /\ failed = 0

(* save: a file that cannot be written is only logged.                     *)
Save(state) ==
  disk' \in {state} \cup (IF SavesFail THEN {disk} ELSE {})

UsableToken(t) == memory.issued # 0 /\ t - memory.issued < Reuse

(* prune.  The times are in order, so those that go are the first ones.    *)
Counted(requests, t) ==
  LET cutoff == IF t > Window THEN t - Window ELSE 0
      old == {i \in DOMAIN requests : requests[i] <= cutoff}
  IN  SubSeq(requests, Cardinality(old) + 1, Len(requests))

Tick ==
  /\ now < MaxTime                                          \* bound MaxTime
  /\ call # "none" => now < at + Timeout
  /\ now' = now + 1
  /\ UNCHANGED <<memory, disk, suspended, call, at, replaced, asked, failed>>

(* schedule: nothing happens while suspended.                              *)
Begin ==
  /\ call = "none" /\ now >= suspended
  /\ at' = now /\ replaced' = FALSE
  /\ call' = IF UsableToken(now) THEN "schedule" ELSE "token"
  /\ UNCHANGED <<now, memory, disk, suspended, asked, failed>>

(* request_token: can_request prunes, whatever it answers.                 *)
CheckBudget ==
  /\ call = "token"
  /\ memory' = [memory EXCEPT !.requests = Counted(@, at)]
  /\ call' = IF Len(memory'.requests) < Budget THEN "record" ELSE "none"
  /\ UNCHANGED <<now, disk, suspended, at, replaced, asked, failed>>

(* Mutant: a request is counted in memory only.                            *)
RecordLate ==
  /\ call = "record"
  /\ memory' = [memory EXCEPT !.requests = Append(@, at)]
  /\ call' = "get"
  /\ UNCHANGED <<now, disk, suspended, at, replaced, asked, failed>>

(* Counted before the call, so that a crash in between spends it too.      *)
Record ==
  /\ call = "record"
  /\ memory' = [memory EXCEPT !.requests = Append(@, at)]
  /\ Save(memory')
  /\ call' = "get"
  /\ UNCHANGED <<now, suspended, at, replaced, asked, failed>>

GetToken ==
  /\ call = "get"
  /\ asked' = Append(asked, now)
  /\ memory' = [memory EXCEPT !.issued = at]
  /\ Save(memory')
  /\ call' = "schedule"
  /\ UNCHANGED <<now, suspended, at, replaced, failed>>

(* Mutant: the pause is forgotten.                                         *)
GetTokenUnpaused ==
  /\ call = "get"
  /\ asked' = Append(asked, now)
  /\ failed' = now
  /\ call' = "none"
  /\ UNCHANGED <<now, memory, disk, suspended, at, replaced>>

(* token_from_response: refused, out of budget or unreadable; or no answer *)
(* at all.                                                                 *)
GetTokenFails ==
  /\ call = "get"
  /\ asked' = Append(asked, now)
  /\ suspended' = at + Pause
  /\ failed' = now
  /\ call' = "none"
  /\ UNCHANGED <<now, memory, disk, at, replaced>>

(* fetch_schedule succeeds, fails, or has an unusable answer: a second     *)
(* token that is refused is one.                                           *)
Schedule ==
  /\ call = "schedule"
  /\ call' = "none"
  /\ UNCHANGED <<now, memory, disk, suspended, at, replaced, asked, failed>>

(* The token is refused, be it a cached one or one just requested: a call  *)
(* replaces it once.                                                       *)
Reject ==
  /\ call = "schedule" /\ ~replaced
  /\ memory' = [memory EXCEPT !.issued = 0]
  /\ Save(memory')
  /\ replaced' = TRUE /\ call' = "token"
  /\ UNCHANGED <<now, suspended, at, asked, failed>>

(* A new process loads the file.                                           *)
Restart ==
  /\ memory' = disk
  /\ suspended' = 0 /\ failed' = 0 /\ call' = "none"
  /\ UNCHANGED <<now, disk, at, replaced, asked>>

Next ==
  \/ Tick \/ Begin \/ CheckBudget \/ Record \/ GetToken \/ GetTokenFails
  \/ Schedule \/ Reject \/ Restart

Spec == Init /\ [][Next]_vars

(* No span of the window, less the time that one call may take, sees more  *)
(* token requests than the budget, whatever fails and restarts in between  *)
(* (raildata: "reused across restarts, and token requests are counted").   *)
BudgetKept ==
  ~SavesFail =>
    \A i \in DOMAIN asked : i + Budget \in DOMAIN asked =>
      asked[i] + Window <= asked[i + Budget] + Timeout

(* After a refused request a process sends none for the pause, whichever   *)
(* station and whichever path asks (TOKEN_FAILURE_PAUSE: "one request per  *)
(* pause instead of one per station").                                     *)
PauseKept ==
  [][asked' # asked /\ failed # 0 => now + Timeout >= failed + Pause]_vars

=============================================================================
