-------------------------------- MODULE Qmp --------------------------------
(***************************************************************************)
(* QmpClient (qemu/qmp.py) and the monitor of one QEMU: commands are sent  *)
(* one at a time, answers come late, events come in between, a read times  *)
(* out, the client is closed while QEMU is still busy with its command.    *)
(* What a command does in QEMU is modelled as qmp.py relies on it.         *)
(***************************************************************************)
EXTENDS Naturals, Sequences, SequencesExt

\* What pause_and_save and resume send, the handshake of connect included.
Script ==
  [save   |-> <<"qmp_capabilities", "stop", "query-status", "flush", "compress",
                "migrate", "query-migrate">>,
   resume |-> <<"qmp_capabilities", "compress", "migrate-incoming",
                "query-status", "query-status", "cont">>]
Ops == DOMAIN Script

VARIABLES
  op,         \* what the open client does, or "none"
  at,         \* the number of the command in the script it is at
  request,    \* the command QEMU has not answered, or "none"
  open,       \* the client that sent `request` is still there to read
  inbox,      \* what QEMU has sent to the open client
  runState,   \* QEMU's run state
  migration,  \* none, loading, active, completed or failed
  flushed     \* the disk holds what the paused guest has written

qmpVars == <<op, at, request, open, inbox, runState, migration, flushed>>
clientVars == <<op, at, request, open, inbox>>
monitorVars == <<runState, migration, flushed>>

Commands == UNION {ToSet(Script[o]) : o \in Ops}
Event == [of |-> "event", value |-> "event"]
Messages == {Event} \cup
  [of : Commands, value : {"ok", "error", "inmigrate", "running", "paused",
                           "postmigrate", "none", "loading", "active",
                           "completed", "failed"}]

QmpTypeOK ==
  /\ op \in Ops \cup {"none"} /\ at \in 0..7
  /\ request \in Commands \cup {"none"} /\ open \in BOOLEAN
  /\ inbox \in Seq(Messages) /\ Len(inbox) <= 2
  /\ runState \in {"inmigrate", "running", "paused", "postmigrate"}
  /\ migration \in {"none", "loading", "active", "completed", "failed"}
  /\ flushed \in BOOLEAN

\* A QEMU that has just been started, with or without -incoming defer.
Fresh(incoming) ==
  /\ op' = "none" /\ at' = 0 /\ request' = "none" /\ open' = FALSE /\ inbox' = <<>>
  /\ runState' = IF incoming THEN "inmigrate" ELSE "running"
  /\ migration' = "none" /\ flushed' = FALSE

QmpInit ==
  /\ op = "none" /\ at = 0 /\ request = "none" /\ open = FALSE /\ inbox = <<>>
  /\ runState = "running" /\ migration = "none" /\ flushed = FALSE
------------------------------------------------------------------------------
Sent(command) == request' = command /\ open' = TRUE

\* connect: QEMU serves one client at a time.
Connect(o) ==
  /\ op = "none" /\ request = "none"
  /\ op' = o /\ at' = 1 /\ inbox' = <<>>
  /\ Sent(Script[o][1])
  /\ UNCHANGED monitorVars

\* Every way out of save_state and _resume closes the client; QEMU may still
\* do what it was last told.
Close == op' = "none" /\ at' = 0 /\ open' = FALSE /\ inbox' = <<>> /\ UNCHANGED request

\* The value QEMU answers a command with.
Answer(command) ==
  IF command = "query-status" THEN runState
  ELSE IF command = "query-migrate" THEN migration
  ELSE IF \/ command = "migrate" /\ (runState # "paused" \/ migration = "active")
          \/ command = "migrate-incoming" /\ runState # "inmigrate"
       THEN "error" ELSE "ok"

Handle ==
  /\ request # "none"
  /\ request' = "none"
  /\ inbox' = IF open THEN Append(inbox, [of |-> request, value |-> Answer(request)])
              ELSE inbox
  /\ runState' = IF request = "stop" /\ runState = "running" THEN "paused"
                 ELSE IF request = "cont" /\ runState = "paused" THEN "running"
                 ELSE runState
  /\ migration' = IF Answer(request) # "ok" THEN migration
                  ELSE IF request = "migrate" THEN "active"
                  ELSE IF request = "migrate-incoming" THEN "loading"
                  ELSE migration
  /\ flushed' = ((flushed \/ request = "flush") /\ runState' # "running")
  /\ UNCHANGED <<op, at, open>>

\* STOP, RESUME and MIGRATION events come whenever QEMU likes.
SendEvent ==
  /\ op # "none" /\ inbox = <<>>
  /\ inbox' = <<Event>>
  /\ UNCHANGED <<op, at, request, open, monitorVars>>

MigrationEnds ==
  /\ \/ /\ migration = "active"
        /\ \/ migration' = "completed" /\ runState' = "postmigrate"
           \/ migration' = "failed" /\ UNCHANGED runState
     \/ /\ migration = "loading"
        /\ migration' = "completed" /\ runState' = "paused"
  /\ UNCHANGED <<clientVars, flushed>>
------------------------------------------------------------------------------
\* Mutant of Stay: resume does not wait for the state to be loaded.
StayNever(value) == FALSE

\* The loops of _wait_for_status and pause_and_save ask again.
Stay(value) ==
  \/ op = "save" /\ at = 3 /\ value # "paused"
  \/ op = "save" /\ at = 7 /\ value \in {"none", "active"}
  \/ op = "resume" /\ at = 4 /\ value \notin {"paused", "running"}

Refused(value) == value = "error" \/ (op = "save" /\ at = 7 /\ value = "failed")
IsLast(value) ==
  \/ at = Len(Script[op])
  \/ op = "resume" /\ at = 5 /\ value # "paused"

SkipEvent ==
  /\ op # "none" /\ inbox # <<>> /\ Head(inbox) = Event
  /\ inbox' = Tail(inbox)
  /\ UNCHANGED <<op, at, request, open, monitorVars>>

\* The client has an answer to read.
Answered == op # "none" /\ inbox # <<>> /\ Head(inbox) # Event

\* Mutant of Proceed: whatever comes next is taken for the answer.
ProceedOnEvent ==
  /\ op # "none" /\ inbox # <<>>
  /\ LET value == Head(inbox).value
     IN  /\ ~Refused(value) /\ (Stay(value) \/ ~IsLast(value))
         /\ at' = IF Stay(value) THEN at ELSE at + 1
  /\ Sent(Script[op][at'])
  /\ inbox' = Tail(inbox)
  /\ UNCHANGED <<op, monitorVars>>

\* The answer leads to the next command, or to the same one again.
Proceed ==
  /\ Answered
  /\ LET value == Head(inbox).value
     IN  /\ ~Refused(value) /\ (Stay(value) \/ ~IsLast(value))
         /\ at' = IF Stay(value) THEN at ELSE at + 1
  /\ Sent(Script[op][at'])
  /\ inbox' = Tail(inbox)
  /\ UNCHANGED <<op, monitorVars>>

\* The script ends well; the client is closed.
Finishes ==
  /\ Answered
  /\ LET value == Head(inbox).value
     IN  ~Refused(value) /\ ~Stay(value) /\ IsLast(value)
  /\ Close
  /\ UNCHANGED monitorVars

\* An error answer, a read that times out, a deadline, a lost connection or
\* a cancellation: the exception leaves through the same `finally`.
GivesUp == Close /\ UNCHANGED monitorVars

\* The client takes no answer to an earlier command for the one it waits for.
AnswersMatch ==
  \A i \in DOMAIN inbox : op # "none" /\ inbox[i] # Event => inbox[i].of = Script[op][at]
==============================================================================
