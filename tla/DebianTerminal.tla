--------------------------- MODULE DebianTerminal ---------------------------
(***************************************************************************)
(* DebianTerminal and TerminalCommand (guest/debian.py): a test runs shell *)
(* commands in the guest by typing them into a terminal it cannot see, and *)
(* learns what became of them through files served over HTTP.  A typed     *)
(* command may arrive late, in another window, spoilt, or twice; a call    *)
(* may give up at any await that has a deadline.                           *)
(*                                                                         *)
(* The test calls one command after another; `at` is where the call is.    *)
(***************************************************************************)
EXTENDS GuestDesktop

CONSTANT
  Script       \* Script[c]: the ways in which the test may call command c

Probe == 0      \* the `sudo -n true` of _requires_password
Kinds == {"output", "assert", "admin", "x11", "launch"}   \* run is an output unread

ASSUME ScriptAssumption == Script \in [1..Last -> SUBSET Kinds]

VARIABLES
  kind,              \* kind[c]: how a command is called
  at,                \* where the call is, idle between calls
  cmd,               \* the command it is about
  goal,              \* the admin command a probe is made for, 0 when none
  try,               \* how often the envelope was typed
  latest,            \* the output the call read last
  result,            \* result[c]: how the call of a command ended
  serverStarted,     \* _DebianTerminalState
  focused,
  passwordRequired,
  retried            \* some envelope was typed a second time

hostVars == <<kind, at, cmd, goal, try, latest, result, serverStarted, focused,
              passwordRequired, retried>>
vars == <<guestVars, hostVars>>

TypeOK ==
  /\ kind \in [Commands -> Kinds \cup {"run", "none"}]
  /\ at \in {"idle", "focus", "ensure", "boot", "search", "type", "started", "poll",
             "fragments", "exited", "wait", "output"}
  /\ cmd \in Commands /\ goal \in Commands /\ try \in 0..2
  /\ latest \in {"none", "part", "all"}
  /\ result \in [Commands -> {"none", "ok", "failed", "unknown", "unmatched", "late", "refused"}]
  /\ serverStarted \in BOOLEAN /\ focused \in BOOLEAN /\ retried \in BOOLEAN
  /\ passwordRequired \in {"unknown", "yes", "no"}
  /\ front \in 0..Len(shells) /\ Len(shells) <= MaxShells
  /\ serverStarted => server

Init ==
  /\ DesktopInit
  /\ kind = [c \in Commands |-> IF c = Probe THEN "run" ELSE "none"]
  /\ at = "idle" /\ cmd = Probe /\ goal = 0 /\ try = 0 /\ latest = "none"
  /\ result = [c \in Commands |-> "none"]
  /\ serverStarted = FALSE /\ focused = FALSE /\ passwordRequired = "unknown"
  /\ retried = FALSE

Send(lines) ==
  /\ Len(keys \o lines) <= MaxLag
  /\ keys' = keys \o lines
  /\ UNCHANGED <<opening, front, shells, server, files, ran, exit, needed, leaked, mishaps, raced>>
Quiet == UNCHANGED guestVars
Goto(to) == at' = to /\ UNCHANGED <<kind, cmd, goal, latest, result, passwordRequired>>
------------------------------------------------------------------------------
(***************************************************************************)
(* command and _password_command: the first admin command of a guest with  *)
(* a sudo password is preceded by a probe.                                 *)
(***************************************************************************)
Call(c, how) ==
  /\ at = "idle" /\ kind[c] = "none" /\ \A d \in 1..c - 1 : kind[d] # "none"
  /\ kind' = [kind EXCEPT ![c] = how]
  /\ IF how = "admin" /\ passwordRequired = "unknown"
     THEN cmd' = Probe /\ goal' = c
     ELSE cmd' = c /\ goal' = 0
  /\ at' = IF how = "x11" THEN "focus" ELSE "ensure"
  /\ try' = 0 /\ latest' = "none"
  /\ UNCHANGED <<guestVars, result, serverStarted, focused, passwordRequired, retried>>

\* How the call of the current command ends.  Any error of the probe means
\* that a password is needed.
Finish(r) ==
  /\ result' = [result EXCEPT ![cmd] = r] /\ UNCHANGED kind
  /\ IF goal = 0
     THEN at' = "idle" /\ UNCHANGED <<cmd, goal, passwordRequired>>
     ELSE /\ at' = "ensure" /\ cmd' = goal /\ goal' = 0
          /\ passwordRequired' = IF r = "ok" THEN "no" ELSE "yes"
  /\ try' = 0 /\ latest' = "none"

\* focus: the flag decides whether a terminal is opened.
Focus ==
  /\ at = "focus" /\ Goto("ensure")
  /\ IF focused THEN Quiet ELSE Send(<<Open>>)
  /\ focused' = TRUE /\ UNCHANGED <<try, serverStarted, retried>>

(***************************************************************************)
(* _ensure_server.                                                         *)
(***************************************************************************)
UseServer ==
  /\ at = "ensure" /\ (serverStarted \/ server)
  /\ Goto("type")
  /\ IF focused THEN Quiet ELSE Send(<<Open>>)
  /\ focused' = TRUE /\ serverStarted' = TRUE /\ UNCHANGED <<try, retried>>

\* The probe of one second got no answer: open a terminal and start the server.
BootstrapByShortcut ==
  /\ at = "ensure" /\ ~serverStarted
  /\ Goto("boot") /\ Send(<<Open, Serve>>)
  /\ UNCHANGED <<try, serverStarted, focused, retried>>

BootstrapBySearch ==
  /\ at = "boot" /\ Goto("search") /\ Send(<<Open, Serve>>)
  /\ UNCHANGED <<try, serverStarted, focused, retried>>

Bootstrapped ==
  /\ at \in {"boot", "search"} /\ server /\ Goto("type") /\ Quiet
  /\ serverStarted' = TRUE /\ focused' = TRUE /\ UNCHANGED <<try, retried>>

NoTerminal ==
  /\ at = "search" /\ Finish("refused") /\ Quiet
  /\ UNCHANGED <<serverStarted, focused, retried>>
------------------------------------------------------------------------------
(***************************************************************************)
(* _send: the envelope is typed, and once more in a new terminal when its  *)
(* marker does not appear in time.                                         *)
(***************************************************************************)
Asks == kind[cmd] = "admin" /\ passwordRequired = "yes"
Envelope == Line("envelope", cmd, Asks)

Type ==
  /\ at = "type" /\ kind[cmd] # "launch"
  /\ Goto("started") /\ Send(<<Envelope>>) /\ try' = 1
  /\ UNCHANGED <<serverStarted, focused, retried>>

\* launch: the application it starts takes the focus.
Launch ==
  /\ at = "type" /\ kind[cmd] = "launch"
  /\ Send(<<Line("launch", cmd, FALSE)>>) /\ Finish("ok")
  /\ focused' = FALSE /\ UNCHANGED <<serverStarted, retried>>

\* Mutant of Passwords: the password is typed for every admin command.
PasswordsAlways == IF kind[cmd] = "admin" THEN <<Password>> ELSE <<>>

\* The password follows when the marker is there; sudo is given a second.
Passwords == IF Asks THEN <<Password>> ELSE <<>>
Started ==
  /\ at = "started" /\ files[cmd].started
  /\ Goto(IF kind[cmd] = "assert" THEN "poll" ELSE "wait")
  /\ Send(Passwords) /\ UNCHANGED <<try, serverStarted, focused, retried>>

TypeAgain ==
  /\ at = "started" /\ try = 1
  /\ Goto("started") /\ Send(<<Open, Envelope>>)
  /\ try' = 2 /\ focused' = TRUE /\ retried' = TRUE /\ UNCHANGED serverStarted

NotAccepted ==
  /\ at = "started" /\ try = 2 /\ Finish("refused") /\ Quiet
  /\ UNCHANGED <<serverStarted, focused, retried>>
------------------------------------------------------------------------------
(***************************************************************************)
(* TerminalCommand.wait, output and wait_for_output.  A request finds what *)
(* is in the file at that moment, an empty status file as well.            *)
(***************************************************************************)
Status == files[cmd].status

\* Mutant of Succeeds: the marker of the start counts as the status.
SucceedsStarted == files[cmd].started
Succeeds == Status = "0"

\* A native X11 action has minimised the terminal it ran in.
WaitSucceeds ==
  /\ at = "wait" /\ Succeeds /\ Quiet
  /\ IF kind[cmd] = "output"
     THEN Goto("output") /\ UNCHANGED try
     ELSE Finish("ok")
  /\ focused' = (focused /\ kind[cmd] # "x11") /\ UNCHANGED <<serverStarted, retried>>

WaitFails ==
  /\ at = "wait" /\ Status \in {"1", "empty"} /\ Quiet
  /\ Finish(IF Status = "1" THEN "failed" ELSE "unknown")
  /\ UNCHANGED <<serverStarted, focused, retried>>

ReadOutput ==
  /\ at \in {"output", "poll"} /\ Quiet
  /\ latest' = files[cmd].out /\ UNCHANGED kind
  /\ IF at = "poll"
     THEN at' = "fragments" /\ UNCHANGED <<cmd, goal, try, result, passwordRequired>>
     ELSE at' = "idle" /\ result' = [result EXCEPT ![cmd] = "ok"]
          /\ UNCHANGED <<cmd, goal, try, passwordRequired>>
  /\ UNCHANGED <<serverStarted, focused, retried>>

\* The fragments are those of the complete output.
FoundFragments ==
  /\ at = "fragments" /\ latest = "all" /\ Goto("wait") /\ Quiet
  /\ UNCHANGED <<try, serverStarted, focused, retried>>

PollAgain ==
  /\ at = "fragments" /\ latest # "all" /\ Status \in {"none", "empty"}
  /\ Goto("poll") /\ Quiet
  /\ UNCHANGED <<try, serverStarted, focused, retried>>

\* The command has ended: wait reports a status other than 0 first.
Unmatched ==
  /\ at = "fragments" /\ latest # "all" /\ Status \in {"0", "1"} /\ Quiet
  /\ Finish(IF Status = "0" THEN "unmatched" ELSE "failed")
  /\ UNCHANGED <<serverStarted, focused, retried>>

Expire ==
  /\ at \in {"wait", "output", "poll", "fragments"} /\ Finish("late") /\ Quiet
  /\ UNCHANGED <<serverStarted, focused, retried>>
------------------------------------------------------------------------------
CallStep ==
  \/ Focus \/ UseServer \/ BootstrapByShortcut \/ BootstrapBySearch \/ Bootstrapped
  \/ NoTerminal \/ Type \/ Launch \/ Started \/ TypeAgain \/ NotAccepted
  \/ WaitSucceeds \/ WaitFails \/ ReadOutput \/ FoundFragments \/ PollAgain \/ Unmatched
  \/ Expire

\* The probe ends with 1 if a password is needed; an X11 action starts by
\* minimising the terminal.
ShellStep(k) ==
  LET c == shells[k].cmd IN
  \/ ReadLine(k) \/ Output(k) \/ WriteStatus(k)
  \/ \E code \in IF c = Probe THEN {IF needed THEN 1 ELSE 0} ELSE {0, 1} :
       Mark(k, code, kind[c] = "x11") \/ ReadPassword(k, code)

GuestStep ==
  /\ \/ Deliver \/ MapTerminal \/ StealFocus
     \/ \E k \in 1..Len(shells) : ShellStep(k)
  /\ UNCHANGED hostVars

Over == at = "idle" /\ (\A c \in Commands : kind[c] # "none") /\ UNCHANGED vars

Next == (\E c \in 1..Last : \E how \in Script[c] : Call(c, how)) \/ CallStep \/ GuestStep \/ Over
Spec == Init /\ [][Next]_vars
------------------------------------------------------------------------------
\* A command is executed at most once, however often, and in however many
\* terminals, its envelope arrives, unless two shells look for its marker at
\* the same time (_send).
RunsOnce == raced \/ \A c \in Commands : ran[c] <= 1

\* The terminals keep their shape, and no envelope is obeyed twice (_send).
TerminalInv == TypeOK /\ RunsOnce

\* A call that returns has seen its command through: it was executed and ended
\* with status 0, and output returned all it wrote.  A call that reports a
\* status has not made it up.
ReturnsTruthful ==
  raced \/ \A c \in Commands :
    /\ (result[c] = "ok" /\ kind[c] # "launch") => ran[c] = 1 /\ exit[c] = 0
    /\ (result[c] = "ok" /\ kind[c] = "output" /\ c = cmd /\ at = "idle") => latest = "all"
    /\ result[c] = "failed" => exit[c] = 1

\* As long as every line arrives in the terminal it was meant for, the first
\* time, and the probe was right, only sudo reads the password
\* (_password_command): the flag `focused` and the marker see to it, whatever
\* the commands before did to the focus.
PasswordStays ==
  leaked => \/ mishaps # {} \/ retried
            \/ passwordRequired = "yes" /\ ~needed

(***************************************************************************)
(* What a comment and the README say of the program.                       *)
(***************************************************************************)
\* The password is never a line of a shell (guest/debian.py, _password_command).
PasswordNeverLeaks == ~leaked

\* The envelope can be sent again without running the command twice (guest/debian.py,
\* _send).
EnvelopeIdempotent == \A c \in Commands : ran[c] <= 1

\* assert_run accepts a command that emits what is asked for and ends with
\* status 0 (README, Guest Commands).
AssertRunTruthful == \A c \in Commands : result[c] # "unmatched"
==============================================================================
