---------------------------- MODULE GuestDesktop ----------------------------
(***************************************************************************)
(* The guest's desktop as guest/debian.py relies on it: keys arrive in the *)
(* order they were sent, some time after VNC has acknowledged them, at the *)
(* window that has the focus then; a terminal opens some time after its    *)
(* shortcut; a shell reads one line after another and writes the files of  *)
(* its commands in /tmp, which an HTTP server shows to the host.           *)
(*                                                                         *)
(* All of it is external to the program, except the line of a command: the *)
(* envelope of DebianTerminal._send, which a shell executes.               *)
(***************************************************************************)
EXTENDS Integers, Sequences

CONSTANTS
  Last,        \* a test gives the commands 1..Last; 0 is the probe for sudo
  MaxShells,   \* bound: terminals opened
  MaxLag       \* bound: lines sent and not yet delivered

ASSUME DesktopAssumption ==
  Last \in Nat /\ MaxShells \in Nat /\ MaxLag \in Nat

VARIABLES
  keys,      \* sent and not yet delivered: lines and requests for a terminal
  opening,   \* terminals asked for and not yet mapped
  front,     \* the window with the focus: 0 the desktop, k the k-th terminal
  shells,    \* shells[k]: its unread lines, and the command it executes
  server,    \* the HTTP server runs
  files,     \* files[c]: the .started, .out and status files of a command
  ran,       \* ran[c]: how often the body of a command was executed
  exit,      \* exit[c]: the status of its last execution
  needed,    \* sudo asks for a password in this guest
  leaked,    \* a password was read by something other than sudo
  mishaps,   \* what went wrong with the input so far
  raced      \* two shells tested for the marker of one command at a time

guestVars == <<keys, opening, front, shells, server, files, ran, exit, needed, leaked, mishaps, raced>>

Commands == 0..Last
NoFiles == [started |-> FALSE, out |-> "none", status |-> "none"]
Waiting == [input |-> <<>>, cmd |-> 0, stage |-> "prompt"]

DesktopInit ==
  /\ keys = <<>> /\ opening = 0 /\ front = 0 /\ shells = <<>>
  /\ server \in BOOLEAN      \* a restored guest may have one already
  /\ files = [c \in Commands |-> NoFiles]
  /\ ran = [c \in Commands |-> 0] /\ exit = [c \in Commands |-> 0]
  /\ needed \in BOOLEAN /\ leaked = FALSE /\ mishaps = {} /\ raced = FALSE

\* Window w takes the focus while terminal k should have it.
TakeFocus(w, k) ==
  /\ front' = w
  /\ mishaps' = mishaps \cup IF front # k THEN {"stolen"} ELSE {}

Line(what, c, sudo) == [what |-> what, cmd |-> c, sudo |-> sudo]
Open == Line("open", 0, FALSE)
Serve == Line("serve", 0, FALSE)
Password == Line("password", 0, FALSE)

Else(changed) ==   \* what a step leaves alone
  /\ UNCHANGED needed
  /\ ("keys" \notin changed => UNCHANGED keys)
  /\ ("opening" \notin changed => UNCHANGED opening)
  /\ ("front" \notin changed => UNCHANGED front)
  /\ ("shells" \notin changed => UNCHANGED shells)
  /\ ("server" \notin changed => UNCHANGED server)
  /\ ("files" \notin changed => UNCHANGED files)
  /\ ("ran" \notin changed => UNCHANGED <<ran, exit>>)
  /\ ("leaked" \notin changed => UNCHANGED leaked)
  /\ ("mishaps" \notin changed => UNCHANGED mishaps)
  /\ ("raced" \notin changed => UNCHANGED raced)
------------------------------------------------------------------------------
\* A line that arrives before the terminal it was meant for is mapped is early.
Deliver ==
  /\ keys # <<>> /\ keys' = Tail(keys)
  /\ IF Head(keys) = Open
     THEN opening' = opening + 1 /\ Else({"keys", "opening"})
     ELSE /\ IF front = 0
             THEN UNCHANGED shells
             ELSE shells' = [shells EXCEPT ![front].input = Append(@, Head(keys))]
          /\ leaked' = (leaked \/ (Head(keys) = Password /\ front = 0))
          /\ mishaps' = mishaps \cup IF opening > 0 THEN {"early"} ELSE {}
          /\ Else({"keys", "shells", "leaked", "mishaps"})

MapTerminal ==
  /\ opening > 0 /\ opening' = opening - 1
  /\ \/ /\ Len(shells) < MaxShells
        /\ shells' = Append(shells, Waiting) /\ front' = Len(shells) + 1 /\ UNCHANGED mishaps
     \/ /\ Len(shells) = MaxShells
        /\ mishaps' = mishaps \cup {"ignored"} /\ UNCHANGED <<shells, front>>
  /\ Else({"opening", "shells", "front", "mishaps"})

\* A window of the desktop comes to the front, once, and as the first mishap.
StealFocus ==
  /\ front # 0 /\ mishaps = {} /\ TakeFocus(0, 0) /\ Else({"front", "mishaps"})

\* Mutant of Begins: the envelope does not look for the marker.
BeginsAnyway(c) == TRUE

\* Reading a line at the prompt.  The envelope tests for .started, then writes
\* it, then starts the command; sudo waits for the whole of a password line.
Begins(c) == ~files[c].started

ReadLine(k) ==
  /\ shells[k].stage = "prompt" /\ shells[k].input # <<>>
  /\ LET line == Head(shells[k].input)
         rest == [shells[k] EXCEPT !.input = Tail(@)]
         starts == line.what = "envelope" /\ Begins(line.cmd)
     IN /\ shells' = [shells EXCEPT ![k] =
              IF starts
              THEN [rest EXCEPT !.cmd = line.cmd,
                      !.stage = IF line.sudo /\ needed THEN "mark sudo" ELSE "mark"]
              ELSE rest]
        /\ raced' = (raced \/ (starts /\ \E j \in 1..Len(shells) :
                       shells[j].cmd = line.cmd /\ shells[j].stage \in {"mark", "mark sudo"}))
        /\ server' = (server \/ line = Serve)
        /\ leaked' = (leaked \/ line = Password)
        /\ IF line.what = "launch" THEN TakeFocus(0, k) ELSE UNCHANGED <<front, mishaps>>
        /\ Else({"shells", "server", "leaked", "front", "mishaps", "raced"})

\* The body runs: its output appears bit by bit.  It may put its terminal away.
Execute(k, code, away) ==
  LET c == shells[k].cmd IN
  /\ ran' = [ran EXCEPT ![c] = @ + 1] /\ exit' = [exit EXCEPT ![c] = code]
  /\ files' = [files EXCEPT ![c].started = TRUE, ![c].out = "part"]
  /\ IF away THEN TakeFocus(0, k) ELSE UNCHANGED <<front, mishaps>>

Mark(k, code, away) ==
  \/ /\ shells[k].stage = "mark"
     /\ Execute(k, code, away)
     /\ shells' = [shells EXCEPT ![k].stage = "output"]
     /\ Else({"ran", "files", "front", "mishaps", "shells"})
  \/ /\ shells[k].stage = "mark sudo"
     /\ files' = [files EXCEPT ![shells[k].cmd].started = TRUE]
     /\ shells' = [shells EXCEPT ![k].stage = "sudo"]
     /\ Else({"files", "shells"})

\* sudo -S reads one line; anything but the password ends it with status 1.
ReadPassword(k, code) ==
  LET c == shells[k].cmd IN
  /\ shells[k].stage = "sudo" /\ shells[k].input # <<>>
  /\ IF Head(shells[k].input) = Password
     THEN Execute(k, code, FALSE)
     ELSE exit' = [exit EXCEPT ![c] = 1] /\ UNCHANGED <<ran, files, front, mishaps>>
  /\ shells' = [shells EXCEPT ![k].input = Tail(@), ![k].stage = "output"]
  /\ Else({"ran", "files", "front", "mishaps", "shells"})

\* The rest of the output; then the shell makes the status file, and only then
\* writes the status into it.
Output(k) ==
  LET c == shells[k].cmd IN
  /\ shells[k].stage = "output"
  /\ files' = [files EXCEPT ![c].out = "all", ![c].status = "empty"]
  /\ shells' = [shells EXCEPT ![k].stage = "status"]
  /\ Else({"files", "shells"})

WriteStatus(k) ==
  LET c == shells[k].cmd IN
  /\ shells[k].stage = "status"
  /\ files' = [files EXCEPT ![c].status = IF exit[c] = 0 THEN "0" ELSE "1"]
  /\ shells' = [shells EXCEPT ![k].stage = "prompt", ![k].cmd = 0]
  /\ Else({"files", "shells"})
==============================================================================
