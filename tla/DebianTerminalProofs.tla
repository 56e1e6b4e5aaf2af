------------------------- MODULE DebianTerminalProofs -------------------------
(***************************************************************************)
(* Proofs about DebianTerminal: what a test may believe of the commands it *)
(* types into a terminal it cannot see, for any number of commands and     *)
(* terminals and any delay of the keys.                                    *)
(***************************************************************************)
EXTENDS DebianTerminal, SequenceTheorems, TLAPS

------------------------------------------------------------------------------
(* Types *)

Lines == {Open, Serve, Password}
           \cup {Line(what, c, sudo) : what \in {"envelope", "launch"},
                                      c \in Commands, sudo \in BOOLEAN}
Stages == {"prompt", "mark", "mark sudo", "sudo", "output", "status"}
Shells == [input : Seq(Lines), cmd : Commands, stage : Stages]
Files == [started : BOOLEAN, out : {"none", "part", "all"},
          status : {"none", "empty", "0", "1"}]

GuestTyped ==
  /\ keys \in Seq(Lines) /\ opening \in Nat /\ shells \in Seq(Shells)
  /\ files \in [Commands -> Files]
  /\ ran \in [Commands -> Nat] /\ exit \in [Commands -> {0, 1}]
  /\ server \in BOOLEAN /\ leaked \in BOOLEAN /\ raced \in BOOLEAN

Typed == TypeOK /\ GuestTyped

(***************************************************************************)
(* Unless two shells have tested for one marker at a time: one shell at    *)
(* most is busy with a command, and the files tell how far it is.          *)
(***************************************************************************)
Executed(times, status) == times = 1 \/ (times = 0 /\ status = 1)

\* What the files of a command say while a shell is at a stage of it.
StageFits(stage, file, times, code) ==
  /\ stage \in {"mark", "mark sudo"} => ~file.started
  /\ stage \in {"sudo", "output", "status"} => file.started
  /\ stage \in {"sudo", "output"} => file.status = "none"
  /\ stage = "sudo" => times = 0
  /\ stage \in {"output", "status"} => Executed(times, code)
  /\ stage = "status" => file.status = "empty" /\ file.out = "all"

\* What the files of a command say of its execution.
FileFits(file, times, code) ==
  /\ ~file.started => times = 0 /\ file.status = "none"
  /\ times <= 1
  /\ file.status \in {"0", "1"} =>
       file.out = "all" /\ Executed(times, code) /\ (file.status = "0" <=> code = 0)

StagesFit ==
  \A k \in 1..Len(shells) :
    StageFits(shells[k].stage, files[shells[k].cmd], ran[shells[k].cmd], exit[shells[k].cmd])

OneShell ==
  \A j, k \in 1..Len(shells) :
    /\ shells[j].stage # "prompt" /\ shells[k].stage # "prompt"
    /\ shells[j].cmd = shells[k].cmd
    => j = k

FilesFit == \A c \in Commands : FileFits(files[c], ran[c], exit[c])

ResultsFit ==
  /\ \A c \in Commands : /\ result[c] = "ok" /\ kind[c] # "launch" => files[c].status = "0"
                         /\ result[c] = "failed" => files[c].status = "1"
  /\ at = "output" => files[cmd].status = "0"
  /\ result[cmd] = "ok" /\ kind[cmd] = "output" /\ at = "idle" => latest = "all"

\* What is called has a kind.
KindsFit ==
  /\ kind[Probe] = "run"
  /\ \A c \in Commands : kind[c] = "none" => result[c] = "none"
  /\ at # "idle" => kind[cmd] # "none"
  /\ goal # 0 => kind[goal] # "none"

TruthInv == KindsFit /\ (raced \/ (StagesFit /\ OneShell /\ FilesFit /\ ResultsFit))

(***************************************************************************)
(* As long as no input has gone astray and no envelope was typed again:    *)
(* the current envelope is the only one, and the last line, until its      *)
(* shell has written the marker; then sudo has that shell to itself until  *)
(* the password is there.                                                  *)
(***************************************************************************)
Calm == mishaps = {} /\ ~retried /\ needed

Fresh ==
  /\ \A c \in Commands : kind[c] = "none" => ~files[c].started
  /\ at \in {"focus", "ensure", "boot", "search", "type"} => ~files[cmd].started
  /\ goal # 0 => ~files[goal].started /\ goal # cmd
  /\ passwordRequired = "unknown" /\ goal = 0 => ~files[Probe].started

HostFits ==
  /\ at = "started" => try = 1
  /\ at \in {"type", "started"} => focused
  /\ at = "type" => serverStarted
  /\ at \in {"boot", "search"} => ~serverStarted

\* A command that is typed and not yet marked.
Pending == at = "started" /\ ~files[cmd].started
Settled == keys = <<>> /\ opening = 0

EnvelopesFit ==
  /\ \A i \in 1..Len(keys) : keys[i].what = "envelope" =>
       Pending /\ i = Len(keys) /\ keys[i].cmd = cmd /\ (keys[i].sudo <=> Asks)
  /\ \A k \in 1..Len(shells) : \A i \in 1..Len(shells[k].input) :
       shells[k].input[i].what = "envelope" =>
         /\ Pending /\ Settled /\ k = front /\ i = Len(shells[k].input)
         /\ shells[k].input[i].cmd = cmd /\ (shells[k].input[i].sudo <=> Asks)
  /\ \A k \in 1..Len(shells) : shells[k].stage \in {"mark", "mark sudo"} =>
       /\ Pending /\ Settled /\ k = front /\ shells[k].input = <<>>
       /\ shells[k].cmd = cmd /\ (shells[k].stage = "mark sudo" <=> Asks)

\* sudo waits in the terminal with the focus, and nothing is on its way to it.
SudoWaits == front # 0 /\ shells[front].stage = "sudo" /\ shells[front].input = <<>>

PasswordsFit ==
  /\ at = "started" /\ Asks /\ files[cmd].started => SudoWaits /\ Settled
  /\ \A i \in 1..Len(keys) : keys[i].what = "password" =>
       i = 1 /\ SudoWaits /\ opening = 0
  /\ \A k \in 1..Len(shells) : \A i \in 1..Len(shells[k].input) :
       shells[k].input[i].what = "password" => i = 1 /\ shells[k].stage = "sudo"

\* What a launch takes the focus from is not typed into any more.
LaunchesFit ==
  /\ \A i \in 1..Len(keys) : keys[i].what = "launch" =>
       /\ serverStarted
       /\ IF i = Len(keys) THEN ~focused ELSE keys[i + 1].what = "open"
  /\ \A k \in 1..Len(shells) : \A i \in 1..Len(shells[k].input) :
       shells[k].input[i].what = "launch" =>
         /\ serverStarted /\ i = Len(shells[k].input)
         /\ k = front => \/ opening > 0
                         \/ keys # <<>> /\ keys[1].what = "open"
                         \/ keys = <<>> /\ ~focused

CalmInv == Fresh /\ HostFits /\ EnvelopesFit /\ PasswordsFit /\ LaunchesFit
           /\ ~leaked /\ ~raced

\* A password is typed only where one was asked for.
NoPassword ==
  /\ ~leaked
  /\ \A i \in 1..Len(keys) : keys[i].what # "password"
  /\ \A k \in 1..Len(shells) : \A i \in 1..Len(shells[k].input) :
       shells[k].input[i].what # "password"

Asked ==
  /\ goal # 0 => passwordRequired = "unknown" /\ cmd = Probe /\ at \notin {"idle", "output"}
  /\ at # "idle" /\ cmd = Probe => goal # 0
  /\ passwordRequired # "yes" => NoPassword

PassInv == Asked /\ (Calm => CalmInv)

------------------------------------------------------------------------------
(* Sequences of lines and of shells *)

LEMMA LineFields ==
  /\ \A what, c, sudo : /\ Line(what, c, sudo).what = what
                        /\ Line(what, c, sudo).cmd = c
                        /\ Line(what, c, sudo).sudo = sudo
  /\ Open.what = "open" /\ Serve.what = "serve" /\ Password.what = "password"
BY DEF Line, Open, Serve, Password

LEMMA LinesSent ==
  /\ Probe \in Commands /\ Open \in Lines /\ Serve \in Lines /\ Password \in Lines
  /\ \A c \in Commands, sudo \in BOOLEAN :
       Line("envelope", c, sudo) \in Lines /\ Line("launch", c, sudo) \in Lines
<1>1. Probe \in Commands
  BY DesktopAssumption DEF Commands, Probe
<1>2. ASSUME NEW c \in Commands, NEW sudo \in BOOLEAN,
             NEW what \in {"envelope", "launch"}
      PROVE  Line(what, c, sudo) \in Lines
  BY DEF Lines
<1>3. Open \in Lines /\ Serve \in Lines /\ Password \in Lines
  BY DEF Lines
<1>4. QED
  BY <1>1, <1>2, <1>3

LEMMA LineKinds ==
  ASSUME NEW l \in Lines
  PROVE  /\ l.what \in {"open", "serve", "password", "envelope", "launch"}
         /\ l.what = "open" => l = Open
         /\ l.what = "serve" => l = Serve
         /\ l.what = "password" => l = Password
         /\ l.cmd \in Commands /\ l.sudo \in BOOLEAN
<1>1. 0 \in Commands
  BY LinesSent DEF Probe
<1>2. CASE l \in {Open, Serve, Password}
  <2>1. /\ Open.cmd = 0 /\ Serve.cmd = 0 /\ Password.cmd = 0
        /\ Open.sudo = FALSE /\ Serve.sudo = FALSE /\ Password.sudo = FALSE
    BY DEF Line, Open, Serve, Password
  <2>2. QED
    BY <1>1, <1>2, <2>1, LineFields
<1>3. CASE l \notin {Open, Serve, Password}
  <2>1. PICK what \in {"envelope", "launch"}, c \in Commands, sudo \in BOOLEAN :
          l = Line(what, c, sudo)
    BY <1>3 DEF Lines
  <2>2. l.what = what /\ l.cmd = c /\ l.sudo = sudo
    BY <2>1, LineFields
  <2>3. QED
    BY <2>2
<1>4. QED
  BY <1>2, <1>3

LEMMA SentOne ==
  ASSUME NEW S, NEW s \in Seq(S), NEW a \in S
  PROVE  /\ s \o <<a>> \in Seq(S) /\ Len(s \o <<a>>) = Len(s) + 1
         /\ \A i \in 1..Len(s) : (s \o <<a>>)[i] = s[i]
         /\ (s \o <<a>>)[Len(s) + 1] = a
<1>1. <<a>> \in Seq(S) /\ Len(<<a>>) = 1 /\ <<a>>[1] = a
  OBVIOUS
<1>2. Len(s) \in Nat
  BY LenProperties
<1>3. QED
  BY <1>1, <1>2, ConcatProperties

LEMMA SentTwo ==
  ASSUME NEW S, NEW s \in Seq(S), NEW a \in S, NEW b \in S
  PROVE  /\ s \o <<a, b>> \in Seq(S) /\ Len(s \o <<a, b>>) = Len(s) + 2
         /\ \A i \in 1..Len(s) : (s \o <<a, b>>)[i] = s[i]
         /\ (s \o <<a, b>>)[Len(s) + 1] = a
         /\ (s \o <<a, b>>)[Len(s) + 2] = b
<1>1. <<a, b>> \in Seq(S) /\ Len(<<a, b>>) = 2 /\ <<a, b>>[1] = a /\ <<a, b>>[2] = b
  OBVIOUS
<1>2. Len(s) \in Nat
  BY LenProperties
<1>3. QED
  BY <1>1, <1>2, ConcatProperties

LEMMA TailOf ==
  ASSUME NEW S, NEW s \in Seq(S), s # <<>>
  PROVE  /\ Len(s) \in Nat \ {0} /\ Head(s) = s[1] /\ Head(s) \in S
         /\ Tail(s) \in Seq(S) /\ Len(Tail(s)) = Len(s) - 1
         /\ \A i \in 1..Len(s) - 1 : Tail(s)[i] = s[i + 1] /\ i + 1 \in 1..Len(s)
<1>1. Len(s) \in Nat \ {0}
  BY EmptySeq
<1>2. /\ Head(s) = s[1] /\ Head(s) \in S /\ Tail(s) \in Seq(S)
      /\ Len(Tail(s)) = Len(s) - 1
      /\ \A i \in 1..Len(Tail(s)) : Tail(s)[i] = s[i + 1]
  BY HeadTailProperties
<1>3. \A i \in 1..Len(s) - 1 : i + 1 \in 1..Len(s)
  BY <1>1
<1>4. QED
  BY <1>1, <1>2, <1>3

LEMMA TailEnds ==
  ASSUME NEW S, NEW s \in Seq(S), s # <<>>
  PROVE  /\ Tail(s) # s
         /\ \A i \in 1..Len(s) - 1 : (i + 1 = Len(s) <=> i = Len(Tail(s))) /\ i + 1 # 1
<1>1. PICK m \in Nat \ {0} : m = Len(s)
  BY TailOf
<1>2. Len(Tail(s)) = m - 1
  BY <1>1, TailOf
<1>3. Tail(s) # s
  BY <1>1, <1>2
<1>4. \A i \in 1..m - 1 : (i + 1 = m <=> i = m - 1) /\ i + 1 # 1
  BY <1>1
<1>5. QED
  BY <1>1, <1>2, <1>3, <1>4

LEMMA ShellTypes ==
  ASSUME Typed, NEW k \in 1..Len(shells)
  PROVE  /\ Len(shells) \in Nat /\ shells[k] \in Shells
         /\ shells[k].input \in Seq(Lines)
         /\ shells[k].cmd \in Commands /\ shells[k].stage \in Stages
<1>1. Len(shells) \in Nat /\ shells[k] \in Shells
  BY LenProperties, ElementOfSeq DEF Typed, GuestTyped
<1>2. QED
  BY <1>1 DEF Shells

LEMMA FrontShell ==
  ASSUME Typed, front # 0
  PROVE  front \in 1..Len(shells)
<1>1. front \in 0..Len(shells) /\ Len(shells) \in Nat
  BY LenProperties DEF Typed, TypeOK, GuestTyped
<1>2. QED
  BY <1>1

\* Shell k becomes x.
Becomes(k, x) ==
  /\ shells' \in Seq(Shells) /\ Len(shells') = Len(shells) /\ shells'[k] = x
  /\ \A j \in 1..Len(shells) : j # k => shells'[j] = shells[j]

LEMMA ShellBecomes ==
  ASSUME Typed, NEW k \in 1..Len(shells), NEW x \in Shells,
         shells' = [shells EXCEPT ![k] = x]
  PROVE  Becomes(k, x)
BY ExceptSeq DEF Typed, GuestTyped, Becomes

------------------------------------------------------------------------------
(* What each step of the guest does *)

LEMMA DeliverDoes ==
  ASSUME Typed, Deliver
  PROVE  /\ keys # <<>> /\ Len(keys) \in Nat \ {0} /\ keys[1] \in Lines
         /\ keys' \in Seq(Lines) /\ Len(keys') = Len(keys) - 1
         /\ \A i \in 1..Len(keys) - 1 : keys'[i] = keys[i + 1] /\ i + 1 \in 1..Len(keys)
         /\ files' = files /\ ran' = ran /\ exit' = exit /\ server' = server
         /\ front' = front /\ needed' = needed /\ raced' = raced
         /\ keys[1].what = "open" =>
              /\ opening' = opening + 1 /\ shells' = shells
              /\ leaked' = leaked /\ mishaps' = mishaps
         /\ keys[1].what # "open" =>
              /\ opening' = opening /\ (opening > 0 => mishaps' # {})
              /\ mishaps \subseteq mishaps'
              /\ leaked' = (leaked \/ (keys[1] = Password /\ front = 0))
              /\ front = 0 => shells' = shells
              /\ front # 0 =>
                   shells' = [shells EXCEPT ![front].input = Append(@, keys[1])]
<1>1. keys # <<>> /\ keys' = Tail(keys) /\ keys \in Seq(Lines)
  BY DEF Deliver, Typed, GuestTyped
<1>2. /\ Len(keys) \in Nat \ {0} /\ Head(keys) = keys[1] /\ keys[1] \in Lines
      /\ keys' \in Seq(Lines) /\ Len(keys') = Len(keys) - 1
      /\ \A i \in 1..Len(keys) - 1 : keys'[i] = keys[i + 1] /\ i + 1 \in 1..Len(keys)
  BY <1>1, TailOf
<1>3. CASE Head(keys) = Open
  <2>1. keys[1].what = "open"
    BY <1>2, <1>3, LineFields
  <2>2. /\ opening' = opening + 1 /\ shells' = shells /\ leaked' = leaked
        /\ mishaps' = mishaps /\ files' = files /\ ran' = ran /\ exit' = exit
        /\ server' = server /\ front' = front /\ needed' = needed /\ raced' = raced
    BY <1>3 DEF Deliver, Else
  <2>3. QED
    BY <1>1, <1>2, <2>1, <2>2
<1>4. CASE Head(keys) # Open
  <2>1. /\ files' = files /\ ran' = ran /\ exit' = exit /\ opening' = opening
        /\ server' = server /\ front' = front /\ needed' = needed /\ raced' = raced
    BY <1>4 DEF Deliver, Else
  <2>2. /\ mishaps' = mishaps \cup IF opening > 0 THEN {"early"} ELSE {}
        /\ leaked' = (leaked \/ (Head(keys) = Password /\ front = 0))
        /\ IF front = 0
             THEN UNCHANGED shells
             ELSE shells' = [shells EXCEPT ![front].input = Append(@, Head(keys))]
    BY <1>4 DEF Deliver
  <2>3. keys[1].what # "open" => mishaps \subseteq mishaps' /\ (opening > 0 => mishaps' # {})
    BY <2>2
  <2>4. keys[1].what # "open"
    BY <1>2, <1>4, LineKinds
  <2>5. QED
    BY <1>1, <1>2, <2>1, <2>2, <2>3, <2>4
<1>5. QED
  BY <1>3, <1>4

LEMMA DeliverTyped ==
  ASSUME Typed, Deliver, UNCHANGED hostVars
  PROVE  /\ Typed' /\ Len(shells') = Len(shells)
         /\ \A k \in 1..Len(shells) :
              /\ shells'[k].stage = shells[k].stage /\ shells'[k].cmd = shells[k].cmd
              /\ k # front \/ keys[1].what = "open" => shells'[k].input = shells[k].input
              /\ k = front /\ keys[1].what # "open" =>
                   shells'[k].input = Append(shells[k].input, keys[1])
<1>1. /\ keys' \in Seq(Lines) /\ keys[1] \in Lines
      /\ files' = files /\ ran' = ran /\ exit' = exit /\ server' = server
      /\ front' = front /\ raced' = raced
      /\ opening' \in {opening, opening + 1} /\ leaked' \in BOOLEAN
      /\ keys[1].what = "open" \/ front = 0 => shells' = shells
      /\ keys[1].what # "open" /\ front # 0 =>
           shells' = [shells EXCEPT ![front].input = Append(@, keys[1])]
  BY DeliverDoes DEF Typed, GuestTyped
<1>2. front \in 0..Len(shells) /\ Len(shells) \in Nat /\ opening \in Nat
  BY LenProperties DEF Typed, GuestTyped, TypeOK
<1>3. /\ shells' \in Seq(Shells) /\ Len(shells') = Len(shells)
      /\ \A k \in 1..Len(shells) :
              /\ shells'[k].stage = shells[k].stage /\ shells'[k].cmd = shells[k].cmd
              /\ k # front \/ keys[1].what = "open" => shells'[k].input = shells[k].input
              /\ k = front /\ keys[1].what # "open" =>
                   shells'[k].input = Append(shells[k].input, keys[1])
  <2>1. CASE keys[1].what = "open" \/ front = 0
    BY <1>1, <1>2, <2>1 DEF Typed, GuestTyped
  <2>2. CASE keys[1].what # "open" /\ front # 0
    <3>1. front \in 1..Len(shells)
      BY <1>2, <2>2
    <3>2. /\ shells[front] \in Shells /\ shells[front].input \in Seq(Lines)
      BY <3>1, ShellTypes
    <3>3. Append(shells[front].input, keys[1]) \in Seq(Lines)
      BY <1>1, <3>2, AppendProperties
    <3>4. PICK x : x = [shells[front] EXCEPT !.input = Append(@, keys[1])]
      OBVIOUS
    <3>5. /\ x \in Shells /\ x.input = Append(shells[front].input, keys[1])
          /\ x.stage = shells[front].stage /\ x.cmd = shells[front].cmd
      BY <3>2, <3>3, <3>4 DEF Shells
    <3>6. shells' = [shells EXCEPT ![front] = x]
      BY <1>1, <2>2, <3>4
    <3>7. Becomes(front, x)
      BY <3>1, <3>5, <3>6, ShellBecomes
    <3>8. QED
      BY <2>2, <3>5, <3>7 DEF Becomes
  <2>3. QED
    BY <2>1, <2>2
<1>4. GuestTyped'
  BY <1>1, <1>2, <1>3 DEF Typed, GuestTyped
<1>5. TypeOK'
  BY <1>1, <1>3 DEF Typed, TypeOK, hostVars
<1>6. QED
  BY <1>3, <1>4, <1>5 DEF Typed

LEMMA MapTerminalDoes ==
  ASSUME Typed, MapTerminal, UNCHANGED hostVars
  PROVE  /\ Typed' /\ opening > 0 /\ opening' = opening - 1
         /\ keys' = keys /\ files' = files /\ ran' = ran /\ exit' = exit
         /\ leaked' = leaked /\ needed' = needed /\ raced' = raced
         /\ mishaps \subseteq mishaps'
         /\ \/ shells' = shells /\ front' = front /\ mishaps' # {}
            \/ /\ Len(shells) \in Nat
               /\ Len(shells') = Len(shells) + 1 /\ front' = Len(shells) + 1
               /\ \A k \in 1..Len(shells) : shells'[k] = shells[k]
               /\ shells'[Len(shells) + 1] = Waiting
<1>1. /\ opening > 0 /\ opening' = opening - 1 /\ opening \in Nat
      /\ keys' = keys /\ files' = files /\ ran' = ran /\ exit' = exit
      /\ leaked' = leaked /\ needed' = needed /\ raced' = raced /\ server' = server
  BY DEF MapTerminal, Else, Typed, GuestTyped
<1>2. /\ shells \in Seq(Shells) /\ Len(shells) \in Nat /\ front \in 0..Len(shells)
      /\ Waiting \in Shells
  <2>1. Waiting \in Shells
    <3>1. 0 \in Commands /\ <<>> \in Seq(Lines)
      BY LinesSent DEF Probe
    <3>2. QED
      BY <3>1 DEF Waiting, Shells, Stages
  <2>2. QED
    BY <2>1, LenProperties DEF Typed, GuestTyped, TypeOK
<1>3. CASE Len(shells) < MaxShells
  <2>1. shells' = Append(shells, Waiting) /\ front' = Len(shells) + 1 /\ mishaps' = mishaps
    BY <1>3 DEF MapTerminal
  <2>2. /\ shells' \in Seq(Shells) /\ Len(shells') = Len(shells) + 1
        /\ \A k \in 1..Len(shells) : shells'[k] = shells[k]
        /\ shells'[Len(shells) + 1] = Waiting
    BY <1>2, <2>1, AppendProperties
  <2>3. Len(shells') <= MaxShells /\ front' \in 0..Len(shells')
    BY <1>2, <1>3, <2>1, <2>2, DesktopAssumption
  <2>4. TypeOK'
    BY <1>1, <2>3 DEF Typed, TypeOK, hostVars
  <2>5. GuestTyped'
    BY <1>1, <2>2 DEF Typed, GuestTyped
  <2>6. QED
    BY <1>1, <1>2, <2>1, <2>2, <2>4, <2>5 DEF Typed
<1>4. CASE ~(Len(shells) < MaxShells)
  <2>1. shells' = shells /\ front' = front /\ mishaps' = mishaps \cup {"ignored"}
    BY <1>4 DEF MapTerminal
  <2>2. TypeOK' /\ GuestTyped'
    BY <1>1, <2>1 DEF Typed, TypeOK, GuestTyped, hostVars
  <2>3. QED
    BY <1>1, <2>1, <2>2 DEF Typed
<1>5. QED
  BY <1>3, <1>4

\* The line that is read, and what becomes of the shell.
LEMMA ReadLineDoes ==
  ASSUME Typed, NEW k \in 1..Len(shells), ReadLine(k), UNCHANGED hostVars
  PROVE  /\ Typed' /\ shells[k].stage = "prompt" /\ shells[k].input # <<>>
         /\ shells[k].input[1] \in Lines
         /\ Len(shells') = Len(shells) /\ shells'[k].input = Tail(shells[k].input)
         /\ \A j \in 1..Len(shells) : j # k => shells'[j] = shells[j]
         /\ IF shells[k].input[1].what = "envelope"
               /\ ~files[shells[k].input[1].cmd].started
            THEN /\ shells'[k].cmd = shells[k].input[1].cmd
                 /\ shells'[k].stage = IF shells[k].input[1].sudo /\ needed
                                       THEN "mark sudo" ELSE "mark"
            ELSE shells'[k].cmd = shells[k].cmd /\ shells'[k].stage = "prompt"
         /\ keys' = keys /\ opening' = opening /\ files' = files /\ ran' = ran
         /\ exit' = exit /\ needed' = needed
         /\ leaked' = (leaked \/ shells[k].input[1] = Password)
         /\ raced' = (raced \/
              /\ shells[k].input[1].what = "envelope"
              /\ ~files[shells[k].input[1].cmd].started
              /\ \E j \in 1..Len(shells) : /\ shells[j].cmd = shells[k].input[1].cmd
                                           /\ shells[j].stage \in {"mark", "mark sudo"})
         /\ IF shells[k].input[1].what = "launch"
            THEN front' = 0 /\ (front # k => mishaps' # {}) /\ mishaps \subseteq mishaps'
            ELSE front' = front /\ mishaps' = mishaps
<1>1. /\ shells[k].stage = "prompt" /\ shells[k].input # <<>>
      /\ shells[k] \in Shells /\ shells[k].input \in Seq(Lines)
      /\ shells[k].cmd \in Commands /\ Len(shells) \in Nat
  BY ShellTypes DEF ReadLine
<1>2. PICK line \in Lines : line = Head(shells[k].input) /\ line = shells[k].input[1]
  BY <1>1, TailOf
<1>3. Tail(shells[k].input) \in Seq(Lines)
  BY <1>1, TailOf
<1> DEFINE starts == line.what = "envelope" /\ Begins(line.cmd)
           rest == [shells[k] EXCEPT !.input = Tail(@)]
<1>4. /\ shells' = [shells EXCEPT ![k] =
           IF starts
           THEN [rest EXCEPT !.cmd = line.cmd,
                   !.stage = IF line.sudo /\ needed THEN "mark sudo" ELSE "mark"]
           ELSE rest]
      /\ raced' = (raced \/ (starts /\ \E j \in 1..Len(shells) :
           shells[j].cmd = line.cmd /\ shells[j].stage \in {"mark", "mark sudo"}))
      /\ server' = (server \/ line = Serve)
      /\ leaked' = (leaked \/ line = Password)
      /\ IF line.what = "launch" THEN TakeFocus(0, k) ELSE UNCHANGED <<front, mishaps>>
      /\ Else({"shells", "server", "leaked", "front", "mishaps", "raced"})
  BY <1>2 DEF ReadLine
<1>5. PICK x : x = IF starts
                   THEN [rest EXCEPT !.cmd = line.cmd,
                           !.stage = IF line.sudo /\ needed THEN "mark sudo" ELSE "mark"]
                   ELSE rest
  OBVIOUS
<1>6. line.cmd \in Commands
  BY LineKinds
<1>7. /\ x \in Shells /\ x.input = Tail(shells[k].input)
      /\ starts => x.cmd = line.cmd
      /\ starts => x.stage = IF line.sudo /\ needed THEN "mark sudo" ELSE "mark"
      /\ ~starts => x.cmd = shells[k].cmd /\ x.stage = "prompt"
  <2>1. CASE starts
    BY <1>1, <1>3, <1>5, <1>6, <2>1 DEF Shells, Stages
  <2>2. CASE ~starts
    BY <1>1, <1>3, <1>5, <2>2 DEF Shells, Stages
  <2>3. QED
    BY <2>1, <2>2
<1>8. Becomes(k, x)
  BY <1>4, <1>5, <1>7, ShellBecomes
<1>9. /\ keys' = keys /\ opening' = opening /\ files' = files /\ ran' = ran
      /\ exit' = exit /\ needed' = needed
  BY <1>4 DEF Else
<1>10. IF line.what = "launch"
       THEN front' = 0 /\ (front # k => mishaps' # {}) /\ mishaps \subseteq mishaps'
       ELSE front' = front /\ mishaps' = mishaps
  BY <1>4 DEF TakeFocus
<1>11. starts <=> line.what = "envelope" /\ ~files[line.cmd].started
  BY DEF Begins
<1>12. raced' \in BOOLEAN /\ leaked' \in BOOLEAN /\ server' \in BOOLEAN
  BY <1>4 DEF Typed, GuestTyped
<1> HIDE DEF starts, rest
<1>13. GuestTyped'
  BY <1>8, <1>9, <1>12 DEF Typed, GuestTyped, Becomes
<1>14. TypeOK'
  <2>1. front' \in 0..Len(shells') /\ Len(shells') <= MaxShells
    BY <1>1, <1>8, <1>10 DEF Typed, TypeOK, Becomes
  <2>2. serverStarted' => server'
    BY <1>4 DEF Typed, TypeOK, hostVars
  <2>3. QED
    BY <2>1, <2>2 DEF Typed, TypeOK, hostVars
<1>15. QED
  <2>1. /\ Len(shells') = Len(shells) /\ shells'[k] = x
        /\ \A j \in 1..Len(shells) : j # k => shells'[j] = shells[j]
    BY <1>8 DEF Becomes
  <2>2. /\ leaked' = (leaked \/ shells[k].input[1] = Password)
        /\ raced' = (raced \/
              /\ shells[k].input[1].what = "envelope"
              /\ ~files[shells[k].input[1].cmd].started
              /\ \E j \in 1..Len(shells) : /\ shells[j].cmd = shells[k].input[1].cmd
                                           /\ shells[j].stage \in {"mark", "mark sudo"})
    BY <1>2, <1>4, <1>11
  <2>3. /\ shells'[k].input = Tail(shells[k].input)
        /\ IF line.what = "envelope" /\ ~files[line.cmd].started
           THEN /\ shells'[k].cmd = line.cmd
                /\ shells'[k].stage = IF line.sudo /\ needed THEN "mark sudo" ELSE "mark"
           ELSE shells'[k].cmd = shells[k].cmd /\ shells'[k].stage = "prompt"
    BY <1>7, <1>11, <2>1
  <2>4. IF shells[k].input[1].what = "envelope" /\ ~files[shells[k].input[1].cmd].started
        THEN /\ shells'[k].cmd = shells[k].input[1].cmd
             /\ shells'[k].stage = IF shells[k].input[1].sudo /\ needed
                                   THEN "mark sudo" ELSE "mark"
        ELSE shells'[k].cmd = shells[k].cmd /\ shells'[k].stage = "prompt"
    BY <1>2, <2>3, Zenon
  <2>5. shells[k].input[1] \in Lines
    BY <1>2
  <2>6. IF shells[k].input[1].what = "launch"
        THEN front' = 0 /\ (front # k => mishaps' # {}) /\ mishaps \subseteq mishaps'
        ELSE front' = front /\ mishaps' = mishaps
    BY <1>2, <1>10, Zenon
  <2>7. Typed'
    BY <1>13, <1>14 DEF Typed
  <2>8. QED
    BY <1>1, <1>9, <2>1, <2>2, <2>3, <2>4, <2>5, <2>6, <2>7, Zenon

\* The body of a command runs: from its first output on.
Runs(c, code) ==
  /\ ran' = [ran EXCEPT ![c] = @ + 1] /\ exit' = [exit EXCEPT ![c] = code]
  /\ files' = [files EXCEPT ![c].started = TRUE, ![c].out = "part"]

\* A step at which the focus can only be lost by a mishap, or by the
\* terminal that has it.
FocusFrom(k, lost) ==
  /\ mishaps \subseteq mishaps' /\ front' \in {0, front}
  /\ ~lost => front' = front /\ mishaps' = mishaps
  /\ lost => front' = 0 /\ (front # k => mishaps' # {})

LEMMA StageTyped ==
  ASSUME Typed, NEW k \in 1..Len(shells), NEW x \in Shells,
         shells' = [shells EXCEPT ![k] = x], UNCHANGED hostVars,
         keys' = keys, opening' = opening, server' = server, leaked' = leaked,
         raced' = raced, front' \in {0, front},
         files' \in [Commands -> Files],
         ran' \in [Commands -> Nat], exit' \in [Commands -> {0, 1}]
  PROVE  Typed' /\ Becomes(k, x)
<1>1. Becomes(k, x)
  BY ShellBecomes
<1>2. GuestTyped'
  BY <1>1 DEF Typed, GuestTyped, Becomes
<1>3. Len(shells) \in Nat
  BY LenProperties DEF Typed, GuestTyped
<1>4. TypeOK'
  BY <1>1, <1>3 DEF Typed, TypeOK, Becomes, hostVars
<1>5. QED
  BY <1>1, <1>2, <1>4 DEF Typed

LEMMA RunsTyped ==
  ASSUME Typed, NEW c \in Commands, NEW code \in {0, 1}, Runs(c, code)
  PROVE  /\ files' \in [Commands -> Files] /\ ran' \in [Commands -> Nat]
         /\ exit' \in [Commands -> {0, 1}]
         /\ files'[c].started /\ files'[c].out = "part"
         /\ files'[c].status = files[c].status
         /\ ran'[c] = ran[c] + 1 /\ exit'[c] = code
         /\ \A d \in Commands : d # c =>
              files'[d] = files[d] /\ ran'[d] = ran[d] /\ exit'[d] = exit[d]
<1>1. files \in [Commands -> Files] /\ ran \in [Commands -> Nat] /\ exit \in [Commands -> {0, 1}]
  BY DEF Typed, GuestTyped
<1>2. files[c] \in Files
  BY <1>1
<1>3. PICK f : f = [files[c] EXCEPT !.started = TRUE, !.out = "part"]
  OBVIOUS
<1>4. f \in Files /\ f.started /\ f.out = "part" /\ f.status = files[c].status
  BY <1>2, <1>3 DEF Files
<1>5. files' = [files EXCEPT ![c] = f]
  BY <1>1, <1>3 DEF Runs
<1>6. /\ files' \in [Commands -> Files] /\ files'[c] = f
      /\ \A d \in Commands : d # c => files'[d] = files[d]
  BY <1>1, <1>4, <1>5
<1>7. /\ ran' = [ran EXCEPT ![c] = ran[c] + 1] /\ exit' = [exit EXCEPT ![c] = code]
  BY DEF Runs
<1>8. /\ ran' \in [Commands -> Nat] /\ ran'[c] = ran[c] + 1
      /\ \A d \in Commands : d # c => ran'[d] = ran[d]
  BY <1>1, <1>7
<1>9. /\ exit' \in [Commands -> {0, 1}] /\ exit'[c] = code
      /\ \A d \in Commands : d # c => exit'[d] = exit[d]
  BY <1>1, <1>7
<1>10. QED
  BY <1>4, <1>6, <1>8, <1>9

LEMMA MarkDoes ==
  ASSUME Typed, NEW k \in 1..Len(shells), NEW code \in {0, 1}, NEW away \in BOOLEAN,
         Mark(k, code, away), UNCHANGED hostVars
  PROVE  /\ Typed' /\ Len(shells') = Len(shells)
         /\ shells'[k].input = shells[k].input /\ shells'[k].cmd = shells[k].cmd
         /\ \A j \in 1..Len(shells) : j # k => shells'[j] = shells[j]
         /\ keys' = keys /\ opening' = opening /\ needed' = needed
         /\ leaked' = leaked /\ raced' = raced
         /\ \A c \in Commands : c # shells[k].cmd =>
              files'[c] = files[c] /\ ran'[c] = ran[c] /\ exit'[c] = exit[c]
         /\ files'[shells[k].cmd].started
         /\ files'[shells[k].cmd].status = files[shells[k].cmd].status
         /\ \/ /\ shells[k].stage = "mark" /\ shells'[k].stage = "output"
               /\ Runs(shells[k].cmd, code) /\ FocusFrom(k, away)
            \/ /\ shells[k].stage = "mark sudo" /\ shells'[k].stage = "sudo"
               /\ ran' = ran /\ exit' = exit /\ FocusFrom(k, FALSE)
<1>1. /\ shells[k] \in Shells /\ shells[k].cmd \in Commands
  BY ShellTypes
<1> DEFINE c == shells[k].cmd
<1>2. CASE shells[k].stage = "mark"
  <2>1. /\ Runs(c, code) /\ shells' = [shells EXCEPT ![k].stage = "output"]
        /\ IF away THEN TakeFocus(0, k) ELSE UNCHANGED <<front, mishaps>>
        /\ Else({"ran", "files", "front", "mishaps", "shells"})
    BY <1>2 DEF Mark, Execute, Runs
  <2>2. /\ keys' = keys /\ opening' = opening /\ needed' = needed
        /\ leaked' = leaked /\ raced' = raced /\ server' = server
    BY <2>1 DEF Else
  <2>3. FocusFrom(k, away)
    BY <2>1 DEF TakeFocus, FocusFrom
  <2>4. /\ files' \in [Commands -> Files] /\ ran' \in [Commands -> Nat]
        /\ exit' \in [Commands -> {0, 1}] /\ files'[c].started
        /\ files'[c].status = files[c].status
        /\ \A d \in Commands : d # c =>
             files'[d] = files[d] /\ ran'[d] = ran[d] /\ exit'[d] = exit[d]
    BY <1>1, <2>1, RunsTyped
  <2>5. PICK x : x = [shells[k] EXCEPT !.stage = "output"]
    OBVIOUS
  <2>6. /\ x \in Shells /\ x.input = shells[k].input /\ x.cmd = c /\ x.stage = "output"
    BY <1>1, <2>5 DEF Shells, Stages
  <2>7. shells' = [shells EXCEPT ![k] = x]
    BY <2>1, <2>5
  <2>8. Typed' /\ Becomes(k, x)
    BY <2>2, <2>3, <2>4, <2>6, <2>7, StageTyped DEF FocusFrom
  <2>9. QED
    BY <1>2, <2>1, <2>2, <2>3, <2>4, <2>6, <2>8 DEF Becomes
<1>3. CASE shells[k].stage = "mark sudo"
  <2>1. /\ shells' = [shells EXCEPT ![k].stage = "sudo"]
        /\ files' = [files EXCEPT ![c].started = TRUE]
        /\ Else({"files", "shells"})
    BY <1>3 DEF Mark
  <2>2. /\ keys' = keys /\ opening' = opening /\ needed' = needed /\ leaked' = leaked
        /\ raced' = raced /\ server' = server /\ front' = front /\ mishaps' = mishaps
        /\ ran' = ran /\ exit' = exit
    BY <2>1 DEF Else
  <2>3. /\ files' \in [Commands -> Files] /\ files'[c].started
        /\ files'[c].status = files[c].status
        /\ \A d \in Commands : d # c => files'[d] = files[d]
    <3>1. files \in [Commands -> Files] /\ files[c] \in Files
      BY <1>1 DEF Typed, GuestTyped
    <3>2. PICK f : f = [files[c] EXCEPT !.started = TRUE]
      OBVIOUS
    <3>3. f \in Files /\ f.started /\ f.status = files[c].status
      BY <3>1, <3>2 DEF Files
    <3>4. files' = [files EXCEPT ![c] = f]
      BY <2>1, <3>2
    <3>5. QED
      BY <1>1, <3>1, <3>3, <3>4
  <2>4. PICK x : x = [shells[k] EXCEPT !.stage = "sudo"]
    OBVIOUS
  <2>5. /\ x \in Shells /\ x.input = shells[k].input /\ x.cmd = c /\ x.stage = "sudo"
    BY <1>1, <2>4 DEF Shells, Stages
  <2>6. shells' = [shells EXCEPT ![k] = x]
    BY <2>1, <2>4
  <2>7. Typed' /\ Becomes(k, x)
    BY <2>2, <2>3, <2>5, <2>6, StageTyped DEF Typed, GuestTyped
  <2>8. FocusFrom(k, FALSE)
    BY <2>2 DEF FocusFrom
  <2>9. QED
    BY <1>3, <2>2, <2>3, <2>5, <2>7, <2>8 DEF Becomes
<1>4. QED
  BY <1>2, <1>3 DEF Mark

LEMMA ReadPasswordDoes ==
  ASSUME Typed, NEW k \in 1..Len(shells), NEW code \in {0, 1},
         ReadPassword(k, code), UNCHANGED hostVars
  PROVE  /\ Typed' /\ Len(shells') = Len(shells)
         /\ shells[k].stage = "sudo" /\ shells'[k].stage = "output"
         /\ shells[k].input # <<>> /\ shells'[k].input = Tail(shells[k].input)
         /\ shells'[k].cmd = shells[k].cmd
         /\ \A j \in 1..Len(shells) : j # k => shells'[j] = shells[j]
         /\ keys' = keys /\ opening' = opening /\ needed' = needed
         /\ leaked' = leaked /\ raced' = raced /\ FocusFrom(k, FALSE)
         /\ \A c \in Commands : c # shells[k].cmd =>
              files'[c] = files[c] /\ ran'[c] = ran[c] /\ exit'[c] = exit[c]
         /\ files[shells[k].cmd].started => files'[shells[k].cmd].started
         /\ files'[shells[k].cmd].status = files[shells[k].cmd].status
         /\ \/ Runs(shells[k].cmd, code)
            \/ ran' = ran /\ exit'[shells[k].cmd] = 1
<1> DEFINE c == shells[k].cmd
<1>1. /\ shells[k] \in Shells /\ c \in Commands /\ shells[k].input \in Seq(Lines)
      /\ shells[k].stage = "sudo" /\ shells[k].input # <<>>
  BY ShellTypes DEF ReadPassword
<1>2. Tail(shells[k].input) \in Seq(Lines)
  BY <1>1, TailOf
<1>3. /\ shells' = [shells EXCEPT ![k].input = Tail(@), ![k].stage = "output"]
      /\ Else({"ran", "files", "front", "mishaps", "shells"})
      /\ \/ Execute(k, code, FALSE)
         \/ exit' = [exit EXCEPT ![c] = 1] /\ UNCHANGED <<ran, files, front, mishaps>>
  BY DEF ReadPassword
<1>4. /\ keys' = keys /\ opening' = opening /\ needed' = needed
      /\ leaked' = leaked /\ raced' = raced /\ server' = server
  BY <1>3 DEF Else
<1>5. FocusFrom(k, FALSE)
  BY <1>3 DEF Execute, FocusFrom
<1>6. /\ files' \in [Commands -> Files] /\ ran' \in [Commands -> Nat]
      /\ exit' \in [Commands -> {0, 1}]
      /\ files[c].started => files'[c].started
      /\ files'[c].status = files[c].status
      /\ \A d \in Commands : d # c =>
           files'[d] = files[d] /\ ran'[d] = ran[d] /\ exit'[d] = exit[d]
      /\ Runs(c, code) \/ (ran' = ran /\ exit'[c] = 1)
  <2>1. CASE Execute(k, code, FALSE)
    <3>1. Runs(c, code)
      BY <2>1 DEF Execute, Runs
    <3>2. QED
      BY <1>1, <3>1, RunsTyped
  <2>2. CASE exit' = [exit EXCEPT ![c] = 1] /\ UNCHANGED <<ran, files, front, mishaps>>
    <3>1. exit \in [Commands -> {0, 1}] /\ files \in [Commands -> Files] /\ ran \in [Commands -> Nat]
      BY DEF Typed, GuestTyped
    <3>2. /\ exit' \in [Commands -> {0, 1}] /\ exit'[c] = 1
          /\ \A d \in Commands : d # c => exit'[d] = exit[d]
      BY <1>1, <2>2, <3>1
    <3>3. QED
      BY <2>2, <3>1, <3>2
  <2>3. QED
    BY <1>3, <2>1, <2>2
<1>7. PICK x : x = [shells[k] EXCEPT !.input = Tail(@), !.stage = "output"]
  OBVIOUS
<1>8. /\ x \in Shells /\ x.input = Tail(shells[k].input) /\ x.cmd = c /\ x.stage = "output"
  BY <1>1, <1>2, <1>7 DEF Shells, Stages
<1>9. shells' = [shells EXCEPT ![k] = x]
  BY <1>1, <1>3, <1>7 DEF Typed, GuestTyped
<1>10. Typed' /\ Becomes(k, x)
  BY <1>4, <1>5, <1>6, <1>8, <1>9, StageTyped DEF FocusFrom
<1>11. QED
  BY <1>1, <1>4, <1>5, <1>6, <1>8, <1>10 DEF Becomes

LEMMA OutputDoes ==
  ASSUME Typed, NEW k \in 1..Len(shells), Output(k), UNCHANGED hostVars
  PROVE  /\ Typed' /\ Len(shells') = Len(shells)
         /\ shells[k].stage = "output" /\ shells'[k].stage = "status"
         /\ shells'[k].input = shells[k].input /\ shells'[k].cmd = shells[k].cmd
         /\ \A j \in 1..Len(shells) : j # k => shells'[j] = shells[j]
         /\ keys' = keys /\ opening' = opening /\ needed' = needed
         /\ leaked' = leaked /\ raced' = raced /\ front' = front /\ mishaps' = mishaps
         /\ ran' = ran /\ exit' = exit
         /\ \A c \in Commands : c # shells[k].cmd => files'[c] = files[c]
         /\ files'[shells[k].cmd].started = files[shells[k].cmd].started
         /\ files'[shells[k].cmd].status = "empty"
         /\ files'[shells[k].cmd].out = "all"
<1> DEFINE c == shells[k].cmd
<1>1. shells[k] \in Shells /\ c \in Commands /\ shells[k].stage = "output"
  BY ShellTypes DEF Output
<1>2. /\ shells' = [shells EXCEPT ![k].stage = "status"]
      /\ files' = [files EXCEPT ![c].out = "all", ![c].status = "empty"]
      /\ Else({"files", "shells"})
  BY DEF Output
<1>3. /\ keys' = keys /\ opening' = opening /\ needed' = needed /\ leaked' = leaked
      /\ raced' = raced /\ server' = server /\ front' = front /\ mishaps' = mishaps
      /\ ran' = ran /\ exit' = exit
  BY <1>2 DEF Else
<1>4. files \in [Commands -> Files] /\ files[c] \in Files
  BY <1>1 DEF Typed, GuestTyped
<1>5. PICK f : f = [files[c] EXCEPT !.out = "all", !.status = "empty"]
  OBVIOUS
<1>6. f \in Files /\ f.started = files[c].started /\ f.status = "empty" /\ f.out = "all"
  BY <1>4, <1>5 DEF Files
<1>7. files' = [files EXCEPT ![c] = f]
  BY <1>2, <1>4, <1>5
<1>8. /\ files' \in [Commands -> Files] /\ files'[c] = f
      /\ \A d \in Commands : d # c => files'[d] = files[d]
  BY <1>1, <1>4, <1>6, <1>7
<1>9. PICK x : x = [shells[k] EXCEPT !.stage = "status"]
  OBVIOUS
<1>10. /\ x \in Shells /\ x.input = shells[k].input /\ x.cmd = c /\ x.stage = "status"
  BY <1>1, <1>9 DEF Shells, Stages
<1>11. shells' = [shells EXCEPT ![k] = x]
  BY <1>2, <1>9
<1>12. Typed' /\ Becomes(k, x)
  BY <1>3, <1>8, <1>10, <1>11, StageTyped DEF Typed, GuestTyped
<1>13. QED
  BY <1>1, <1>3, <1>6, <1>8, <1>10, <1>12 DEF Becomes

LEMMA WriteStatusDoes ==
  ASSUME Typed, NEW k \in 1..Len(shells), WriteStatus(k), UNCHANGED hostVars
  PROVE  /\ Typed' /\ Len(shells') = Len(shells)
         /\ shells[k].stage = "status" /\ shells'[k].stage = "prompt"
         /\ shells'[k].input = shells[k].input
         /\ \A j \in 1..Len(shells) : j # k => shells'[j] = shells[j]
         /\ keys' = keys /\ opening' = opening /\ needed' = needed
         /\ leaked' = leaked /\ raced' = raced /\ front' = front /\ mishaps' = mishaps
         /\ ran' = ran /\ exit' = exit
         /\ \A c \in Commands : c # shells[k].cmd => files'[c] = files[c]
         /\ files'[shells[k].cmd].started = files[shells[k].cmd].started
         /\ files'[shells[k].cmd].out = files[shells[k].cmd].out
         /\ files'[shells[k].cmd].status = IF exit[shells[k].cmd] = 0 THEN "0" ELSE "1"
<1> DEFINE c == shells[k].cmd
<1>1. shells[k] \in Shells /\ c \in Commands /\ shells[k].stage = "status"
  BY ShellTypes DEF WriteStatus
<1>2. /\ shells' = [shells EXCEPT ![k].stage = "prompt", ![k].cmd = 0]
      /\ files' = [files EXCEPT ![c].status = IF exit[c] = 0 THEN "0" ELSE "1"]
      /\ Else({"files", "shells"})
  BY DEF WriteStatus
<1>3. /\ keys' = keys /\ opening' = opening /\ needed' = needed /\ leaked' = leaked
      /\ raced' = raced /\ server' = server /\ front' = front /\ mishaps' = mishaps
      /\ ran' = ran /\ exit' = exit
  BY <1>2 DEF Else
<1>4. files \in [Commands -> Files] /\ files[c] \in Files
  BY <1>1 DEF Typed, GuestTyped
<1>5. PICK f : f = [files[c] EXCEPT !.status = IF exit[c] = 0 THEN "0" ELSE "1"]
  OBVIOUS
<1>6. /\ f \in Files /\ f.started = files[c].started /\ f.out = files[c].out
      /\ f.status = IF exit[c] = 0 THEN "0" ELSE "1"
  BY <1>4, <1>5 DEF Files
<1>7. files' = [files EXCEPT ![c] = f]
  BY <1>2, <1>4, <1>5
<1>8. /\ files' \in [Commands -> Files] /\ files'[c] = f
      /\ \A d \in Commands : d # c => files'[d] = files[d]
  BY <1>1, <1>4, <1>6, <1>7
<1>9. PICK x : x = [shells[k] EXCEPT !.stage = "prompt", !.cmd = 0]
  OBVIOUS
<1>10. x \in Shells /\ x.input = shells[k].input /\ x.stage = "prompt"
  <2>1. 0 \in Commands
    BY LinesSent DEF Probe
  <2>2. QED
    BY <1>1, <1>9, <2>1 DEF Shells, Stages
<1>11. shells' = [shells EXCEPT ![k] = x]
  BY <1>1, <1>2, <1>9 DEF Typed, GuestTyped
<1>12. Typed' /\ Becomes(k, x)
  BY <1>3, <1>8, <1>10, <1>11, StageTyped DEF Typed, GuestTyped
<1>13. QED
  BY <1>1, <1>3, <1>6, <1>8, <1>10, <1>12 DEF Becomes

LEMMA StealFocusDoes ==
  ASSUME Typed, StealFocus, UNCHANGED hostVars
  PROVE  /\ Typed' /\ keys' = keys /\ opening' = opening /\ shells' = shells
         /\ files' = files /\ ran' = ran /\ exit' = exit /\ needed' = needed
         /\ leaked' = leaked /\ raced' = raced /\ front' = 0 /\ mishaps' # {}
<1>1. /\ front # 0 /\ front' = 0 /\ mishaps' = mishaps \cup {"stolen"}
      /\ keys' = keys /\ opening' = opening /\ shells' = shells /\ server' = server
      /\ files' = files /\ ran' = ran /\ exit' = exit /\ needed' = needed
      /\ leaked' = leaked /\ raced' = raced
  BY DEF StealFocus, TakeFocus, Else
<1>2. Len(shells) \in Nat
  BY LenProperties DEF Typed, GuestTyped
<1>3. GuestTyped' /\ TypeOK'
  BY <1>1, <1>2 DEF Typed, GuestTyped, TypeOK, hostVars
<1>4. QED
  BY <1>1, <1>3 DEF Typed

------------------------------------------------------------------------------
(* What the guest does keeps the files truthful *)

Truths == StagesFit /\ OneShell /\ FilesFit /\ ResultsFit

\* A status that is written stays.
LEMMA ResultsKept ==
  ASSUME Typed, ResultsFit, UNCHANGED hostVars,
         \A c \in Commands : files[c].status \in {"0", "1"} =>
           files'[c].status = files[c].status
  PROVE  ResultsFit'
<1>1. /\ kind' = kind /\ at' = at /\ cmd' = cmd /\ latest' = latest /\ result' = result
      /\ cmd \in Commands
  BY DEF hostVars, Typed, TypeOK
<1>2. QED
  BY <1>1 DEF ResultsFit

LEMMA IdleShells ==
  ASSUME Typed, Truths, UNCHANGED hostVars,
         files' = files, ran' = ran, exit' = exit,
         \A k \in 1..Len(shells') :
           \/ shells'[k].stage = "prompt"
           \/ /\ k \in 1..Len(shells) /\ shells'[k].stage = shells[k].stage
              /\ shells'[k].cmd = shells[k].cmd
  PROVE  Truths'
<1>1. StagesFit'
  <2>1. ASSUME NEW k \in 1..Len(shells')
        PROVE  StageFits(shells'[k].stage, files'[shells'[k].cmd], ran'[shells'[k].cmd],
                         exit'[shells'[k].cmd])
    <3>1. CASE shells'[k].stage = "prompt"
      BY <3>1 DEF StageFits
    <3>2. CASE shells'[k].stage # "prompt"
      <4>1. /\ k \in 1..Len(shells) /\ shells'[k].stage = shells[k].stage
            /\ shells'[k].cmd = shells[k].cmd
        BY <3>2
      <4>2. StageFits(shells[k].stage, files[shells[k].cmd], ran[shells[k].cmd],
                      exit[shells[k].cmd])
        BY <4>1 DEF Truths, StagesFit
      <4>3. QED
        BY <4>1, <4>2
    <3>3. QED
      BY <3>1, <3>2
  <2>2. QED
    BY <2>1 DEF StagesFit
<1>2. OneShell'
  BY DEF Truths, OneShell
<1>3. FilesFit'
  BY DEF Truths, FilesFit
<1>4. ResultsFit'
  BY ResultsKept DEF Truths
<1>5. QED
  BY <1>1, <1>2, <1>3, <1>4 DEF Truths

LEMMA DeliverTruth ==
  ASSUME Typed, Truths, UNCHANGED hostVars, Deliver \/ MapTerminal \/ StealFocus
  PROVE  Truths'
<1>1. CASE Deliver
  BY <1>1, DeliverDoes, DeliverTyped, IdleShells
<1>2. CASE MapTerminal
  <2>1. files' = files /\ ran' = ran /\ exit' = exit
    BY <1>2, MapTerminalDoes
  <2>2. Waiting.stage = "prompt"
    BY DEF Waiting
  <2>3. CASE shells' = shells
    BY <2>1, <2>3, IdleShells
  <2>4. CASE shells' # shells
    <3>1. /\ Len(shells) \in Nat /\ Len(shells') = Len(shells) + 1
          /\ \A k \in 1..Len(shells) : shells'[k] = shells[k]
          /\ shells'[Len(shells) + 1] = Waiting
      BY <1>2, <2>4, MapTerminalDoes
    <3>2. \A k \in 1..Len(shells') : k \in 1..Len(shells) \/ k = Len(shells) + 1
      BY <3>1
    <3>3. QED
      BY <2>1, <2>2, <3>1, <3>2, IdleShells
  <2>5. QED
    BY <2>3, <2>4
<1>3. CASE StealFocus
  BY <1>3, StealFocusDoes, IdleShells
<1>4. QED
  BY <1>1, <1>2, <1>3

LEMMA ReadLineTruth ==
  ASSUME Typed, Truths, UNCHANGED hostVars, NEW k \in 1..Len(shells), ReadLine(k),
         ~raced'
  PROVE  Truths'
<1> DEFINE line == shells[k].input[1]
<1>1. /\ Len(shells') = Len(shells) /\ shells[k].stage = "prompt"
      /\ \A j \in 1..Len(shells) : j # k => shells'[j] = shells[j]
      /\ IF line.what = "envelope" /\ ~files[line.cmd].started
         THEN /\ shells'[k].cmd = line.cmd
              /\ shells'[k].stage = IF line.sudo /\ needed THEN "mark sudo" ELSE "mark"
         ELSE shells'[k].cmd = shells[k].cmd /\ shells'[k].stage = "prompt"
      /\ files' = files /\ ran' = ran /\ exit' = exit
      /\ ~(/\ line.what = "envelope" /\ ~files[line.cmd].started
           /\ \E j \in 1..Len(shells) : /\ shells[j].cmd = line.cmd
                                        /\ shells[j].stage \in {"mark", "mark sudo"})
  BY ReadLineDoes
<1> HIDE DEF line
<1>2. CASE ~(line.what = "envelope" /\ ~files[line.cmd].started)
  <2>1. \A j \in 1..Len(shells') : \/ shells'[j].stage = "prompt"
                                   \/ j \in 1..Len(shells) /\ shells'[j] = shells[j]
    BY <1>1, <1>2
  <2>2. QED
    BY <1>1, <2>1, IdleShells
<1>3. CASE line.what = "envelope" /\ ~files[line.cmd].started
  <2>1. /\ shells'[k].cmd = line.cmd /\ shells'[k].stage \in {"mark", "mark sudo"}
    BY <1>1, <1>3
  <2>2. ASSUME NEW j \in 1..Len(shells), shells[j].stage # "prompt"
        PROVE  shells[j].cmd # line.cmd
    <3>1. ~(shells[j].cmd = line.cmd /\ shells[j].stage \in {"mark", "mark sudo"})
      BY <1>1, <1>3
    <3>2. shells[j].stage \in Stages
      BY ShellTypes
    <3>3. CASE shells[j].stage \in {"mark", "mark sudo"}
      BY <3>1, <3>3
    <3>4. CASE shells[j].stage \in {"sudo", "output", "status"}
      <4>1. StageFits(shells[j].stage, files[shells[j].cmd], ran[shells[j].cmd],
                      exit[shells[j].cmd])
        BY DEF Truths, StagesFit
      <4>2. files[shells[j].cmd].started
        BY <3>4, <4>1 DEF StageFits
      <4>3. QED
        BY <1>3, <4>2
    <3>5. QED
      BY <2>2, <3>2, <3>3, <3>4 DEF Stages
  <2>3. StagesFit'
    <3>1. ASSUME NEW j \in 1..Len(shells')
          PROVE  StageFits(shells'[j].stage, files'[shells'[j].cmd], ran'[shells'[j].cmd],
                           exit'[shells'[j].cmd])
      <4>1. CASE j = k
        BY <1>1, <1>3, <2>1, <4>1 DEF StageFits
      <4>2. CASE j # k
        <5>1. j \in 1..Len(shells) /\ shells'[j] = shells[j]
          BY <1>1, <4>2
        <5>2. StageFits(shells[j].stage, files[shells[j].cmd], ran[shells[j].cmd],
                        exit[shells[j].cmd])
          BY <5>1 DEF Truths, StagesFit
        <5>3. QED
          BY <1>1, <5>1, <5>2
      <4>3. QED
        BY <4>1, <4>2
    <3>2. QED
      BY <3>1 DEF StagesFit
  <2>4. OneShell'
    <3>1. ASSUME NEW i \in 1..Len(shells'), NEW j \in 1..Len(shells'),
                 shells'[i].stage # "prompt", shells'[j].stage # "prompt",
                 shells'[i].cmd = shells'[j].cmd
          PROVE  i = j
      <4>1. i \in 1..Len(shells) /\ j \in 1..Len(shells)
        BY <1>1
      <4>2. CASE i = k
        BY <1>1, <2>1, <2>2, <3>1, <4>1, <4>2
      <4>3. CASE j = k
        BY <1>1, <2>1, <2>2, <3>1, <4>1, <4>3
      <4>4. CASE i # k /\ j # k
        BY <1>1, <3>1, <4>1, <4>4, ZenonT(30) DEF Truths, OneShell
      <4>5. QED
        BY <4>2, <4>3, <4>4
    <3>2. QED
      BY <3>1 DEF OneShell
  <2>5. FilesFit'
    BY <1>1 DEF Truths, FilesFit
  <2>6. ResultsFit'
    BY <1>1, ResultsKept DEF Truths
  <2>7. QED
    BY <2>3, <2>4, <2>5, <2>6 DEF Truths
<1>4. QED
  BY <1>2, <1>3

\* A shell that goes on with its command changes what is known of it alone.
LEMMA OwnCommand ==
  ASSUME Typed, Truths, UNCHANGED hostVars, NEW k \in 1..Len(shells), NEW c \in Commands,
         Len(shells') = Len(shells), shells[k].stage # "prompt", shells[k].cmd = c,
         \A j \in 1..Len(shells) : j # k => shells'[j] = shells[j],
         shells'[k].stage = "prompt" \/ shells'[k].cmd = c,
         \A d \in Commands : d # c =>
           files'[d] = files[d] /\ ran'[d] = ran[d] /\ exit'[d] = exit[d],
         StageFits(shells'[k].stage, files'[c], ran'[c], exit'[c]),
         FileFits(files'[c], ran'[c], exit'[c])
  PROVE  Truths'
<1>1. ASSUME NEW j \in 1..Len(shells), j # k, shells[j].stage # "prompt"
      PROVE  /\ shells'[j] = shells[j] /\ shells[j].cmd \in Commands /\ shells[j].cmd # c
             /\ files'[shells[j].cmd] = files[shells[j].cmd]
             /\ ran'[shells[j].cmd] = ran[shells[j].cmd]
             /\ exit'[shells[j].cmd] = exit[shells[j].cmd]
  <2>1. shells[j].cmd # c
    BY <1>1 DEF Truths, OneShell
  <2>2. shells[j].cmd \in Commands
    BY ShellTypes
  <2>3. QED
    BY <1>1, <2>1, <2>2
<1>2. StagesFit'
  <2>1. ASSUME NEW j \in 1..Len(shells')
        PROVE  StageFits(shells'[j].stage, files'[shells'[j].cmd], ran'[shells'[j].cmd],
                         exit'[shells'[j].cmd])
    <3>1. CASE shells'[j].stage = "prompt"
      BY <3>1 DEF StageFits
    <3>2. CASE j = k /\ shells'[j].stage # "prompt"
      BY <3>2
    <3>3. CASE j # k /\ shells'[j].stage # "prompt"
      <4>1. j \in 1..Len(shells) /\ shells'[j] = shells[j] /\ shells[j].stage # "prompt"
        BY <3>3
      <4>2. StageFits(shells[j].stage, files[shells[j].cmd], ran[shells[j].cmd],
                      exit[shells[j].cmd])
        BY <4>1 DEF Truths, StagesFit
      <4>3. QED
        BY <1>1, <3>3, <4>1, <4>2
    <3>4. QED
      BY <3>1, <3>2, <3>3
  <2>2. QED
    BY <2>1 DEF StagesFit
<1>3. OneShell'
  <2>1. ASSUME NEW i \in 1..Len(shells'), NEW j \in 1..Len(shells'),
               shells'[i].stage # "prompt", shells'[j].stage # "prompt",
               shells'[i].cmd = shells'[j].cmd
        PROVE  i = j
    <3>1. i \in 1..Len(shells) /\ j \in 1..Len(shells)
      OBVIOUS
    <3>2. CASE i = k
      BY <1>1, <2>1, <3>1, <3>2
    <3>3. CASE j = k
      BY <1>1, <2>1, <3>1, <3>3
    <3>4. CASE i # k /\ j # k
      BY <2>1, <3>1, <3>4 DEF Truths, OneShell
    <3>5. QED
      BY <3>2, <3>3, <3>4
  <2>2. QED
    BY <2>1 DEF OneShell
<1>4. FilesFit'
  BY DEF Truths, FilesFit
<1>5. ResultsFit'
  <2>1. StageFits(shells[k].stage, files[c], ran[c], exit[c])
    BY DEF Truths, StagesFit
  <2>2. FileFits(files[c], ran[c], exit[c])
    BY DEF Truths, FilesFit
  <2>3. shells[k].stage \in Stages
    BY ShellTypes
  <2>4. files[c].status \notin {"0", "1"}
    BY <2>1, <2>2, <2>3 DEF StageFits, FileFits, Stages
  <2>5. QED
    BY <2>4, ResultsKept DEF Truths
<1>6. QED
  BY <1>2, <1>3, <1>4, <1>5 DEF Truths

LEMMA StageTruth ==
  ASSUME Typed, Truths, UNCHANGED hostVars, NEW k \in 1..Len(shells),
         NEW code \in {0, 1}, NEW away \in BOOLEAN,
         \/ Mark(k, code, away) \/ ReadPassword(k, code) \/ Output(k) \/ WriteStatus(k)
  PROVE  Truths'
<1>1. PICK c \in Commands : c = shells[k].cmd
  BY ShellTypes
<1>2. /\ StageFits(shells[k].stage, files[c], ran[c], exit[c])
      /\ FileFits(files[c], ran[c], exit[c])
      /\ ran[c] \in Nat /\ exit[c] \in {0, 1} /\ files[c].status \in {"none", "empty", "0", "1"}
  <2>1. StageFits(shells[k].stage, files[c], ran[c], exit[c])
    BY <1>1 DEF Truths, StagesFit
  <2>2. FileFits(files[c], ran[c], exit[c])
    BY DEF Truths, FilesFit
  <2>3. files[c] \in Files /\ ran[c] \in Nat /\ exit[c] \in {0, 1}
    BY DEF Typed, GuestTyped
  <2>4. files[c].status \in {"none", "empty", "0", "1"}
    BY <2>3 DEF Files
  <2>5. QED
    BY <2>1, <2>2, <2>3, <2>4
<1>3. ASSUME Len(shells') = Len(shells), shells[k].stage # "prompt",
             \A j \in 1..Len(shells) : j # k => shells'[j] = shells[j],
             shells'[k].stage = "prompt" \/ shells'[k].cmd = c,
             \A d \in Commands : d # c =>
               files'[d] = files[d] /\ ran'[d] = ran[d] /\ exit'[d] = exit[d],
             StageFits(shells'[k].stage, files'[c], ran'[c], exit'[c]),
             FileFits(files'[c], ran'[c], exit'[c])
      PROVE  Truths'
  BY <1>1, <1>3, OwnCommand
<1>4. CASE Mark(k, code, away)
  <2>1. /\ Len(shells') = Len(shells) /\ shells'[k].cmd = c
        /\ \A j \in 1..Len(shells) : j # k => shells'[j] = shells[j]
        /\ \A d \in Commands : d # c =>
             files'[d] = files[d] /\ ran'[d] = ran[d] /\ exit'[d] = exit[d]
        /\ files'[c].started /\ files'[c].status = files[c].status
        /\ \/ shells[k].stage = "mark" /\ shells'[k].stage = "output" /\ Runs(c, code)
           \/ /\ shells[k].stage = "mark sudo" /\ shells'[k].stage = "sudo"
              /\ ran' = ran /\ exit' = exit
    BY <1>1, <1>4, MarkDoes, ZenonT(30)
  <2>2. ran[c] = 0 /\ files[c].status = "none"
    BY <1>2, <2>1 DEF StageFits, FileFits
  <2>3. CASE shells[k].stage = "mark" /\ shells'[k].stage = "output" /\ Runs(c, code)
    <3>1. ran'[c] = 1
      BY <2>2, <2>3, RunsTyped
    <3>2. StageFits(shells'[k].stage, files'[c], ran'[c], exit'[c])
      BY <2>1, <2>2, <2>3, <3>1 DEF StageFits, Executed
    <3>3. FileFits(files'[c], ran'[c], exit'[c])
      <4>1. files'[c].status = "none"
        BY <2>1, <2>2
      <4>2. files'[c].started
        BY <2>1
      <4>3. ran'[c] <= 1
        BY <2>2, <3>1
      <4>4. QED
        BY <4>1, <4>2, <4>3 DEF FileFits
    <3>4. QED
      BY <1>3, <2>1, <3>2, <3>3
  <2>4. CASE /\ shells[k].stage = "mark sudo" /\ shells'[k].stage = "sudo"
             /\ ran' = ran /\ exit' = exit
    <3>1. StageFits(shells'[k].stage, files'[c], ran'[c], exit'[c])
      BY <2>1, <2>2, <2>4 DEF StageFits
    <3>2. FileFits(files'[c], ran'[c], exit'[c])
      <4>1. files'[c].status = "none"
        BY <2>1, <2>2
      <4>2. files'[c].started
        BY <2>1
      <4>3. ran'[c] = 0
        BY <2>2, <2>4
      <4>4. QED
        BY <4>1, <4>2, <4>3 DEF FileFits
    <3>3. QED
      BY <1>3, <2>1, <2>4, <3>1, <3>2
  <2>5. QED
    BY <2>1, <2>3, <2>4
<1>5. CASE ReadPassword(k, code)
  <2>1. /\ Len(shells') = Len(shells) /\ shells'[k].cmd = c
        /\ \A j \in 1..Len(shells) : j # k => shells'[j] = shells[j]
        /\ \A d \in Commands : d # c =>
             files'[d] = files[d] /\ ran'[d] = ran[d] /\ exit'[d] = exit[d]
        /\ files[c].started => files'[c].started
        /\ files'[c].status = files[c].status
        /\ shells[k].stage = "sudo" /\ shells'[k].stage = "output"
        /\ Runs(c, code) \/ (ran' = ran /\ exit'[c] = 1)
    BY <1>1, <1>5, ReadPasswordDoes, ZenonT(30)
  <2>2. ran[c] = 0 /\ files[c].status = "none" /\ files'[c].started
    BY <1>2, <2>1 DEF StageFits
  <2>3. Executed(ran'[c], exit'[c]) /\ ran'[c] <= 1
    <3>1. CASE Runs(c, code)
      BY <2>2, <3>1, RunsTyped DEF Executed
    <3>2. CASE ran' = ran /\ exit'[c] = 1
      BY <2>2, <3>2 DEF Executed
    <3>3. QED
      BY <2>1, <3>1, <3>2
  <2>4. StageFits(shells'[k].stage, files'[c], ran'[c], exit'[c])
    BY <2>1, <2>2, <2>3 DEF StageFits
  <2>5. FileFits(files'[c], ran'[c], exit'[c])
    BY <2>1, <2>2, <2>3 DEF FileFits
  <2>6. QED
    BY <1>3, <2>1, <2>4, <2>5
<1>6. CASE Output(k)
  <2>1. /\ Len(shells') = Len(shells) /\ shells'[k].cmd = c
        /\ \A j \in 1..Len(shells) : j # k => shells'[j] = shells[j]
        /\ ran' = ran /\ exit' = exit
        /\ \A d \in Commands : d # c => files'[d] = files[d]
        /\ files'[c].started = files[c].started
        /\ files'[c].status = "empty" /\ files'[c].out = "all"
        /\ shells[k].stage = "output" /\ shells'[k].stage = "status"
    BY <1>1, <1>6, OutputDoes
  <2>2. files[c].started /\ Executed(ran[c], exit[c]) /\ ran[c] <= 1
    BY <1>2, <2>1 DEF StageFits, FileFits
  <2>3. StageFits(shells'[k].stage, files'[c], ran'[c], exit'[c])
    BY <2>1, <2>2 DEF StageFits
  <2>4. FileFits(files'[c], ran'[c], exit'[c])
    BY <2>1, <2>2 DEF FileFits
  <2>5. QED
    BY <1>3, <2>1, <2>3, <2>4
<1>7. CASE WriteStatus(k)
  <2>1. /\ Len(shells') = Len(shells) /\ shells'[k].stage = "prompt"
        /\ \A j \in 1..Len(shells) : j # k => shells'[j] = shells[j]
        /\ ran' = ran /\ exit' = exit
        /\ \A d \in Commands : d # c => files'[d] = files[d]
        /\ files'[c].started = files[c].started
        /\ files'[c].out = files[c].out
        /\ files'[c].status = IF exit[c] = 0 THEN "0" ELSE "1"
        /\ shells[k].stage = "status"
    BY <1>1, <1>7, WriteStatusDoes
  <2>2. /\ files[c].started /\ Executed(ran[c], exit[c]) /\ ran[c] <= 1
        /\ files[c].out = "all"
    BY <1>2, <2>1 DEF StageFits, FileFits
  <2>3. StageFits(shells'[k].stage, files'[c], ran'[c], exit'[c])
    BY <2>1 DEF StageFits
  <2>4. FileFits(files'[c], ran'[c], exit'[c])
    BY <2>1, <2>2 DEF FileFits
  <2>5. QED
    BY <1>3, <2>1, <2>3, <2>4
<1>8. QED
  BY <1>4, <1>5, <1>6, <1>7

\* A step of a shell, with what its choices range over.
LEMMA ShellSteps ==
  ASSUME Typed, NEW k \in 1..Len(shells), ShellStep(k)
  PROVE  \/ ReadLine(k) \/ Output(k) \/ WriteStatus(k)
         \/ \E code \in {0, 1} : \/ ReadPassword(k, code)
                                 \/ Mark(k, code, kind[shells[k].cmd] = "x11")
<1>1. ASSUME NEW S \in SUBSET {0, 1},
             \E code \in S : \/ Mark(k, code, kind[shells[k].cmd] = "x11")
                             \/ ReadPassword(k, code)
      PROVE  \E code \in {0, 1} : \/ ReadPassword(k, code)
                                  \/ Mark(k, code, kind[shells[k].cmd] = "x11")
  BY <1>1
<1>2. (IF shells[k].cmd = Probe THEN {IF needed THEN 1 ELSE 0} ELSE {0, 1}) \in SUBSET {0, 1}
  OBVIOUS
<1>3. QED
  BY <1>1, <1>2 DEF ShellStep

LEMMA GuestTyping ==
  ASSUME Typed, GuestStep
  PROVE  Typed' /\ UNCHANGED hostVars /\ (raced => raced')
<1>1. UNCHANGED hostVars
  BY DEF GuestStep
<1>2. CASE Deliver
  BY <1>1, <1>2, DeliverDoes, DeliverTyped
<1>3. CASE MapTerminal
  BY <1>1, <1>3, MapTerminalDoes
<1>4. CASE StealFocus
  BY <1>1, <1>4, StealFocusDoes
<1>5. ASSUME NEW k \in 1..Len(shells), ShellStep(k)
      PROVE  Typed' /\ (raced => raced')
  <2>1. CASE ReadLine(k)
    BY <1>1, <2>1, ReadLineDoes
  <2>2. CASE Output(k)
    BY <1>1, <2>2, OutputDoes
  <2>3. CASE WriteStatus(k)
    BY <1>1, <2>3, WriteStatusDoes
  <2>4. ASSUME NEW code \in {0, 1}, ReadPassword(k, code)
        PROVE  Typed' /\ (raced => raced')
    BY <1>1, <2>4, ReadPasswordDoes
  <2>5. ASSUME NEW code \in {0, 1}, NEW away \in BOOLEAN, Mark(k, code, away)
        PROVE  Typed' /\ (raced => raced')
    BY <1>1, <2>5, MarkDoes
  <2>6. QED
    BY <1>5, <2>1, <2>2, <2>3, <2>4, <2>5, ShellSteps
<1>6. QED
  BY <1>1, <1>2, <1>3, <1>4, <1>5 DEF GuestStep

LEMMA GuestTruth ==
  ASSUME Typed, TruthInv, GuestStep
  PROVE  TruthInv'
<1>1. UNCHANGED hostVars /\ (raced => raced')
  BY GuestTyping
<1>2. KindsFit'
  BY <1>1 DEF TruthInv, KindsFit, hostVars
<1>3. ASSUME ~raced', Truths
      PROVE  Truths'
  <2>1. CASE Deliver \/ MapTerminal \/ StealFocus
    BY <1>1, <1>3, <2>1, DeliverTruth
  <2>2. ASSUME NEW k \in 1..Len(shells), ShellStep(k)
        PROVE  Truths'
    <3>1. CASE ReadLine(k)
      BY <1>1, <1>3, <3>1, ReadLineTruth
    <3>2. CASE Output(k) \/ WriteStatus(k)
      <4>1. 0 \in {0, 1} /\ FALSE \in BOOLEAN
        OBVIOUS
      <4>2. QED
        BY <1>1, <1>3, <3>2, <4>1, StageTruth
    <3>3. ASSUME NEW code \in {0, 1},
                 ReadPassword(k, code) \/ Mark(k, code, kind[shells[k].cmd] = "x11")
          PROVE  Truths'
      <4>1. (kind[shells[k].cmd] = "x11") \in BOOLEAN
        OBVIOUS
      <4>2. QED
        BY <1>1, <1>3, <3>3, <4>1, StageTruth
    <3>4. QED
      BY <2>2, <3>1, <3>2, <3>3, ShellSteps
  <2>3. QED
    BY <2>1, <2>2 DEF GuestStep
<1>4. QED
  BY <1>1, <1>2, <1>3 DEF TruthInv, Truths

------------------------------------------------------------------------------
(* What the host does: lines are sent, and nothing else of the guest changes *)

Frame ==
  /\ keys' \in Seq(Lines)
  /\ opening' = opening /\ front' = front /\ shells' = shells /\ server' = server
  /\ files' = files /\ ran' = ran /\ exit' = exit /\ needed' = needed
  /\ leaked' = leaked /\ mishaps' = mishaps /\ raced' = raced

Flags ==
  /\ try' \in 0..2 /\ serverStarted' \in BOOLEAN /\ focused' \in BOOLEAN
  /\ retried' \in BOOLEAN /\ (serverStarted' => server)

LEMMA Sends ==
  ASSUME Typed
  PROVE  /\ Quiet => Frame /\ keys' = keys
         /\ \A a \in Lines : Send(<<a>>) =>
              /\ Frame /\ Len(keys') = Len(keys) + 1
              /\ \A i \in 1..Len(keys) : keys'[i] = keys[i]
              /\ keys'[Len(keys) + 1] = a
         /\ \A a, b \in Lines : Send(<<a, b>>) =>
              /\ Frame /\ Len(keys') = Len(keys) + 2
              /\ \A i \in 1..Len(keys) : keys'[i] = keys[i]
              /\ keys'[Len(keys) + 1] = a /\ keys'[Len(keys) + 2] = b
         /\ Send(<<>>) => Frame /\ keys' = keys
<1>1. keys \in Seq(Lines)
  BY DEF Typed, GuestTyped
<1>2. Quiet => Frame /\ keys' = keys
  BY <1>1 DEF Quiet, guestVars, Frame
<1>3. ASSUME NEW a \in Lines, Send(<<a>>)
      PROVE  /\ Frame /\ Len(keys') = Len(keys) + 1
             /\ \A i \in 1..Len(keys) : keys'[i] = keys[i]
             /\ keys'[Len(keys) + 1] = a
  BY <1>1, <1>3, SentOne DEF Send, Frame
<1>4. ASSUME NEW a \in Lines, NEW b \in Lines, Send(<<a, b>>)
      PROVE  /\ Frame /\ Len(keys') = Len(keys) + 2
             /\ \A i \in 1..Len(keys) : keys'[i] = keys[i]
             /\ keys'[Len(keys) + 1] = a /\ keys'[Len(keys) + 2] = b
  BY <1>1, <1>4, SentTwo DEF Send, Frame
<1>5. ASSUME Send(<<>>)
      PROVE  Frame /\ keys' = keys
  <2>1. keys' = keys \o <<>>
    BY <1>5 DEF Send
  <2>2. keys \o <<>> = keys
    BY <1>1, ConcatEmptySeq
  <2>3. keys' = keys
    BY <2>1, <2>2
  <2>4. QED
    BY <1>1, <1>5, <2>3 DEF Send, Frame
<1>6. QED
  BY <1>2, <1>3, <1>4, <1>5

LEMMA FrameTyped ==
  ASSUME Typed, Frame, TypeOK'
  PROVE  Typed'
BY DEF Typed, GuestTyped, Frame

\* A step within a call.
LEMMA GoesOn ==
  ASSUME Typed, TruthInv, Frame, Flags, at # "idle",
         at' \in {"ensure", "boot", "search", "type", "started", "poll", "fragments",
                  "exited", "wait", "output"},
         at' = "output" => files[cmd].status = "0",
         kind' = kind, cmd' = cmd, goal' = goal, result' = result,
         passwordRequired' = passwordRequired, latest' \in {"none", "part", "all"}
  PROVE  Typed' /\ TruthInv'
<1>1. TypeOK'
  BY DEF Typed, TypeOK, Frame, Flags
<1>2. Typed'
  BY <1>1, FrameTyped
<1>3. KindsFit'
  BY DEF TruthInv, KindsFit
<1>4. files' = files /\ ran' = ran /\ exit' = exit /\ shells' = shells /\ raced' = raced
  BY DEF Frame
<1>5. StagesFit => StagesFit'
  BY <1>4 DEF StagesFit
<1>6. OneShell => OneShell'
  BY <1>4 DEF OneShell
<1>7. FilesFit => FilesFit'
  BY <1>4 DEF FilesFit
<1>8. ResultsFit => ResultsFit'
  BY <1>4 DEF ResultsFit
<1>9. QED
  BY <1>2, <1>3, <1>4, <1>5, <1>6, <1>7, <1>8 DEF TruthInv

\* The end of a call.
LEMMA Finishes ==
  ASSUME Typed, TruthInv, Frame, serverStarted' \in BOOLEAN, focused' \in BOOLEAN,
         retried' \in BOOLEAN, serverStarted' => server, at # "idle",
         NEW r \in {"ok", "failed", "unknown", "unmatched", "late", "refused"}, Finish(r),
         r = "ok" => \/ kind[cmd] = "launch"
                     \/ files[cmd].status = "0" /\ kind[cmd] # "output",
         r = "failed" => files[cmd].status = "1"
  PROVE  Typed' /\ TruthInv'
<1>1. /\ kind' = kind /\ result' = [result EXCEPT ![cmd] = r]
      /\ try' = 0 /\ latest' = "none" /\ goal' = 0
      /\ IF goal = 0
         THEN at' = "idle" /\ cmd' = cmd /\ passwordRequired' = passwordRequired
         ELSE at' = "ensure" /\ cmd' = goal /\ passwordRequired' \in {"yes", "no"}
  <2>1. CASE goal = 0
    BY <2>1 DEF Finish
  <2>2. CASE goal # 0
    BY <2>2 DEF Finish
  <2>3. QED
    BY <2>1, <2>2
<1>2. /\ cmd \in Commands /\ goal \in Commands /\ kind \in [Commands -> Kinds \cup {"run", "none"}]
      /\ result \in [Commands -> {"none", "ok", "failed", "unknown", "unmatched", "late", "refused"}]
  BY DEF Typed, TypeOK
<1>3. /\ result' \in [Commands -> {"none", "ok", "failed", "unknown", "unmatched", "late", "refused"}]
      /\ result'[cmd] = r
      /\ \A c \in Commands : c # cmd => result'[c] = result[c]
  BY <1>1, <1>2
<1>4. 0 \in Commands
  BY LinesSent DEF Probe
<1>5. TypeOK'
  <2>1. /\ cmd' \in Commands /\ goal' \in Commands /\ at' \in {"idle", "ensure"}
        /\ passwordRequired' \in {"unknown", "yes", "no"} /\ try' \in 0..2
    BY <1>1, <1>2, <1>4 DEF Typed, TypeOK
  <2>2. QED
    BY <1>1, <1>2, <1>3, <2>1 DEF Typed, TypeOK, Frame
<1>6. Typed'
  BY <1>5, FrameTyped
<1>7. KindsFit'
  BY <1>1, <1>2, <1>3 DEF TruthInv, KindsFit
<1>8. files' = files /\ ran' = ran /\ exit' = exit /\ shells' = shells /\ raced' = raced
  BY DEF Frame
<1>9. StagesFit => StagesFit'
  BY <1>8 DEF StagesFit
<1>10. OneShell => OneShell'
  BY <1>8 DEF OneShell
<1>11. FilesFit => FilesFit'
  BY <1>8 DEF FilesFit
<1>12. ASSUME ResultsFit
       PROVE  ResultsFit'
  <2>1. ASSUME NEW c \in Commands
        PROVE  /\ result'[c] = "ok" /\ kind'[c] # "launch" => files'[c].status = "0"
               /\ result'[c] = "failed" => files'[c].status = "1"
    <3>1. CASE c = cmd
      BY <1>1, <1>3, <1>8, <3>1
    <3>2. CASE c # cmd
      BY <1>1, <1>3, <1>8, <1>12, <3>2 DEF ResultsFit
    <3>3. QED
      BY <3>1, <3>2
  <2>2. at' # "output"
    BY <1>1
  <2>3. ~(result'[cmd'] = "ok" /\ kind'[cmd'] = "output" /\ at' = "idle")
    BY <1>1, <1>3
  <2>4. QED
    BY <2>1, <2>2, <2>3 DEF ResultsFit
<1>13. QED
  BY <1>6, <1>7, <1>8, <1>9, <1>10, <1>11, <1>12 DEF TruthInv

LEMMA CallTruth ==
  ASSUME Typed, TruthInv, NEW c \in 1..Last, NEW how \in Script[c], Call(c, how)
  PROVE  Typed' /\ TruthInv'
<1>1. /\ c \in Commands /\ how \in Kinds /\ how # "none" /\ c # Probe
      /\ Probe \in Commands /\ 0 \in Commands
  <2>1. Script[c] \in SUBSET Kinds
    BY ScriptAssumption
  <2>2. how \in Kinds
    BY <2>1
  <2>3. how # "none"
    BY <2>2 DEF Kinds
  <2>4. QED
    BY <2>2, <2>3, LinesSent, DesktopAssumption DEF Commands, Probe
<1>2. /\ at = "idle" /\ kind[c] = "none" /\ kind' = [kind EXCEPT ![c] = how]
      /\ (cmd' = Probe /\ goal' = c) \/ (cmd' = c /\ goal' = 0)
      /\ at' \in {"focus", "ensure"} /\ try' = 0 /\ latest' = "none"
      /\ UNCHANGED guestVars
      /\ result' = result /\ serverStarted' = serverStarted /\ focused' = focused
      /\ passwordRequired' = passwordRequired /\ retried' = retried
  BY DEF Call
<1>3. Frame
  BY <1>2 DEF guestVars, Frame, Typed, GuestTyped
<1>4. kind \in [Commands -> Kinds \cup {"run", "none"}]
  BY DEF Typed, TypeOK
<1>5. /\ kind' \in [Commands -> Kinds \cup {"run", "none"}]
      /\ kind'[c] = how
      /\ \A d \in Commands : d # c => kind'[d] = kind[d]
  BY <1>1, <1>2, <1>4
<1>6. TypeOK'
  <2>1. cmd' \in Commands /\ goal' \in Commands
    BY <1>1, <1>2
  <2>2. QED
    BY <1>2, <1>3, <1>5, <2>1 DEF Typed, TypeOK, Frame
<1>7. Typed'
  BY <1>3, <1>6, FrameTyped
<1>8. result[c] = "none"
  BY <1>1, <1>2 DEF TruthInv, KindsFit
<1>9. KindsFit'
  <2>1. kind'[Probe] = "run"
    BY <1>1, <1>5 DEF TruthInv, KindsFit
  <2>2. \A d \in Commands : kind'[d] = "none" => result'[d] = "none"
    BY <1>1, <1>2, <1>5 DEF TruthInv, KindsFit
  <2>3. kind'[cmd'] # "none" /\ (goal' # 0 => kind'[goal'] # "none")
    BY <1>1, <1>2, <1>5, <2>1
  <2>4. QED
    BY <2>1, <2>2, <2>3 DEF KindsFit
<1>10. files' = files /\ ran' = ran /\ exit' = exit /\ shells' = shells /\ raced' = raced
  BY <1>3 DEF Frame
<1>11. StagesFit => StagesFit'
  BY <1>10 DEF StagesFit
<1>12. OneShell => OneShell'
  BY <1>10 DEF OneShell
<1>13. FilesFit => FilesFit'
  BY <1>10 DEF FilesFit
<1>14. ASSUME ResultsFit
       PROVE  ResultsFit'
  <2>1. ASSUME NEW d \in Commands
        PROVE  /\ result'[d] = "ok" /\ kind'[d] # "launch" => files'[d].status = "0"
               /\ result'[d] = "failed" => files'[d].status = "1"
    <3>1. CASE d = c
      BY <1>2, <1>8, <3>1
    <3>2. CASE d # c
      BY <1>2, <1>5, <1>10, <1>14, <3>2 DEF ResultsFit
    <3>3. QED
      BY <3>1, <3>2
  <2>2. at' # "output" /\ at' # "idle"
    BY <1>2
  <2>3. QED
    BY <2>1, <2>2 DEF ResultsFit
<1>15. QED
  BY <1>7, <1>9, <1>10, <1>11, <1>12, <1>13, <1>14 DEF TruthInv

LEMMA EnvelopeSent ==
  ASSUME Typed
  PROVE  Envelope \in Lines /\ Line("launch", cmd, FALSE) \in Lines /\ Asks \in BOOLEAN
<1>1. cmd \in Commands
  BY DEF Typed, TypeOK
<1>2. Asks \in BOOLEAN
  BY DEF Asks
<1>3. QED
  BY <1>1, <1>2, LinesSent DEF Envelope

LEMMA CallFrame ==
  ASSUME Typed, CallStep
  PROVE  Frame
<1>1. /\ Open \in Lines /\ Serve \in Lines /\ Password \in Lines /\ Envelope \in Lines
      /\ Line("launch", cmd, FALSE) \in Lines
  BY LinesSent, EnvelopeSent
<1>2. \/ Quiet \/ Send(<<>>) \/ Send(<<Password>>) \/ Send(<<Open>>) \/ Send(<<Envelope>>)
      \/ Send(<<Line("launch", cmd, FALSE)>>) \/ Send(<<Open, Serve>>)
      \/ Send(<<Open, Envelope>>)
  BY DEF CallStep, Focus, UseServer, BootstrapByShortcut, BootstrapBySearch, Bootstrapped,
         NoTerminal, Type, Launch, Started, TypeAgain, NotAccepted, WaitSucceeds, WaitFails,
         ReadOutput, FoundFragments, PollAgain, Unmatched, Expire, Passwords
<1>3. QED
  BY <1>1, <1>2, Sends

LEMMA GotoKeeps ==
  ASSUME Typed, NEW to, Goto(to)
  PROVE  /\ at' = to /\ kind' = kind /\ cmd' = cmd /\ goal' = goal /\ result' = result
         /\ passwordRequired' = passwordRequired /\ latest' = latest
         /\ latest' \in {"none", "part", "all"}
BY DEF Goto, Typed, TypeOK

LEMMA CallStepTruth ==
  ASSUME Typed, TruthInv, CallStep
  PROVE  Typed' /\ TruthInv'
<1>1. /\ Open \in Lines /\ Serve \in Lines /\ Password \in Lines /\ Envelope \in Lines
      /\ Line("launch", cmd, FALSE) \in Lines
  BY LinesSent, EnvelopeSent
<1>2. /\ try \in 0..2 /\ serverStarted \in BOOLEAN /\ focused \in BOOLEAN
      /\ retried \in BOOLEAN /\ (serverStarted => server) /\ server \in BOOLEAN
  BY DEF Typed, TypeOK, GuestTyped
<1>3. CASE Focus
  <2>1. at = "focus" /\ Goto("ensure") /\ (Quiet \/ Send(<<Open>>)) /\ Flags
    BY <1>2, <1>3 DEF Focus, Flags
  <2>2. Frame
    BY <1>1, <2>1, Sends
  <2>3. QED
    BY <2>1, <2>2, GotoKeeps, GoesOn
<1>4. CASE UseServer
  <2>1. at = "ensure" /\ Goto("type") /\ (Quiet \/ Send(<<Open>>)) /\ Flags
    BY <1>2, <1>4 DEF UseServer, Flags
  <2>2. Frame
    BY <1>1, <2>1, Sends
  <2>3. QED
    BY <2>1, <2>2, GotoKeeps, GoesOn
<1>5. CASE BootstrapByShortcut
  <2>1. at = "ensure" /\ Goto("boot") /\ Send(<<Open, Serve>>) /\ Flags
    BY <1>2, <1>5 DEF BootstrapByShortcut, Flags
  <2>2. Frame
    BY <1>1, <2>1, Sends
  <2>3. QED
    BY <2>1, <2>2, GotoKeeps, GoesOn
<1>6. CASE BootstrapBySearch
  <2>1. at = "boot" /\ Goto("search") /\ Send(<<Open, Serve>>) /\ Flags
    BY <1>2, <1>6 DEF BootstrapBySearch, Flags
  <2>2. Frame
    BY <1>1, <2>1, Sends
  <2>3. QED
    BY <2>1, <2>2, GotoKeeps, GoesOn
<1>7. CASE Bootstrapped
  <2>1. at # "idle" /\ Goto("type") /\ Quiet /\ Flags
    BY <1>2, <1>7 DEF Bootstrapped, Flags
  <2>2. Frame
    BY <2>1, Sends
  <2>3. QED
    BY <2>1, <2>2, GotoKeeps, GoesOn
<1>8. CASE NoTerminal
  <2>1. at # "idle" /\ Quiet /\ Finish("refused")
    BY <1>8 DEF NoTerminal
  <2>2. /\ Frame /\ serverStarted' \in BOOLEAN /\ focused' \in BOOLEAN
        /\ retried' \in BOOLEAN /\ (serverStarted' => server)
    BY <1>2, <1>8, <2>1, Sends DEF NoTerminal
  <2>3. QED
    BY <2>1, <2>2, Finishes
<1>9. CASE Type
  <2>1. at = "type" /\ Goto("started") /\ Send(<<Envelope>>) /\ Flags
    BY <1>2, <1>9 DEF Type, Flags
  <2>2. Frame
    BY <1>1, <2>1, Sends
  <2>3. QED
    BY <2>1, <2>2, GotoKeeps, GoesOn
<1>10. CASE Launch
  <2>1. /\ at # "idle" /\ Send(<<Line("launch", cmd, FALSE)>>) /\ Finish("ok")
        /\ kind[cmd] = "launch"
    BY <1>10 DEF Launch
  <2>2. /\ Frame /\ serverStarted' \in BOOLEAN /\ focused' \in BOOLEAN
        /\ retried' \in BOOLEAN /\ (serverStarted' => server)
    BY <1>1, <1>2, <1>10, <2>1, Sends DEF Launch
  <2>3. QED
    BY <2>1, <2>2, Finishes
<1>11. CASE Started
  <2>1. /\ at # "idle" /\ Goto(IF kind[cmd] = "assert" THEN "poll" ELSE "wait")
        /\ (Send(<<>>) \/ Send(<<Password>>)) /\ Flags
    BY <1>2, <1>11 DEF Started, Flags, Passwords
  <2>2. Frame
    BY <1>1, <2>1, Sends
  <2>3. QED
    BY <2>1, <2>2, GotoKeeps, GoesOn
<1>12. CASE TypeAgain
  <2>1. at = "started" /\ Goto("started") /\ Send(<<Open, Envelope>>) /\ Flags
    BY <1>2, <1>12 DEF TypeAgain, Flags
  <2>2. Frame
    BY <1>1, <2>1, Sends
  <2>3. QED
    BY <2>1, <2>2, GotoKeeps, GoesOn
<1>13. CASE NotAccepted
  <2>1. at # "idle" /\ Quiet /\ Finish("refused")
    BY <1>13 DEF NotAccepted
  <2>2. /\ Frame /\ serverStarted' \in BOOLEAN /\ focused' \in BOOLEAN
        /\ retried' \in BOOLEAN /\ (serverStarted' => server)
    BY <1>2, <1>13, <2>1, Sends DEF NotAccepted
  <2>3. QED
    BY <2>1, <2>2, Finishes
<1>14. CASE WaitSucceeds
  <2>1. /\ at = "wait" /\ Quiet /\ files[cmd].status = "0"
        /\ serverStarted' = serverStarted /\ retried' = retried /\ focused' \in BOOLEAN
    BY <1>2, <1>14 DEF WaitSucceeds, Succeeds, Status
  <2>2. Frame
    BY <2>1, Sends
  <2>3. CASE kind[cmd] = "output"
    <3>1. Goto("output") /\ try' = try
      BY <1>14, <2>3 DEF WaitSucceeds
    <3>2. Flags
      BY <1>2, <2>1, <3>1 DEF Flags
    <3>3. QED
      BY <2>1, <2>2, <3>1, <3>2, GotoKeeps, GoesOn
  <2>4. CASE kind[cmd] # "output"
    <3>1. Finish("ok")
      BY <1>14, <2>4 DEF WaitSucceeds
    <3>2. QED
      BY <1>2, <2>1, <2>2, <2>4, <3>1, Finishes
  <2>5. QED
    BY <2>3, <2>4
<1>15. CASE WaitFails
  <2>1. PICK r : r = IF files[cmd].status = "1" THEN "failed" ELSE "unknown"
    OBVIOUS
  <2>2. /\ at # "idle" /\ Quiet /\ Finish(r)
    BY <1>15, <2>1 DEF WaitFails, Status
  <2>3. /\ r \in {"ok", "failed", "unknown", "unmatched", "late", "refused"}
        /\ r # "ok" /\ (r = "failed" => files[cmd].status = "1")
    BY <2>1
  <2>4. /\ Frame /\ serverStarted' \in BOOLEAN /\ focused' \in BOOLEAN
        /\ retried' \in BOOLEAN /\ (serverStarted' => server)
    BY <1>2, <1>15, <2>2, Sends DEF WaitFails
  <2>5. QED
    BY <2>2, <2>3, <2>4, Finishes
<1>16. CASE ReadOutput
  <2>1. /\ Quiet /\ latest' = files[cmd].out /\ kind' = kind /\ cmd' = cmd /\ goal' = goal
        /\ try' = try /\ passwordRequired' = passwordRequired
        /\ serverStarted' = serverStarted /\ focused' = focused /\ retried' = retried
        /\ cmd \in Commands
    BY <1>16 DEF ReadOutput, Typed, TypeOK
  <2>2. Frame /\ Flags
    BY <1>2, <2>1, Sends DEF Flags
  <2>3. files[cmd].out \in {"none", "part", "all"}
    BY <2>1 DEF Typed, GuestTyped, Files
  <2>4. CASE at = "poll"
    <3>1. at' = "fragments" /\ result' = result
      BY <1>16, <2>4 DEF ReadOutput
    <3>2. QED
      BY <2>1, <2>2, <2>3, <2>4, <3>1, GoesOn
  <2>5. CASE at = "output"
    <3>1. at' = "idle" /\ result' = [result EXCEPT ![cmd] = "ok"]
      BY <1>16, <2>5 DEF ReadOutput
    <3>2. /\ result \in [Commands -> {"none", "ok", "failed", "unknown", "unmatched", "late", "refused"}]
      BY DEF Typed, TypeOK
    <3>3. /\ result' \in [Commands -> {"none", "ok", "failed", "unknown", "unmatched", "late", "refused"}]
          /\ result'[cmd] = "ok"
          /\ \A c \in Commands : c # cmd => result'[c] = result[c]
      BY <2>1, <3>1, <3>2
    <3>4. TypeOK'
      BY <2>1, <2>2, <2>3, <3>1, <3>3 DEF Typed, TypeOK, Frame, Flags
    <3>5. Typed'
      BY <2>2, <3>4, FrameTyped
    <3>6. KindsFit'
      BY <2>1, <2>5, <3>1, <3>3 DEF TruthInv, KindsFit
    <3>7. files' = files /\ ran' = ran /\ exit' = exit /\ shells' = shells /\ raced' = raced
      BY <2>2 DEF Frame
    <3>8. StagesFit => StagesFit'
      BY <3>7 DEF StagesFit
    <3>9. OneShell => OneShell'
      BY <3>7 DEF OneShell
    <3>10. FilesFit => FilesFit'
      BY <3>7 DEF FilesFit
    <3>11. ASSUME ResultsFit, FilesFit
           PROVE  ResultsFit'
      <4>1. files[cmd].status = "0"
        BY <2>5, <3>11 DEF ResultsFit
      <4>2. FileFits(files[cmd], ran[cmd], exit[cmd])
        BY <2>1, <3>11 DEF FilesFit
      <4>3. latest' = "all"
        BY <2>1, <4>1, <4>2 DEF FileFits
      <4>4. ASSUME NEW c \in Commands
            PROVE  /\ result'[c] = "ok" /\ kind'[c] # "launch" => files'[c].status = "0"
                   /\ result'[c] = "failed" => files'[c].status = "1"
        <5>1. CASE c = cmd
          BY <3>3, <3>7, <4>1, <5>1
        <5>2. CASE c # cmd
          BY <2>1, <3>3, <3>7, <3>11, <5>2 DEF ResultsFit
        <5>3. QED
          BY <5>1, <5>2
      <4>5. QED
        BY <3>1, <4>3, <4>4 DEF ResultsFit
    <3>12. QED
      BY <3>5, <3>6, <3>7, <3>8, <3>9, <3>10, <3>11 DEF TruthInv
  <2>6. QED
    BY <1>16, <2>4, <2>5 DEF ReadOutput
<1>17. CASE FoundFragments
  <2>1. at # "idle" /\ Goto("wait") /\ Quiet /\ Flags
    BY <1>2, <1>17 DEF FoundFragments, Flags
  <2>2. Frame
    BY <2>1, Sends
  <2>3. QED
    BY <2>1, <2>2, GotoKeeps, GoesOn
<1>18. CASE PollAgain
  <2>1. at # "idle" /\ Goto("poll") /\ Quiet /\ Flags
    BY <1>2, <1>18 DEF PollAgain, Flags
  <2>2. Frame
    BY <2>1, Sends
  <2>3. QED
    BY <2>1, <2>2, GotoKeeps, GoesOn
<1>19. CASE Unmatched
  <2>1. PICK r : r = IF files[cmd].status = "0" THEN "unmatched" ELSE "failed"
    OBVIOUS
  <2>2. /\ at # "idle" /\ Quiet /\ Finish(r) /\ files[cmd].status \in {"0", "1"}
    BY <1>19, <2>1 DEF Unmatched, Status
  <2>3. /\ r \in {"ok", "failed", "unknown", "unmatched", "late", "refused"}
        /\ r # "ok" /\ (r = "failed" => files[cmd].status = "1")
    BY <2>1, <2>2
  <2>4. /\ Frame /\ serverStarted' \in BOOLEAN /\ focused' \in BOOLEAN
        /\ retried' \in BOOLEAN /\ (serverStarted' => server)
    BY <1>2, <1>19, <2>2, Sends DEF Unmatched
  <2>5. QED
    BY <2>2, <2>3, <2>4, Finishes
<1>20. CASE Expire
  <2>1. at # "idle" /\ Quiet /\ Finish("late")
    BY <1>20 DEF Expire
  <2>2. /\ Frame /\ serverStarted' \in BOOLEAN /\ focused' \in BOOLEAN
        /\ retried' \in BOOLEAN /\ (serverStarted' => server)
    BY <1>2, <1>20, <2>1, Sends DEF Expire
  <2>3. QED
    BY <2>1, <2>2, Finishes
<1>21. QED
  BY <1>3, <1>4, <1>5, <1>6, <1>7, <1>8, <1>9, <1>10, <1>11, <1>12, <1>13, <1>14, <1>15,
     <1>16, <1>17, <1>18, <1>19, <1>20 DEF CallStep

------------------------------------------------------------------------------
LEMMA InitTruth ==
  ASSUME Init
  PROVE  Typed /\ TruthInv
<1>1. Probe \in Commands /\ 0 \in Commands
  BY LinesSent DEF Probe
<1>2. /\ keys = <<>> /\ opening = 0 /\ front = 0 /\ shells = <<>> /\ server \in BOOLEAN
      /\ files = [c \in Commands |-> NoFiles]
      /\ ran = [c \in Commands |-> 0] /\ exit = [c \in Commands |-> 0]
      /\ leaked = FALSE /\ raced = FALSE
      /\ kind = [c \in Commands |-> IF c = Probe THEN "run" ELSE "none"]
      /\ at = "idle" /\ cmd = Probe /\ goal = 0 /\ try = 0 /\ latest = "none"
      /\ result = [c \in Commands |-> "none"]
      /\ serverStarted = FALSE /\ focused = FALSE /\ passwordRequired = "unknown"
      /\ retried = FALSE
  BY DEF Init, DesktopInit
<1>3. NoFiles \in Files /\ NoFiles.started = FALSE /\ NoFiles.status = "none"
  BY DEF NoFiles, Files
<1>4. files \in [Commands -> Files] /\ ran \in [Commands -> Nat] /\ exit \in [Commands -> {0, 1}]
  BY <1>2, <1>3
<1>5. keys \in Seq(Lines) /\ shells \in Seq(Shells) /\ Len(shells) = 0
  BY <1>2
<1>6. GuestTyped
  BY <1>2, <1>4, <1>5 DEF GuestTyped
<1>7. /\ kind \in [Commands -> Kinds \cup {"run", "none"}]
      /\ result \in [Commands -> {"none", "ok", "failed", "unknown", "unmatched", "late", "refused"}]
  BY <1>2
<1>8. Len(shells) <= MaxShells
  BY <1>5, DesktopAssumption
<1>9. TypeOK
  BY <1>1, <1>2, <1>5, <1>7, <1>8 DEF TypeOK
<1>10. KindsFit
  BY <1>1, <1>2 DEF KindsFit
<1>11. StagesFit /\ OneShell
  BY <1>5 DEF StagesFit, OneShell
<1>12. FilesFit
  <2>1. ASSUME NEW c \in Commands
        PROVE  FileFits(files[c], ran[c], exit[c])
    <3>1. files[c] = NoFiles /\ ran[c] = 0
      BY <1>2
    <3>2. ~files[c].started /\ files[c].status = "none"
      BY <1>3, <3>1
    <3>3. QED
      BY <3>1, <3>2 DEF FileFits
  <2>2. QED
    BY <2>1 DEF FilesFit
<1>13. ResultsFit
  BY <1>1, <1>2 DEF ResultsFit
<1>14. QED
  BY <1>6, <1>9, <1>10, <1>11, <1>12, <1>13 DEF Typed, TruthInv

LEMMA NextTruth ==
  ASSUME Typed, TruthInv, [Next]_vars
  PROVE  Typed' /\ TruthInv'
<1>1. CASE UNCHANGED vars
  BY <1>1 DEF vars, guestVars, hostVars, Typed, TypeOK, GuestTyped, TruthInv, KindsFit,
              StagesFit, OneShell, FilesFit, ResultsFit
<1>2. ASSUME NEW c \in 1..Last, NEW how \in Script[c], Call(c, how)
      PROVE  Typed' /\ TruthInv'
  BY <1>2, CallTruth
<1>3. CASE CallStep
  BY <1>3, CallStepTruth
<1>4. CASE GuestStep
  BY <1>4, GuestTyping, GuestTruth
<1>5. QED
  BY <1>1, <1>2, <1>3, <1>4 DEF Next, Over

LEMMA TruthHolds == Spec => [](Typed /\ TruthInv)
<1>1. Init => Typed /\ TruthInv
  BY InitTruth
<1>2. Typed /\ TruthInv /\ [Next]_vars => (Typed /\ TruthInv)'
  BY NextTruth
<1>3. QED
  BY <1>1, <1>2, PTL DEF Spec

\* Whatever the guest does with the keys, no envelope is obeyed twice unless
\* two shells look for its marker at the same time.
THEOREM TerminalSafe == Spec => []TerminalInv
<1>1. Typed /\ TruthInv => TerminalInv
  <2>1. ASSUME Typed, TruthInv, ~raced, NEW c \in Commands
        PROVE  ran[c] <= 1
    <3>1. FileFits(files[c], ran[c], exit[c])
      BY <2>1 DEF TruthInv, FilesFit
    <3>2. QED
      BY <3>1 DEF FileFits
  <2>2. QED
    BY <2>1 DEF TerminalInv, RunsOnce, Typed
<1>2. QED
  BY <1>1, TruthHolds, PTL

\* What wait, output and assert_run tell the test is what became of the
\* command, however late, misplaced or repeated its input arrived.
THEOREM ReturnsTrue == Spec => []ReturnsTruthful
<1>1. Typed /\ TruthInv => ReturnsTruthful
  <2>1. ASSUME Typed, TruthInv, ~raced, NEW c \in Commands
        PROVE  /\ (result[c] = "ok" /\ kind[c] # "launch") => ran[c] = 1 /\ exit[c] = 0
               /\ (result[c] = "ok" /\ kind[c] = "output" /\ c = cmd /\ at = "idle") =>
                    latest = "all"
               /\ result[c] = "failed" => exit[c] = 1
    <3>1. FileFits(files[c], ran[c], exit[c]) /\ exit[c] \in {0, 1}
      BY <2>1 DEF TruthInv, FilesFit, Typed, GuestTyped
    <3>2. /\ result[c] = "ok" /\ kind[c] # "launch" => files[c].status = "0"
          /\ result[c] = "failed" => files[c].status = "1"
      BY <2>1 DEF TruthInv, ResultsFit
    <3>3. files[c].status = "0" => ran[c] = 1 /\ exit[c] = 0
      BY <3>1 DEF FileFits, Executed
    <3>4. files[c].status = "1" => exit[c] = 1
      BY <3>1 DEF FileFits, Executed
    <3>5. (result[c] = "ok" /\ kind[c] = "output" /\ c = cmd /\ at = "idle") => latest = "all"
      BY <2>1 DEF TruthInv, ResultsFit
    <3>6. QED
      BY <3>2, <3>3, <3>4, <3>5
  <2>2. QED
    BY <2>1 DEF ReturnsTruthful
<1>2. QED
  BY <1>1, TruthHolds, PTL

------------------------------------------------------------------------------
(* Passwords are typed where they were asked for *)

LEMMA InputsShrink ==
  ASSUME Typed, NoPassword, keys' = keys, ~leaked',
         \A j \in 1..Len(shells') :
           \/ shells'[j].input = <<>>
           \/ j \in 1..Len(shells) /\ shells'[j].input = shells[j].input
           \/ /\ j \in 1..Len(shells) /\ shells[j].input # <<>>
              /\ shells'[j].input = Tail(shells[j].input)
  PROVE  NoPassword'
<1>1. ASSUME NEW j \in 1..Len(shells'), NEW i \in 1..Len(shells'[j].input)
      PROVE  shells'[j].input[i].what # "password"
  <2>1. CASE shells'[j].input = <<>>
    BY <2>1
  <2>2. CASE j \in 1..Len(shells) /\ shells'[j].input = shells[j].input
    BY <2>2 DEF NoPassword
  <2>3. CASE /\ j \in 1..Len(shells) /\ shells[j].input # <<>>
             /\ shells'[j].input = Tail(shells[j].input)
    <3>1. PICK s \in Seq(Lines) : s = shells[j].input
      BY <2>3, ShellTypes
    <3>2. i \in 1..Len(Tail(s)) /\ s # <<>>
      BY <2>3, <3>1
    <3>3. Tail(s)[i] = s[i + 1] /\ i + 1 \in 1..Len(s)
      BY <3>2, TailOf
    <3>4. s[i + 1].what # "password"
      BY <2>3, <3>1, <3>3 DEF NoPassword
    <3>5. QED
      BY <2>3, <3>1, <3>3, <3>4
  <2>4. QED
    BY <2>1, <2>2, <2>3
<1>2. QED
  BY <1>1 DEF NoPassword

LEMMA GuestAsked ==
  ASSUME Typed, NoPassword, GuestStep
  PROVE  NoPassword'
<1>1. UNCHANGED hostVars /\ Len(shells) \in Nat
  BY LenProperties DEF GuestStep, Typed, GuestTyped
<1>2. CASE Deliver
  <2>1. /\ Len(keys) \in Nat \ {0} /\ keys[1] \in Lines /\ Len(keys') = Len(keys) - 1
        /\ \A i \in 1..Len(keys) - 1 : keys'[i] = keys[i + 1] /\ i + 1 \in 1..Len(keys)
        /\ leaked' = leaked \/ (leaked' = (leaked \/ (keys[1] = Password /\ front = 0)))
    BY <1>2, DeliverDoes
  <2>2. keys[1].what # "password" /\ keys[1] # Password
    BY <2>1, LineFields DEF NoPassword
  <2>3. ~leaked'
    BY <2>1, <2>2 DEF NoPassword
  <2>4. \A i \in 1..Len(keys') : keys'[i].what # "password"
    BY <2>1 DEF NoPassword
  <2>5. ASSUME NEW k \in 1..Len(shells'), NEW i \in 1..Len(shells'[k].input)
        PROVE  shells'[k].input[i].what # "password"
    <3>1. /\ k \in 1..Len(shells)
          /\ \/ shells'[k].input = shells[k].input
             \/ shells'[k].input = Append(shells[k].input, keys[1])
      BY <1>1, <1>2, DeliverTyped
    <3>2. CASE shells'[k].input = shells[k].input
      BY <3>1, <3>2 DEF NoPassword
    <3>3. CASE shells'[k].input = Append(shells[k].input, keys[1])
      <4>1. PICK s \in Seq(Lines) : s = shells[k].input
        BY <3>1, ShellTypes
      <4>2. /\ Len(s) \in Nat /\ Len(Append(s, keys[1])) = Len(s) + 1
            /\ \A j \in 1..Len(s) : Append(s, keys[1])[j] = s[j]
            /\ Append(s, keys[1])[Len(s) + 1] = keys[1]
        BY <2>1, AppendProperties, LenProperties
      <4>3. i \in 1..Len(s) \/ i = Len(s) + 1
        BY <3>3, <4>1, <4>2
      <4>4. CASE i \in 1..Len(s)
        BY <3>1, <3>3, <4>1, <4>2, <4>4 DEF NoPassword
      <4>5. CASE i = Len(s) + 1
        BY <2>2, <3>3, <4>1, <4>2, <4>5
      <4>6. QED
        BY <4>3, <4>4, <4>5
    <3>4. QED
      BY <3>1, <3>2, <3>3
  <2>6. QED
    BY <2>3, <2>4, <2>5 DEF NoPassword
<1>3. CASE MapTerminal
  <2>1. keys' = keys /\ ~leaked'
    BY <1>1, <1>3, MapTerminalDoes DEF NoPassword
  <2>2. Waiting.input = <<>>
    BY DEF Waiting
  <2>3. ASSUME NEW j \in 1..Len(shells')
        PROVE  \/ shells'[j].input = <<>>
               \/ j \in 1..Len(shells) /\ shells'[j].input = shells[j].input
    <3>1. CASE shells' = shells
      BY <3>1
    <3>2. CASE shells' # shells
      <4>1. /\ Len(shells') = Len(shells) + 1
            /\ \A k \in 1..Len(shells) : shells'[k] = shells[k]
            /\ shells'[Len(shells) + 1] = Waiting
        BY <1>1, <1>3, <3>2, MapTerminalDoes
      <4>2. j \in 1..Len(shells) \/ j = Len(shells) + 1
        BY <1>1, <4>1
      <4>3. QED
        BY <2>2, <4>1, <4>2
    <3>3. QED
      BY <3>1, <3>2
  <2>4. QED
    BY <2>1, <2>3, InputsShrink
<1>4. CASE StealFocus
  <2>1. keys' = keys /\ ~leaked' /\ shells' = shells
    BY <1>1, <1>4, StealFocusDoes DEF NoPassword
  <2>2. QED
    BY <2>1, InputsShrink
<1>5. ASSUME NEW k \in 1..Len(shells), ShellStep(k)
      PROVE  NoPassword'
  <2>1. ASSUME keys' = keys, ~leaked', Len(shells') = Len(shells),
               \A j \in 1..Len(shells) : j # k => shells'[j] = shells[j],
               \/ shells'[k].input = shells[k].input
               \/ shells[k].input # <<>> /\ shells'[k].input = Tail(shells[k].input)
        PROVE  NoPassword'
    BY <2>1, InputsShrink
  <2>2. CASE ReadLine(k)
    <3>1. /\ shells[k].input # <<>> /\ leaked' = (leaked \/ shells[k].input[1] = Password)
          /\ keys' = keys /\ Len(shells') = Len(shells)
          /\ shells'[k].input = Tail(shells[k].input)
          /\ \A j \in 1..Len(shells) : j # k => shells'[j] = shells[j]
      BY <1>1, <2>2, ReadLineDoes
    <3>2. 1 \in 1..Len(shells[k].input)
      <4>1. PICK s \in Seq(Lines) : s = shells[k].input
        BY ShellTypes
      <4>2. Len(s) \in Nat \ {0}
        BY <3>1, <4>1, TailOf
      <4>3. QED
        BY <4>1, <4>2
    <3>3. shells[k].input[1].what # "password"
      BY <3>2 DEF NoPassword
    <3>4. ~leaked'
      BY <3>1, <3>3, LineFields DEF NoPassword
    <3>5. QED
      BY <2>1, <3>1, <3>4
  <2>3. CASE Output(k)
    BY <1>1, <2>1, <2>3, OutputDoes DEF NoPassword
  <2>4. CASE WriteStatus(k)
    BY <1>1, <2>1, <2>4, WriteStatusDoes DEF NoPassword
  <2>5. ASSUME NEW code \in {0, 1}, ReadPassword(k, code)
        PROVE  NoPassword'
    BY <1>1, <2>1, <2>5, ReadPasswordDoes DEF NoPassword
  <2>6. ASSUME NEW code \in {0, 1}, NEW away \in BOOLEAN, Mark(k, code, away)
        PROVE  NoPassword'
    BY <1>1, <2>1, <2>6, MarkDoes DEF NoPassword
  <2>7. QED
    BY <1>5, <2>2, <2>3, <2>4, <2>5, <2>6, ShellSteps
<1>6. QED
  BY <1>2, <1>3, <1>4, <1>5 DEF GuestStep

\* What is sent for an admin command alone can hold a password.
LEMMA SendsNone ==
  ASSUME Typed, NoPassword,
         \/ Quiet \/ Send(<<>>)
         \/ \E a \in Lines : a.what # "password" /\ Send(<<a>>)
         \/ \E a, b \in Lines : a.what # "password" /\ b.what # "password" /\ Send(<<a, b>>)
  PROVE  NoPassword'
<1>1. Frame /\ Len(keys) \in Nat
  BY Sends, LenProperties DEF Typed, GuestTyped
<1>2. \A i \in 1..Len(keys') : keys'[i].what # "password"
  <2>1. CASE Quiet \/ Send(<<>>)
    <3>1. keys' = keys
      BY <2>1, Sends
    <3>2. QED
      BY <3>1 DEF NoPassword
  <2>2. ASSUME NEW a \in Lines, a.what # "password", Send(<<a>>)
        PROVE  \A i \in 1..Len(keys') : keys'[i].what # "password"
    <3>1. /\ Len(keys') = Len(keys) + 1 /\ keys'[Len(keys) + 1] = a
          /\ \A i \in 1..Len(keys) : keys'[i] = keys[i]
      BY <2>2, Sends
    <3>2. \A i \in 1..Len(keys') : i \in 1..Len(keys) \/ i = Len(keys) + 1
      BY <1>1, <3>1
    <3>3. QED
      BY <2>2, <3>1, <3>2 DEF NoPassword
  <2>3. ASSUME NEW a \in Lines, NEW b \in Lines,
               a.what # "password", b.what # "password", Send(<<a, b>>)
        PROVE  \A i \in 1..Len(keys') : keys'[i].what # "password"
    <3>1. /\ Len(keys') = Len(keys) + 2 /\ keys'[Len(keys) + 1] = a
          /\ keys'[Len(keys) + 2] = b
          /\ \A i \in 1..Len(keys) : keys'[i] = keys[i]
      BY <2>3, Sends
    <3>2. \A i \in 1..Len(keys') : \/ i \in 1..Len(keys) \/ i = Len(keys) + 1
                                   \/ i = Len(keys) + 2
      BY <1>1, <3>1
    <3>3. QED
      BY <2>3, <3>1, <3>2 DEF NoPassword
  <2>4. QED
    BY <2>1, <2>2, <2>3
<1>3. QED
  BY <1>1, <1>2 DEF Frame, NoPassword

LEMMA LineUses ==
  /\ Open.what # "password" /\ Serve.what # "password" /\ Envelope.what = "envelope"
  /\ Envelope.cmd = cmd /\ Envelope.sudo = Asks
  /\ Line("launch", cmd, FALSE).what = "launch"
  /\ Open.what = "open" /\ Serve.what = "serve"
<1>1. /\ Envelope.what = "envelope" /\ Envelope.cmd = cmd /\ Envelope.sudo = Asks
  BY LineFields DEF Envelope
<1>2. Line("launch", cmd, FALSE).what = "launch"
  BY DEF Line
<1>3. QED
  BY <1>1, <1>2, LineFields

LEMMA CallStepSends ==
  ASSUME Typed, CallStep, passwordRequired # "yes"
  PROVE  \/ Quiet \/ Send(<<>>)
         \/ \E a \in Lines : a.what # "password" /\ Send(<<a>>)
         \/ \E a, b \in Lines : a.what # "password" /\ b.what # "password" /\ Send(<<a, b>>)
<1>1. /\ Open \in Lines /\ Serve \in Lines /\ Envelope \in Lines
      /\ Line("launch", cmd, FALSE) \in Lines
  BY LinesSent, EnvelopeSent
<1>2. /\ Open.what # "password" /\ Serve.what # "password" /\ Envelope.what # "password"
      /\ Line("launch", cmd, FALSE).what # "password"
  BY LineUses
<1>3. CASE Quiet
  BY <1>3
<1>4. CASE Send(<<Open>>)
  BY <1>1, <1>2, <1>4
<1>5. CASE Send(<<Envelope>>)
  BY <1>1, <1>2, <1>5
<1>6. CASE Send(<<Line("launch", cmd, FALSE)>>)
  BY <1>1, <1>2, <1>6
<1>7. CASE Send(<<Open, Serve>>)
  BY <1>1, <1>2, <1>7
<1>8. CASE Send(<<Open, Envelope>>)
  BY <1>1, <1>2, <1>8
<1>9. CASE Started
  BY <1>9 DEF Started, Passwords, Asks
<1>10. CASE Focus \/ UseServer
  BY <1>3, <1>4, <1>10 DEF Focus, UseServer
<1>11. CASE BootstrapByShortcut \/ BootstrapBySearch
  BY <1>7, <1>11 DEF BootstrapByShortcut, BootstrapBySearch
<1>12. CASE \/ Bootstrapped \/ NoTerminal \/ NotAccepted \/ WaitSucceeds \/ WaitFails \/ ReadOutput
            \/ FoundFragments \/ PollAgain \/ Unmatched \/ Expire
  BY <1>3, <1>12 DEF Bootstrapped, NoTerminal, NotAccepted, WaitSucceeds, WaitFails, ReadOutput,
                     FoundFragments, PollAgain, Unmatched, Expire
<1>13. CASE Type
  BY <1>5, <1>13 DEF Type
<1>14. CASE Launch
  BY <1>6, <1>14 DEF Launch
<1>15. CASE TypeAgain
  BY <1>8, <1>15 DEF TypeAgain
<1>16. QED
  BY <1>9, <1>10, <1>11, <1>12, <1>13, <1>14, <1>15 DEF CallStep

\* Where a step of a call leads: on within the call, or to its end.
LEMMA CallStepLeads ==
  ASSUME Typed, TruthInv, Asked, CallStep
  PROVE  /\ at # "idle"
         /\ \/ \E to \in {"ensure", "boot", "search", "type", "started", "poll", "fragments",
                          "wait"} : Goto(to)
            \/ Goto("output") /\ kind[cmd] = "output"
            \/ \E r : Finish(r)
            \/ /\ at = "output" /\ at' = "idle" /\ kind' = kind /\ cmd' = cmd
               /\ goal' = goal /\ passwordRequired' = passwordRequired
            \/ /\ at = "poll" /\ at' = "fragments" /\ kind' = kind /\ cmd' = cmd
               /\ goal' = goal /\ passwordRequired' = passwordRequired
<1>1. CASE \/ Focus \/ UseServer \/ BootstrapByShortcut \/ BootstrapBySearch \/ Bootstrapped
           \/ Type \/ TypeAgain \/ FoundFragments \/ PollAgain
  BY <1>1 DEF Focus, UseServer, BootstrapByShortcut, BootstrapBySearch, Bootstrapped,
              Type, TypeAgain, FoundFragments, PollAgain
<1>2. CASE Started
  BY <1>2 DEF Started
<1>3. CASE NoTerminal \/ Launch \/ NotAccepted \/ WaitFails \/ Unmatched \/ Expire
  <2>1. at # "idle"
    BY <1>3 DEF NoTerminal, Launch, NotAccepted, WaitFails, Unmatched, Expire
  <2>2. \E r : Finish(r)
    BY <1>3 DEF NoTerminal, Launch, NotAccepted, WaitFails, Unmatched, Expire
  <2>3. QED
    BY <2>1, <2>2
<1>4. CASE WaitSucceeds
  BY <1>4 DEF WaitSucceeds
<1>5. CASE ReadOutput
  BY <1>5 DEF ReadOutput
<1>6. QED
  BY <1>1, <1>2, <1>3, <1>4, <1>5 DEF CallStep

LEMMA CallStepAsked ==
  ASSUME Typed, TruthInv, Asked, CallStep
  PROVE  Asked'
<1>1. kind[Probe] = "run"
  BY DEF TruthInv, KindsFit
<1>2. at # "idle"
  BY CallStepLeads
<1>3. passwordRequired' # "yes" => NoPassword'
  <2>1. passwordRequired' = passwordRequired \/ goal # 0
    <3>1. ASSUME NEW r, Finish(r), goal = 0
          PROVE  passwordRequired' = passwordRequired
      BY <3>1 DEF Finish
    <3>2. QED
      BY <3>1, CallStepLeads, GotoKeeps
  <2>2. goal # 0 => passwordRequired = "unknown"
    BY DEF Asked
  <2>3. ASSUME passwordRequired # "yes"
        PROVE  NoPassword'
    BY <2>3, CallStepSends, SendsNone DEF Asked
  <2>4. QED
    BY <2>1, <2>2, <2>3
<1>4. ASSUME NEW to, Goto(to), to # "idle", to = "output" => kind[cmd] = "output"
      PROVE  Asked'
  <2>1. /\ at' = to /\ cmd' = cmd /\ goal' = goal /\ passwordRequired' = passwordRequired
    BY <1>4, GotoKeeps
  <2>2. goal # 0 => cmd = Probe /\ passwordRequired = "unknown"
    BY DEF Asked
  <2>3. goal # 0 => to # "output"
    BY <1>1, <1>4, <2>2
  <2>4. cmd = Probe => goal # 0
    BY <1>2 DEF Asked
  <2>5. QED
    BY <1>3, <1>4, <2>1, <2>2, <2>3, <2>4 DEF Asked
<1>5. ASSUME NEW r, Finish(r)
      PROVE  Asked'
  <2>1. CASE goal = 0
    <3>1. goal' = 0 /\ at' = "idle"
      BY <1>5, <2>1 DEF Finish
    <3>2. QED
      BY <1>3, <3>1 DEF Asked
  <2>2. CASE goal # 0
    <3>1. goal' = 0 /\ cmd' = goal
      BY <1>5, <2>2 DEF Finish
    <3>2. QED
      BY <1>3, <2>2, <3>1 DEF Asked, Probe
  <2>3. QED
    BY <2>1, <2>2
<1>6. CASE /\ at = "output" /\ at' = "idle" /\ kind' = kind /\ cmd' = cmd
           /\ goal' = goal /\ passwordRequired' = passwordRequired
  BY <1>3, <1>6 DEF Asked
<1>7. CASE /\ at = "poll" /\ at' = "fragments" /\ kind' = kind /\ cmd' = cmd
           /\ goal' = goal /\ passwordRequired' = passwordRequired
  BY <1>3, <1>7 DEF Asked
<1>8. QED
  BY <1>4, <1>5, <1>6, <1>7, CallStepLeads

LEMMA CallAsked ==
  ASSUME Typed, Asked, NEW c \in 1..Last, NEW how \in Script[c], Call(c, how)
  PROVE  Asked'
<1>1. /\ passwordRequired' = passwordRequired /\ UNCHANGED guestVars
      /\ at' \in {"focus", "ensure"}
      /\ \/ cmd' = Probe /\ goal' = c /\ passwordRequired = "unknown"
         \/ cmd' = c /\ goal' = 0
  BY DEF Call
<1>2. c # 0
  BY DesktopAssumption
<1>3. NoPassword => NoPassword'
  BY <1>1 DEF guestVars, NoPassword
<1>4. QED
  BY <1>1, <1>2, <1>3 DEF Asked, Probe

LEMMA GuestStepAsked ==
  ASSUME Typed, Asked, GuestStep
  PROVE  Asked'
<1>1. passwordRequired' = passwordRequired /\ goal' = goal /\ cmd' = cmd /\ at' = at
  BY DEF GuestStep, hostVars
<1>2. QED
  BY <1>1, GuestAsked DEF Asked

------------------------------------------------------------------------------
(* As long as no input goes astray: what the host sends *)

NoEnvelope ==
  /\ \A i \in 1..Len(keys) : keys[i].what # "envelope"
  /\ \A k \in 1..Len(shells) : \A i \in 1..Len(shells[k].input) :
       shells[k].input[i].what # "envelope"
  /\ \A k \in 1..Len(shells) : shells[k].stage \notin {"mark", "mark sudo"}

LEMMA NothingPending ==
  ASSUME EnvelopesFit, ~Pending
  PROVE  NoEnvelope
BY DEF EnvelopesFit, NoEnvelope

LEMMA NothingTyped ==
  ASSUME NoEnvelope'
  PROVE  EnvelopesFit'
<1>1. /\ \A i \in 1..Len(keys') : keys'[i].what # "envelope"
      /\ \A k \in 1..Len(shells') : \A i \in 1..Len(shells'[k].input) :
           shells'[k].input[i].what # "envelope"
      /\ \A k \in 1..Len(shells') : shells'[k].stage \notin {"mark", "mark sudo"}
  BY DEF NoEnvelope
<1>2. QED
  BY <1>1 DEF EnvelopesFit

\* What a quiet step of the host may not do: use a terminal that a launch has
\* put away.
LEMMA HostQuiet ==
  ASSUME Typed, CalmInv, ~Pending, Frame, keys' = keys,
         serverStarted => serverStarted', serverStarted /\ ~focused => ~focused',
         at' = "started" => ~files[cmd'].started
  PROVE  EnvelopesFit' /\ PasswordsFit' /\ LaunchesFit' /\ ~leaked' /\ ~raced'
<1>1. /\ shells' = shells /\ front' = front /\ opening' = opening /\ files' = files
      /\ leaked' = leaked /\ raced' = raced
  BY DEF Frame
<1>2. NoEnvelope'
  BY <1>1, NothingPending DEF CalmInv, NoEnvelope
<1>3. PasswordsFit'
  BY <1>1 DEF CalmInv, PasswordsFit, SudoWaits
<1>4. LaunchesFit'
  BY <1>1 DEF CalmInv, LaunchesFit
<1>5. QED
  BY <1>1, <1>2, <1>3, <1>4, NothingTyped DEF CalmInv

\* A line is typed into a terminal that has just been asked for, or into the
\* one that has the focus.
LEMMA HostSendsOne ==
  ASSUME Typed, CalmInv, ~Pending, NEW a \in Lines, Send(<<a>>),
         serverStarted => serverStarted', a.what = "open" \/ focused,
         a.what = "launch" => serverStarted' /\ ~focused',
         a.what = "envelope" => Pending' /\ a.cmd = cmd' /\ (a.sudo <=> Asks'),
         a.what = "password" => SudoWaits /\ Settled,
         at' = "started" => ~files'[cmd'].started
  PROVE  EnvelopesFit' /\ PasswordsFit' /\ LaunchesFit' /\ ~leaked' /\ ~raced'
<1>1. /\ shells' = shells /\ front' = front /\ opening' = opening /\ files' = files
      /\ leaked' = leaked /\ raced' = raced
      /\ Len(keys') = Len(keys) + 1 /\ keys'[Len(keys) + 1] = a
      /\ \A i \in 1..Len(keys) : keys'[i] = keys[i]
      /\ Len(keys) \in Nat /\ keys \in Seq(Lines) /\ keys' \in Seq(Lines)
  BY Sends, LenProperties DEF Frame, Typed, GuestTyped
<1>2. \A i \in 1..Len(keys') : i \in 1..Len(keys) \/ i = Len(keys')
  BY <1>1
<1>3. NoEnvelope
  BY NothingPending DEF CalmInv
<1>4. EnvelopesFit'
  <2>1. ASSUME NEW i \in 1..Len(keys'), keys'[i].what = "envelope"
        PROVE  Pending' /\ i = Len(keys') /\ keys'[i].cmd = cmd' /\ (keys'[i].sudo <=> Asks')
    <3>1. i \notin 1..Len(keys)
      BY <1>1, <1>3, <2>1 DEF NoEnvelope
    <3>2. i = Len(keys') /\ keys'[i] = a
      BY <1>1, <1>2, <3>1
    <3>3. QED
      BY <2>1, <3>2
  <2>2. /\ \A k \in 1..Len(shells') : \A i \in 1..Len(shells'[k].input) :
             shells'[k].input[i].what # "envelope"
        /\ \A k \in 1..Len(shells') : shells'[k].stage \notin {"mark", "mark sudo"}
    BY <1>1, <1>3 DEF NoEnvelope
  <2>3. QED
    BY <2>1, <2>2 DEF EnvelopesFit
<1>5. PasswordsFit'
  <2>1. ASSUME NEW i \in 1..Len(keys'), keys'[i].what = "password"
        PROVE  i = 1 /\ SudoWaits' /\ opening' = 0
    <3>1. SudoWaits => SudoWaits'
      BY <1>1 DEF SudoWaits
    <3>2. CASE i \in 1..Len(keys)
      BY <1>1, <2>1, <3>1, <3>2 DEF CalmInv, PasswordsFit
    <3>3. CASE i \notin 1..Len(keys)
      <4>1. i = Len(keys) + 1 /\ a.what = "password"
        BY <1>1, <1>2, <2>1, <3>3
      <4>2. keys = <<>> /\ opening = 0 /\ SudoWaits
        BY <4>1 DEF Settled
      <4>3. QED
        BY <1>1, <3>1, <4>1, <4>2
    <3>4. QED
      BY <3>2, <3>3
  <2>2. ~(at' = "started" /\ Asks' /\ files'[cmd'].started)
    BY <1>1
  <2>3. \A k \in 1..Len(shells') : \A i \in 1..Len(shells'[k].input) :
          shells'[k].input[i].what = "password" => i = 1 /\ shells'[k].stage = "sudo"
    BY <1>1 DEF CalmInv, PasswordsFit
  <2>4. QED
    BY <2>1, <2>2, <2>3 DEF PasswordsFit
<1>6. LaunchesFit'
  <2>1. ASSUME NEW i \in 1..Len(keys'), keys'[i].what = "launch"
        PROVE  /\ serverStarted'
               /\ IF i = Len(keys') THEN ~focused' ELSE keys'[i + 1].what = "open"
    <3>1. CASE i \in 1..Len(keys)
      <4>1. /\ serverStarted /\ i # Len(keys')
            /\ IF i = Len(keys) THEN ~focused ELSE keys[i + 1].what = "open"
        BY <1>1, <2>1, <3>1 DEF CalmInv, LaunchesFit
      <4>2. CASE i = Len(keys)
        BY <1>1, <4>1, <4>2
      <4>3. CASE i # Len(keys)
        <5>1. i + 1 \in 1..Len(keys)
          BY <1>1, <3>1, <4>3
        <5>2. QED
          BY <1>1, <4>1, <4>3, <5>1
      <4>4. QED
        BY <4>2, <4>3
    <3>2. CASE i \notin 1..Len(keys)
      BY <1>1, <1>2, <2>1, <3>2
    <3>3. QED
      BY <3>1, <3>2
  <2>2. ASSUME NEW k \in 1..Len(shells'), NEW i \in 1..Len(shells'[k].input),
               shells'[k].input[i].what = "launch"
        PROVE  /\ serverStarted' /\ i = Len(shells'[k].input)
               /\ k = front' => \/ opening' > 0
                                \/ keys' # <<>> /\ keys'[1].what = "open"
                                \/ keys' = <<>> /\ ~focused'
    <3>1. /\ serverStarted /\ i = Len(shells[k].input)
          /\ k = front => \/ opening > 0
                          \/ keys # <<>> /\ keys[1].what = "open"
                          \/ keys = <<>> /\ ~focused
      BY <1>1, <2>2 DEF CalmInv, LaunchesFit
    <3>2. keys' # <<>>
      BY <1>1
    <3>3. keys # <<>> => 1 \in 1..Len(keys)
      <4>1. keys # <<>> => Len(keys) # 0
        BY <1>1, EmptySeq
      <4>2. QED
        BY <1>1, <4>1
    <3>4. keys # <<>> => keys'[1] = keys[1]
      BY <1>1, <3>3
    <3>5. keys = <<>> => keys'[1] = a
      BY <1>1
    <3>6. QED
      BY <1>1, <3>1, <3>2, <3>4, <3>5
  <2>3. QED
    BY <2>1, <2>2 DEF LaunchesFit
<1>7. QED
  BY <1>1, <1>4, <1>5, <1>6 DEF CalmInv

\* A terminal is asked for, and the server started in it.
LEMMA HostBootstraps ==
  ASSUME Typed, CalmInv, ~Pending, Send(<<Open, Serve>>),
         serverStarted' = serverStarted, at' # "started"
  PROVE  EnvelopesFit' /\ PasswordsFit' /\ LaunchesFit' /\ ~leaked' /\ ~raced'
<1>1. /\ Open.what = "open" /\ Serve.what = "serve" /\ Open \in Lines /\ Serve \in Lines
  BY LineFields, LinesSent
<1>2. /\ shells' = shells /\ front' = front /\ opening' = opening /\ files' = files
      /\ leaked' = leaked /\ raced' = raced
      /\ Len(keys') = Len(keys) + 2
      /\ keys'[Len(keys) + 1] = Open /\ keys'[Len(keys) + 2] = Serve
      /\ \A i \in 1..Len(keys) : keys'[i] = keys[i]
      /\ Len(keys) \in Nat /\ keys \in Seq(Lines) /\ keys' \in Seq(Lines)
  BY <1>1, Sends, LenProperties DEF Frame, Typed, GuestTyped
<1>3. \A i \in 1..Len(keys') :
        i \in 1..Len(keys) \/ keys'[i].what \in {"open", "serve"}
  <2>1. \A i \in 1..Len(keys') :
          i \in 1..Len(keys) \/ i = Len(keys) + 1 \/ i = Len(keys) + 2
    BY <1>2
  <2>2. QED
    BY <1>1, <1>2, <2>1
<1>4. NoEnvelope
  BY NothingPending DEF CalmInv
<1>5. NoEnvelope'
  <2>1. \A i \in 1..Len(keys') : keys'[i].what # "envelope"
    BY <1>2, <1>3, <1>4 DEF NoEnvelope
  <2>2. QED
    BY <1>2, <1>4, <2>1 DEF NoEnvelope
<1>6. PasswordsFit'
  <2>1. ASSUME NEW i \in 1..Len(keys'), keys'[i].what = "password"
        PROVE  i = 1 /\ SudoWaits' /\ opening' = 0
    <3>1. SudoWaits => SudoWaits'
      BY <1>2 DEF SudoWaits
    <3>2. i \in 1..Len(keys) /\ keys[i].what = "password"
      BY <1>2, <1>3, <2>1
    <3>3. QED
      BY <1>2, <3>1, <3>2 DEF CalmInv, PasswordsFit
  <2>2. \A k \in 1..Len(shells') : \A i \in 1..Len(shells'[k].input) :
          shells'[k].input[i].what = "password" => i = 1 /\ shells'[k].stage = "sudo"
    BY <1>2 DEF CalmInv, PasswordsFit
  <2>3. QED
    BY <2>1, <2>2 DEF PasswordsFit
<1>7. LaunchesFit'
  <2>1. ASSUME NEW i \in 1..Len(keys'), keys'[i].what = "launch"
        PROVE  /\ serverStarted'
               /\ IF i = Len(keys') THEN ~focused' ELSE keys'[i + 1].what = "open"
    <3>1. i \in 1..Len(keys) /\ keys[i].what = "launch"
      BY <1>2, <1>3, <2>1
    <3>2. /\ serverStarted /\ i # Len(keys')
          /\ IF i = Len(keys) THEN ~focused ELSE keys[i + 1].what = "open"
      BY <1>2, <3>1 DEF CalmInv, LaunchesFit
    <3>3. CASE i = Len(keys)
      BY <1>1, <1>2, <3>2, <3>3
    <3>4. CASE i # Len(keys)
      <4>1. i + 1 \in 1..Len(keys)
        BY <1>2, <3>1, <3>4
      <4>2. QED
        BY <1>2, <3>2, <3>4, <4>1
    <3>5. QED
      BY <3>3, <3>4
  <2>2. ASSUME NEW k \in 1..Len(shells'), NEW i \in 1..Len(shells'[k].input),
               shells'[k].input[i].what = "launch"
        PROVE  /\ serverStarted' /\ i = Len(shells'[k].input)
               /\ k = front' => \/ opening' > 0
                                \/ keys' # <<>> /\ keys'[1].what = "open"
                                \/ keys' = <<>> /\ ~focused'
    <3>1. /\ serverStarted /\ i = Len(shells[k].input)
          /\ k = front => \/ opening > 0
                          \/ keys # <<>> /\ keys[1].what = "open"
                          \/ keys = <<>> /\ ~focused
      BY <1>2, <2>2 DEF CalmInv, LaunchesFit
    <3>2. keys' # <<>>
      BY <1>2
    <3>3. keys # <<>> => keys'[1] = keys[1]
      <4>1. keys # <<>> => Len(keys) # 0
        BY <1>2, EmptySeq
      <4>2. keys # <<>> => 1 \in 1..Len(keys)
        BY <1>2, <4>1
      <4>3. QED
        BY <1>2, <4>2
    <3>4. keys = <<>> => keys'[1] = Open
      BY <1>2
    <3>5. QED
      BY <1>1, <1>2, <3>1, <3>2, <3>3, <3>4
  <2>3. QED
    BY <2>1, <2>2 DEF LaunchesFit
<1>8. QED
  BY <1>2, <1>5, <1>6, <1>7, NothingTyped DEF CalmInv

LEMMA FreshGoes ==
  ASSUME Typed, Fresh, Frame, NEW to, Goto(to),
         to \in {"focus", "ensure", "boot", "search", "type"} =>
           at \in {"focus", "ensure", "boot", "search", "type"}
  PROVE  Fresh'
<1>1. /\ at' = to /\ kind' = kind /\ cmd' = cmd /\ goal' = goal
      /\ passwordRequired' = passwordRequired /\ files' = files
  BY GotoKeeps DEF Frame
<1>2. QED
  BY <1>1 DEF Fresh

LEMMA FreshEnds ==
  ASSUME Typed, Fresh, Frame, NEW r, Finish(r)
  PROVE  Fresh' /\ at' \in {"idle", "ensure"}
<1>1. kind' = kind /\ files' = files /\ goal' = 0
  <2>1. goal' = 0
    BY DEF Finish
  <2>2. QED
    BY <2>1 DEF Finish, Frame
<1>2. CASE goal = 0
  <2>1. at' = "idle" /\ cmd' = cmd /\ passwordRequired' = passwordRequired
    BY <1>2 DEF Finish
  <2>2. QED
    BY <1>1, <1>2, <2>1 DEF Fresh
<1>3. CASE goal # 0
  <2>1. at' = "ensure" /\ cmd' = goal /\ passwordRequired' # "unknown"
    BY <1>3 DEF Finish
  <2>2. QED
    BY <1>1, <1>3, <2>1 DEF Fresh
<1>4. QED
  BY <1>2, <1>3

LEMMA CallStepCalm ==
  ASSUME Typed, TruthInv, Asked, CalmInv, CallStep, ~retried'
  PROVE  CalmInv'
<1> DEFINE Lined == EnvelopesFit' /\ PasswordsFit' /\ LaunchesFit' /\ ~leaked' /\ ~raced'
<1>1. /\ Open \in Lines /\ Serve \in Lines /\ Password \in Lines /\ Envelope \in Lines
      /\ Line("launch", cmd, FALSE) \in Lines
  BY LinesSent, EnvelopeSent
<1>2. Fresh /\ HostFits
  BY DEF CalmInv
<1>3. at # "started" => ~Pending
  BY DEF Pending
<1>4. serverStarted \in BOOLEAN /\ focused \in BOOLEAN
  BY DEF Typed, TypeOK
\* A step that sends nothing, and goes on or ends the call.
<1>5. ASSUME Quiet, serverStarted' = serverStarted, focused' = focused \/ ~focused',
             ~Pending, at' \notin {"boot", "search", "type", "started"}, Fresh'
      PROVE  CalmInv'
  <2>1. Frame /\ keys' = keys
    BY <1>5, Sends
  <2>2. Lined
    BY <1>5, <2>1, HostQuiet
  <2>3. HostFits'
    BY <1>5 DEF HostFits
  <2>4. QED
    BY <1>5, <2>2, <2>3 DEF CalmInv
<1>6. CASE Focus
  <2>1. at = "focus" /\ Goto("ensure") /\ serverStarted' = serverStarted /\ at' = "ensure"
    BY <1>6, GotoKeeps DEF Focus
  <2>2. CASE focused
    <3>1. Quiet
      BY <1>6, <2>2 DEF Focus
    <3>2. Frame /\ keys' = keys
      BY <3>1, Sends
    <3>3. Lined
      BY <1>3, <2>1, <2>2, <3>2, HostQuiet
    <3>4. Fresh'
      BY <1>2, <2>1, <3>2, FreshGoes
    <3>5. QED
      BY <2>1, <3>3, <3>4 DEF CalmInv, HostFits
  <2>3. CASE ~focused
    <3>1. Send(<<Open>>)
      BY <1>6, <2>3 DEF Focus
    <3>2. Frame
      BY <1>1, <3>1, Sends
    <3>3. Lined
      BY <1>1, <1>3, <2>1, <3>1, HostSendsOne, LineFields
    <3>4. Fresh'
      BY <1>2, <2>1, <3>2, FreshGoes
    <3>5. QED
      BY <2>1, <3>3, <3>4 DEF CalmInv, HostFits
  <2>4. QED
    BY <2>2, <2>3
<1>7. CASE UseServer
  <2>1. at = "ensure" /\ Goto("type") /\ serverStarted' /\ focused' /\ at' = "type"
    BY <1>7, GotoKeeps DEF UseServer
  <2>2. HostFits'
    BY <2>1 DEF HostFits
  <2>3. CASE focused
    <3>1. Quiet
      BY <1>7, <2>3 DEF UseServer
    <3>2. Frame /\ keys' = keys
      BY <3>1, Sends
    <3>3. Lined
      BY <1>3, <2>1, <2>3, <3>2, HostQuiet
    <3>4. Fresh'
      BY <1>2, <2>1, <3>2, FreshGoes
    <3>5. QED
      BY <2>2, <3>3, <3>4 DEF CalmInv
  <2>4. CASE ~focused
    <3>1. Send(<<Open>>)
      BY <1>7, <2>4 DEF UseServer
    <3>2. Frame
      BY <1>1, <3>1, Sends
    <3>3. Lined
      BY <1>1, <1>3, <2>1, <3>1, HostSendsOne, LineFields
    <3>4. Fresh'
      BY <1>2, <2>1, <3>2, FreshGoes
    <3>5. QED
      BY <2>2, <3>3, <3>4 DEF CalmInv
  <2>5. QED
    BY <2>3, <2>4
<1>8. CASE BootstrapByShortcut
  <2>1. /\ at = "ensure" /\ Goto("boot") /\ serverStarted' = serverStarted /\ ~serverStarted
        /\ at' = "boot" /\ Send(<<Open, Serve>>)
    BY <1>8, GotoKeeps DEF BootstrapByShortcut
  <2>2. Frame
    BY <1>1, <2>1, Sends
  <2>3. Lined
    BY <1>3, <2>1, HostBootstraps
  <2>4. Fresh'
    BY <1>2, <2>1, <2>2, FreshGoes
  <2>5. QED
    BY <2>1, <2>3, <2>4 DEF CalmInv, HostFits
<1>9. CASE BootstrapBySearch
  <2>1. /\ at = "boot" /\ Goto("search") /\ serverStarted' = serverStarted
        /\ at' = "search" /\ Send(<<Open, Serve>>)
    BY <1>9, GotoKeeps DEF BootstrapBySearch
  <2>2. Frame
    BY <1>1, <2>1, Sends
  <2>3. Lined
    BY <1>3, <2>1, HostBootstraps
  <2>4. Fresh'
    BY <1>2, <2>1, <2>2, FreshGoes
  <2>5. QED
    BY <1>2, <2>1, <2>3, <2>4 DEF CalmInv, HostFits
<1>10. CASE Bootstrapped
  <2>1. /\ at \in {"boot", "search"} /\ Goto("type") /\ serverStarted' /\ focused'
        /\ at' = "type" /\ Quiet
    BY <1>10, GotoKeeps DEF Bootstrapped
  <2>2. Frame /\ keys' = keys
    BY <2>1, Sends
  <2>3. ~serverStarted
    BY <1>2, <2>1 DEF HostFits
  <2>4. Lined
    BY <1>3, <2>1, <2>2, <2>3, HostQuiet
  <2>5. Fresh'
    BY <1>2, <2>1, <2>2, FreshGoes
  <2>6. QED
    BY <2>1, <2>4, <2>5 DEF CalmInv, HostFits
<1>11. CASE NoTerminal
  <2>1. /\ at = "search" /\ Finish("refused") /\ Quiet
        /\ serverStarted' = serverStarted /\ focused' = focused
    BY <1>11 DEF NoTerminal
  <2>2. Fresh' /\ at' \in {"idle", "ensure"}
    BY <1>2, <2>1, Sends, FreshEnds
  <2>3. QED
    BY <1>3, <1>5, <2>1, <2>2
<1>12. CASE Type
  <2>1. /\ at = "type" /\ Goto("started") /\ Send(<<Envelope>>) /\ try' = 1
        /\ serverStarted' = serverStarted /\ focused' = focused /\ at' = "started"
        /\ kind' = kind /\ cmd' = cmd /\ passwordRequired' = passwordRequired
    BY <1>12, GotoKeeps DEF Type
  <2>2. Frame
    BY <1>1, <2>1, Sends
  <2>3. ~files'[cmd'].started /\ focused
    BY <1>2, <2>1, <2>2 DEF Fresh, HostFits, Frame
  <2>4. Pending' /\ (Asks' <=> Asks)
    BY <2>1, <2>3 DEF Pending, Asks
  <2>5. Envelope.what = "envelope" /\ Envelope.cmd = cmd' /\ (Envelope.sudo <=> Asks')
    BY <2>1, <2>4, LineUses
  <2>6. Lined
    BY <1>1, <1>3, <2>1, <2>3, <2>4, <2>5, HostSendsOne
  <2>7. Fresh'
    BY <1>2, <2>1, <2>2, FreshGoes
  <2>8. HostFits'
    BY <2>1, <2>3 DEF HostFits
  <2>9. QED
    BY <2>6, <2>7, <2>8 DEF CalmInv
<1>13. CASE Launch
  <2>1. /\ at = "type" /\ Send(<<Line("launch", cmd, FALSE)>>) /\ Finish("ok")
        /\ ~focused' /\ serverStarted' = serverStarted
    BY <1>13 DEF Launch
  <2>2. Frame
    BY <1>1, <2>1, Sends
  <2>3. Fresh' /\ at' \in {"idle", "ensure"}
    BY <1>2, <2>1, <2>2, FreshEnds
  <2>4. focused /\ serverStarted
    BY <1>2, <2>1 DEF HostFits
  <2>5. Line("launch", cmd, FALSE).what = "launch"
    BY LineUses
  <2>6. Lined
    BY <1>1, <1>3, <2>1, <2>3, <2>4, <2>5, HostSendsOne
  <2>7. HostFits'
    BY <2>3 DEF HostFits
  <2>8. QED
    BY <2>3, <2>6, <2>7 DEF CalmInv
<1>14. CASE Started
  <2>1. /\ at = "started" /\ files[cmd].started /\ at' \in {"poll", "wait"}
        /\ serverStarted' = serverStarted /\ focused' = focused
        /\ Send(IF Asks THEN <<Password>> ELSE <<>>)
    BY <1>14, GotoKeeps DEF Started, Passwords
  <2>2. ~Pending
    BY <2>1 DEF Pending
  <2>3. HostFits'
    BY <2>1 DEF HostFits
  <2>4. ASSUME Frame
        PROVE  Fresh'
    BY <1>2, <1>14, <2>4, FreshGoes DEF Started
  <2>5. CASE Asks
    <3>1. Send(<<Password>>)
      BY <2>1, <2>5
    <3>2. SudoWaits /\ Settled /\ focused
      BY <1>2, <2>1, <2>5 DEF CalmInv, PasswordsFit, HostFits
    <3>3. Lined
      BY <1>1, <2>1, <2>2, <3>1, <3>2, HostSendsOne, LineFields
    <3>4. Frame
      BY <1>1, <3>1, Sends
    <3>5. QED
      BY <2>3, <2>4, <3>3, <3>4 DEF CalmInv
  <2>6. CASE ~Asks
    <3>1. Send(<<>>)
      BY <2>1, <2>6
    <3>2. Frame /\ keys' = keys
      BY <3>1, Sends
    <3>3. Lined
      BY <2>1, <2>2, <3>2, HostQuiet
    <3>4. QED
      BY <2>3, <2>4, <3>2, <3>3 DEF CalmInv
  <2>7. QED
    BY <2>5, <2>6
<1>15. CASE TypeAgain
  BY <1>15 DEF TypeAgain
<1>16. CASE NotAccepted
  BY <1>2, <1>16 DEF NotAccepted, HostFits
<1>17. CASE WaitSucceeds
  <2>1. /\ at = "wait" /\ Quiet /\ serverStarted' = serverStarted
        /\ focused' = (focused /\ kind[cmd] # "x11")
    BY <1>17 DEF WaitSucceeds
  <2>2. Frame
    BY <2>1, Sends
  <2>3. focused' = focused \/ ~focused'
    BY <1>4, <2>1
  <2>4. CASE kind[cmd] = "output"
    <3>1. Goto("output") /\ at' = "output"
      BY <1>17, <2>4, GotoKeeps DEF WaitSucceeds
    <3>2. Fresh'
      BY <1>2, <2>2, <3>1, FreshGoes
    <3>3. QED
      BY <1>3, <1>5, <2>1, <2>3, <3>1, <3>2
  <2>5. CASE kind[cmd] # "output"
    <3>1. Finish("ok")
      BY <1>17, <2>5 DEF WaitSucceeds
    <3>2. Fresh' /\ at' \in {"idle", "ensure"}
      BY <1>2, <2>2, <3>1, FreshEnds
    <3>3. QED
      BY <1>3, <1>5, <2>1, <2>3, <3>2
  <2>6. QED
    BY <2>4, <2>5
<1>18. CASE WaitFails \/ Unmatched \/ Expire
  <2>1. /\ at # "started" /\ Quiet /\ serverStarted' = serverStarted /\ focused' = focused
        /\ \E r : Finish(r)
    BY <1>18 DEF WaitFails, Unmatched, Expire
  <2>2. Fresh' /\ at' \in {"idle", "ensure"}
    BY <1>2, <2>1, Sends, FreshEnds
  <2>3. QED
    BY <1>3, <1>5, <2>1, <2>2
<1>19. CASE ReadOutput
  <2>1. /\ at \in {"output", "poll"} /\ Quiet /\ serverStarted' = serverStarted
        /\ focused' = focused /\ at' \in {"fragments", "idle"}
        /\ kind' = kind /\ cmd' = cmd /\ goal' = goal /\ passwordRequired' = passwordRequired
    BY <1>19 DEF ReadOutput
  <2>2. Frame
    BY <2>1, Sends
  <2>3. Fresh'
    BY <1>2, <2>1, <2>2 DEF Fresh, Frame
  <2>4. QED
    BY <1>3, <1>5, <2>1, <2>3
<1>20. CASE FoundFragments \/ PollAgain
  <2>1. /\ at = "fragments" /\ Quiet /\ serverStarted' = serverStarted
        /\ focused' = focused /\ \E to \in {"wait", "poll"} : Goto(to)
    BY <1>20 DEF FoundFragments, PollAgain
  <2>2. Fresh' /\ at' \in {"wait", "poll"}
    BY <1>2, <2>1, Sends, FreshGoes, GotoKeeps
  <2>3. QED
    BY <1>3, <1>5, <2>1, <2>2
<1>21. QED
  BY <1>6, <1>7, <1>8, <1>9, <1>10, <1>11, <1>12, <1>13, <1>14, <1>15, <1>16, <1>17,
     <1>18, <1>19, <1>20 DEF CallStep

LEMMA CallCalm ==
  ASSUME Typed, Asked, CalmInv, NEW c \in 1..Last, NEW how \in Script[c], Call(c, how)
  PROVE  CalmInv'
<1>1. /\ at = "idle" /\ kind[c] = "none" /\ kind' = [kind EXCEPT ![c] = how]
      /\ \/ cmd' = Probe /\ goal' = c /\ passwordRequired = "unknown"
         \/ cmd' = c /\ goal' = 0
      /\ at' \in {"focus", "ensure"} /\ UNCHANGED guestVars
      /\ serverStarted' = serverStarted /\ focused' = focused
      /\ passwordRequired' = passwordRequired
  BY DEF Call
<1>2. c \in Commands /\ c # Probe /\ c # 0
  BY DesktopAssumption DEF Commands, Probe
<1>3. kind \in [Commands -> Kinds \cup {"run", "none"}]
  BY DEF Typed, TypeOK
<1>4. \A d \in Commands : kind'[d] = "none" => kind[d] = "none" \/ d = c
  BY <1>1, <1>2, <1>3
<1>5. Frame /\ keys' = keys
  BY <1>1, Sends DEF Quiet
<1>6. ~Pending
  BY <1>1 DEF Pending
<1>7. EnvelopesFit' /\ PasswordsFit' /\ LaunchesFit' /\ ~leaked' /\ ~raced'
  BY <1>1, <1>5, <1>6, HostQuiet
<1>8. HostFits'
  BY <1>1 DEF HostFits
<1>9. goal = 0
  BY <1>1 DEF Asked
<1>10. Fresh'
  <2>1. files' = files /\ ~files[c].started
    BY <1>1, <1>2, <1>5 DEF CalmInv, Fresh, Frame
  <2>2. passwordRequired = "unknown" => ~files[Probe].started
    BY <1>9 DEF CalmInv, Fresh
  <2>3. \A d \in Commands : kind'[d] = "none" => ~files'[d].started
    BY <1>4, <2>1 DEF CalmInv, Fresh
  <2>4. ~files'[cmd'].started
    BY <1>1, <2>1, <2>2
  <2>5. goal' # 0 => ~files'[goal'].started /\ goal' # cmd'
    BY <1>1, <1>2, <2>1
  <2>6. passwordRequired' = "unknown" /\ goal' = 0 => ~files'[Probe].started
    BY <1>1, <2>1, <2>2
  <2>7. QED
    BY <2>3, <2>4, <2>5, <2>6 DEF Fresh
<1>11. QED
  BY <1>7, <1>8, <1>10 DEF CalmInv

------------------------------------------------------------------------------
(* As long as no input goes astray: what the guest makes of it *)

LEMMA HostStays ==
  ASSUME Typed, Fresh, HostFits, UNCHANGED hostVars,
         \A c \in Commands : files'[c].started = files[c].started
  PROVE  Fresh' /\ HostFits' /\ (Pending' <=> Pending) /\ (Asks' <=> Asks)
<1>1. /\ kind' = kind /\ at' = at /\ cmd' = cmd /\ goal' = goal /\ try' = try
      /\ serverStarted' = serverStarted /\ focused' = focused
      /\ passwordRequired' = passwordRequired
      /\ cmd \in Commands /\ goal \in Commands /\ Probe \in Commands
  BY LinesSent DEF hostVars, Typed, TypeOK
<1>2. Fresh'
  <2>1. \A c \in Commands : kind'[c] = "none" => ~files'[c].started
    BY <1>1 DEF Fresh
  <2>2. at' \in {"focus", "ensure", "boot", "search", "type"} => ~files'[cmd'].started
    BY <1>1 DEF Fresh
  <2>3. goal' # 0 => ~files'[goal'].started /\ goal' # cmd'
    BY <1>1 DEF Fresh
  <2>4. passwordRequired' = "unknown" /\ goal' = 0 => ~files'[Probe].started
    BY <1>1 DEF Fresh
  <2>5. QED
    BY <2>1, <2>2, <2>3, <2>4 DEF Fresh
<1>3. HostFits'
  BY <1>1 DEF HostFits
<1>4. (Pending' <=> Pending) /\ (Asks' <=> Asks)
  BY <1>1 DEF Pending, Asks
<1>5. QED
  BY <1>2, <1>3, <1>4

LEMMA DeliverCalm ==
  ASSUME Typed, CalmInv, Deliver, UNCHANGED hostVars, mishaps' = {}
  PROVE  CalmInv'
<1>1. /\ keys # <<>> /\ Len(keys) \in Nat \ {0} /\ keys[1] \in Lines
      /\ keys' \in Seq(Lines) /\ Len(keys') = Len(keys) - 1
      /\ \A i \in 1..Len(keys) - 1 : keys'[i] = keys[i + 1] /\ i + 1 \in 1..Len(keys)
      /\ files' = files /\ front' = front /\ raced' = raced
      /\ keys[1].what = "open" => /\ opening' = opening + 1 /\ leaked' = leaked
      /\ keys[1].what # "open" => /\ opening' = opening /\ ~(opening > 0)
                                  /\ leaked' = (leaked \/ (keys[1] = Password /\ front = 0))
      /\ Len(shells') = Len(shells)
  BY DeliverDoes, DeliverTyped
<1>2. ASSUME NEW k \in 1..Len(shells)
      PROVE  /\ shells'[k].stage = shells[k].stage /\ shells'[k].cmd = shells[k].cmd
             /\ k # front \/ keys[1].what = "open" => shells'[k].input = shells[k].input
             /\ k = front /\ keys[1].what # "open" =>
                  shells'[k].input = Append(shells[k].input, keys[1])
  BY DeliverTyped
<1>3. /\ opening \in Nat /\ Len(shells) \in Nat /\ front \in 0..Len(shells)
      /\ 1 \in 1..Len(keys) /\ cmd \in Commands
      /\ serverStarted' = serverStarted /\ focused' = focused /\ cmd' = cmd /\ at' = at
  BY <1>1, LenProperties DEF Typed, GuestTyped, TypeOK, hostVars
<1>4. Fresh' /\ HostFits' /\ (Pending' <=> Pending) /\ (Asks' <=> Asks)
  BY <1>1, HostStays DEF CalmInv
<1>5. ~Settled
  BY <1>1 DEF Settled
\* What a shell has still to read: what it had, and the line delivered.
<1>6. ASSUME NEW k \in 1..Len(shells'), NEW i \in 1..Len(shells'[k].input)
      PROVE  /\ k \in 1..Len(shells)
             /\ \/ /\ i \in 1..Len(shells[k].input)
                   /\ shells'[k].input[i] = shells[k].input[i]
                \/ /\ k = front /\ keys[1].what # "open"
                   /\ i = Len(shells[k].input) + 1 /\ i = Len(shells'[k].input)
                   /\ shells'[k].input[i] = keys[1]
  <2>1. k \in 1..Len(shells)
    BY <1>1
  <2>2. PICK s \in Seq(Lines) : s = shells[k].input
    BY <2>1, ShellTypes
  <2>3. CASE k # front \/ keys[1].what = "open"
    BY <1>2, <2>1, <2>3
  <2>4. CASE k = front /\ keys[1].what # "open"
    <3>1. shells'[k].input = Append(s, keys[1])
      BY <1>2, <2>1, <2>2, <2>4
    <3>2. /\ Len(s) \in Nat /\ Len(Append(s, keys[1])) = Len(s) + 1
          /\ \A j \in 1..Len(s) : Append(s, keys[1])[j] = s[j]
          /\ Append(s, keys[1])[Len(s) + 1] = keys[1]
      BY <1>1, AppendProperties, LenProperties
    <3>3. i \in 1..Len(s) \/ i = Len(s) + 1
      BY <3>1, <3>2
    <3>4. QED
      BY <2>1, <2>2, <2>4, <3>1, <3>2, <3>3
  <2>5. QED
    BY <2>3, <2>4
\* No envelope is on its way, unless it is the line delivered.
<1>7. /\ \A k \in 1..Len(shells) : shells[k].stage \notin {"mark", "mark sudo"}
      /\ \A k \in 1..Len(shells) : \A i \in 1..Len(shells[k].input) :
           shells[k].input[i].what # "envelope"
  BY <1>5 DEF CalmInv, EnvelopesFit
<1>8. EnvelopesFit'
  <2>1. ASSUME NEW i \in 1..Len(keys'), keys'[i].what = "envelope"
        PROVE  Pending' /\ i = Len(keys') /\ keys'[i].cmd = cmd' /\ (keys'[i].sudo <=> Asks')
    <3>1. keys'[i] = keys[i + 1] /\ i + 1 \in 1..Len(keys)
      BY <1>1
    <3>2. /\ Pending /\ i + 1 = Len(keys) /\ keys[i + 1].cmd = cmd
          /\ (keys[i + 1].sudo <=> Asks)
      BY <2>1, <3>1 DEF CalmInv, EnvelopesFit
    <3>3. i = Len(keys')
      BY <1>1, <3>2
    <3>4. QED
      BY <1>3, <1>4, <3>1, <3>2, <3>3
  <2>2. ASSUME NEW k \in 1..Len(shells'), NEW i \in 1..Len(shells'[k].input),
               shells'[k].input[i].what = "envelope"
        PROVE  /\ Pending' /\ Settled' /\ k = front' /\ i = Len(shells'[k].input)
               /\ shells'[k].input[i].cmd = cmd' /\ (shells'[k].input[i].sudo <=> Asks')
    <3>1. /\ k = front /\ keys[1].what # "open"
          /\ i = Len(shells'[k].input) /\ shells'[k].input[i] = keys[1]
      BY <1>6, <1>7, <2>2
    <3>2. Pending /\ 1 = Len(keys) /\ keys[1].cmd = cmd /\ (keys[1].sudo <=> Asks)
      BY <1>3, <2>2, <3>1 DEF CalmInv, EnvelopesFit
    <3>3. keys' = <<>> /\ opening' = 0
      <4>1. Len(keys') = 0
        <5>1. Len(keys') = Len(keys) - 1
          BY <1>1
        <5>2. QED
          BY <3>2, <5>1
      <4>2. keys' = <<>>
        BY <1>1, <4>1, EmptySeq
      <4>3. QED
        BY <1>1, <1>3, <3>1, <4>2
    <3>4. QED
      BY <1>1, <1>3, <1>4, <3>1, <3>2, <3>3 DEF Settled
  <2>3. \A k \in 1..Len(shells') : shells'[k].stage \notin {"mark", "mark sudo"}
    BY <1>1, <1>2, <1>7
  <2>4. QED
    BY <2>1, <2>2, <2>3 DEF EnvelopesFit
<1>9. PasswordsFit'
  <2>1. ~(at' = "started" /\ Asks' /\ files'[cmd'].started)
    BY <1>1, <1>3, <1>4, <1>5 DEF CalmInv, PasswordsFit
  <2>2. \A i \in 1..Len(keys') : keys'[i].what # "password"
    <3>1. ASSUME NEW i \in 1..Len(keys')
          PROVE  keys'[i].what # "password"
      <4>1. keys'[i] = keys[i + 1] /\ i + 1 \in 1..Len(keys) /\ i + 1 # 1
        BY <1>1
      <4>2. QED
        BY <4>1 DEF CalmInv, PasswordsFit
    <3>2. QED
      BY <3>1
  <2>3. ASSUME NEW k \in 1..Len(shells'), NEW i \in 1..Len(shells'[k].input),
               shells'[k].input[i].what = "password"
        PROVE  i = 1 /\ shells'[k].stage = "sudo"
    <3>1. k \in 1..Len(shells) /\ shells'[k].stage = shells[k].stage
      BY <1>1, <1>2
    <3>2. CASE /\ i \in 1..Len(shells[k].input)
               /\ shells'[k].input[i] = shells[k].input[i]
      BY <2>3, <3>1, <3>2 DEF CalmInv, PasswordsFit
    <3>3. CASE /\ k = front /\ i = Len(shells[k].input) + 1
               /\ shells'[k].input[i] = keys[1]
      <4>1. SudoWaits
        BY <1>3, <2>3, <3>3 DEF CalmInv, PasswordsFit
      <4>2. shells[k].input = <<>> /\ shells[k].stage = "sudo"
        BY <3>3, <4>1 DEF SudoWaits
      <4>3. QED
        BY <3>1, <3>3, <4>2
    <3>4. QED
      BY <1>6, <3>2, <3>3
  <2>4. QED
    BY <2>1, <2>2, <2>3 DEF PasswordsFit
<1>10. LaunchesFit'
  <2>1. ASSUME NEW i \in 1..Len(keys'), keys'[i].what = "launch"
        PROVE  /\ serverStarted'
               /\ IF i = Len(keys') THEN ~focused' ELSE keys'[i + 1].what = "open"
    <3>1. keys'[i] = keys[i + 1] /\ i + 1 \in 1..Len(keys)
      BY <1>1
    <3>2. /\ serverStarted
          /\ IF i + 1 = Len(keys) THEN ~focused ELSE keys[i + 2].what = "open"
      BY <2>1, <3>1 DEF CalmInv, LaunchesFit
    <3>3. CASE i + 1 = Len(keys)
      BY <1>1, <1>3, <3>2, <3>3
    <3>4. CASE i + 1 # Len(keys)
      <4>1. i + 1 \in 1..Len(keys) - 1 /\ i # Len(keys')
        BY <1>1, <3>1, <3>4
      <4>2. keys'[i + 1] = keys[i + 2]
        BY <1>1, <4>1
      <4>3. QED
        BY <1>3, <3>2, <3>4, <4>1, <4>2
    <3>5. QED
      BY <3>3, <3>4
  <2>2. ASSUME NEW k \in 1..Len(shells'), NEW i \in 1..Len(shells'[k].input),
               shells'[k].input[i].what = "launch"
        PROVE  /\ serverStarted' /\ i = Len(shells'[k].input)
               /\ k = front' => \/ opening' > 0
                                \/ keys' # <<>> /\ keys'[1].what = "open"
                                \/ keys' = <<>> /\ ~focused'
    <3>1. k \in 1..Len(shells)
      BY <1>1
    <3>2. CASE /\ i \in 1..Len(shells[k].input)
               /\ shells'[k].input[i] = shells[k].input[i]
      <4>1. /\ serverStarted /\ i = Len(shells[k].input)
            /\ k = front => opening > 0 \/ keys[1].what = "open"
        BY <1>1, <2>2, <3>1, <3>2 DEF CalmInv, LaunchesFit
      <4>2. k = front => keys[1].what = "open"
        BY <1>1, <4>1
      <4>3. shells'[k].input = shells[k].input
        BY <1>2, <3>1, <4>2
      <4>4. k = front => opening' > 0
        BY <1>1, <1>3, <4>2
      <4>5. QED
        BY <1>1, <1>3, <4>1, <4>3, <4>4
    <3>3. CASE /\ k = front /\ keys[1].what # "open" /\ i = Len(shells'[k].input)
               /\ shells'[k].input[i] = keys[1]
      <4>1. /\ serverStarted
            /\ IF 1 = Len(keys) THEN ~focused ELSE keys[1 + 1].what = "open"
        BY <1>3, <2>2, <3>3 DEF CalmInv, LaunchesFit
      <4>2. CASE 1 = Len(keys)
        <5>1. Len(keys') = 0
          <6>1. Len(keys') = Len(keys) - 1
            BY <1>1
          <6>2. QED
            BY <4>2, <6>1
        <5>2. keys' = <<>>
          BY <1>1, <5>1, EmptySeq
        <5>3. QED
          BY <1>3, <3>3, <4>1, <4>2, <5>2
      <4>3. CASE 1 # Len(keys)
        <5>1. 1 \in 1..Len(keys) - 1 /\ Len(keys') # 0
          BY <1>1, <4>3
        <5>2. keys'[1] = keys[1 + 1]
          BY <1>1, <5>1
        <5>3. keys' # <<>>
          BY <5>1
        <5>4. QED
          BY <1>3, <3>3, <4>1, <4>3, <5>2, <5>3
      <4>4. QED
        BY <4>2, <4>3
    <3>4. QED
      BY <1>6, <3>2, <3>3
  <2>3. QED
    BY <2>1, <2>2 DEF LaunchesFit
<1>11. ~leaked' /\ ~raced'
  <2>1. keys[1] = Password => front # 0
    <3>1. keys[1] = Password => SudoWaits
      BY <1>3, LineFields DEF CalmInv, PasswordsFit
    <3>2. QED
      BY <3>1 DEF SudoWaits
  <2>2. ~leaked /\ ~raced
    BY DEF CalmInv
  <2>3. CASE keys[1].what = "open"
    BY <1>1, <2>2, <2>3
  <2>4. CASE keys[1].what # "open"
    <3>1. leaked' = (leaked \/ (keys[1] = Password /\ front = 0))
      BY <1>1, <2>4
    <3>2. QED
      BY <1>1, <2>1, <2>2, <3>1
  <2>5. QED
    BY <2>3, <2>4
<1>12. QED
  BY <1>4, <1>8, <1>9, <1>10, <1>11 DEF CalmInv

\* A terminal opens: no envelope and no password was on its way.
LEMMA MapTerminalCalm ==
  ASSUME Typed, CalmInv, MapTerminal, UNCHANGED hostVars, mishaps' = {}
  PROVE  CalmInv'
<1>1. /\ opening > 0 /\ keys' = keys /\ files' = files /\ leaked' = leaked /\ raced' = raced
      /\ Len(shells) \in Nat /\ front \in 0..Len(shells)
      /\ Len(shells') = Len(shells) + 1 /\ front' = Len(shells) + 1
      /\ \A k \in 1..Len(shells) : shells'[k] = shells[k]
      /\ shells'[Len(shells) + 1] = Waiting
  BY MapTerminalDoes DEF Typed, TypeOK
<1>2. Fresh' /\ HostFits' /\ (Pending' <=> Pending) /\ (Asks' <=> Asks)
  BY <1>1, HostStays DEF CalmInv
<1>3. /\ serverStarted' = serverStarted /\ focused' = focused /\ cmd' = cmd /\ at' = at
  BY DEF hostVars
<1>4. ~Settled
  BY <1>1 DEF Settled
<1>5. \A k \in 1..Len(shells') : k \in 1..Len(shells) \/ k = front'
  BY <1>1
<1>6. Waiting.input = <<>> /\ Waiting.stage = "prompt"
  BY DEF Waiting
\* The lines that wait in a terminal wait in one that no longer has the focus.
<1>7. ASSUME NEW k \in 1..Len(shells'), NEW i \in 1..Len(shells'[k].input)
      PROVE  k \in 1..Len(shells) /\ shells'[k] = shells[k] /\ k # front'
  <2>1. k # front'
    BY <1>1, <1>6, <1>7
  <2>2. QED
    BY <1>1, <1>5, <2>1
<1>8. EnvelopesFit'
  <2>1. \A i \in 1..Len(keys') : keys'[i].what = "envelope" =>
          Pending' /\ i = Len(keys') /\ keys'[i].cmd = cmd' /\ (keys'[i].sudo <=> Asks')
    BY <1>1, <1>2, <1>3 DEF CalmInv, EnvelopesFit
  <2>2. \A k \in 1..Len(shells') : \A i \in 1..Len(shells'[k].input) :
          shells'[k].input[i].what # "envelope"
    BY <1>4, <1>7 DEF CalmInv, EnvelopesFit
  <2>3. \A k \in 1..Len(shells') : shells'[k].stage \notin {"mark", "mark sudo"}
    <3>1. ASSUME NEW k \in 1..Len(shells')
          PROVE  shells'[k].stage \notin {"mark", "mark sudo"}
      <4>1. CASE k \in 1..Len(shells)
        BY <1>1, <1>4, <4>1 DEF CalmInv, EnvelopesFit
      <4>2. CASE k = front'
        BY <1>1, <1>6, <4>2
      <4>3. QED
        BY <1>5, <4>1, <4>2
    <3>2. QED
      BY <3>1
  <2>4. QED
    BY <2>1, <2>2, <2>3 DEF EnvelopesFit
<1>9. PasswordsFit'
  <2>1. ~(at' = "started" /\ Asks' /\ files'[cmd'].started)
    BY <1>1, <1>2, <1>3, <1>4 DEF CalmInv, PasswordsFit
  <2>2. \A i \in 1..Len(keys') : keys'[i].what # "password"
    <3>1. opening # 0
      BY <1>1
    <3>2. QED
      BY <1>1, <3>1 DEF CalmInv, PasswordsFit
  <2>3. \A k \in 1..Len(shells') : \A i \in 1..Len(shells'[k].input) :
          shells'[k].input[i].what = "password" => i = 1 /\ shells'[k].stage = "sudo"
    BY <1>7 DEF CalmInv, PasswordsFit
  <2>4. QED
    BY <2>1, <2>2, <2>3 DEF PasswordsFit
<1>10. LaunchesFit'
  <2>1. \A i \in 1..Len(keys') : keys'[i].what = "launch" =>
          /\ serverStarted'
          /\ IF i = Len(keys') THEN ~focused' ELSE keys'[i + 1].what = "open"
    BY <1>1, <1>3 DEF CalmInv, LaunchesFit
  <2>2. \A k \in 1..Len(shells') : \A i \in 1..Len(shells'[k].input) :
          shells'[k].input[i].what = "launch" =>
            serverStarted' /\ i = Len(shells'[k].input) /\ k # front'
    BY <1>3, <1>7 DEF CalmInv, LaunchesFit
  <2>3. QED
    BY <2>1, <2>2 DEF LaunchesFit
<1>11. QED
  BY <1>1, <1>2, <1>8, <1>9, <1>10 DEF CalmInv

\* A shell that is not about to write a marker goes on.
LEMMA ShellGoesOn ==
  ASSUME Typed, CalmInv, UNCHANGED hostVars, NEW k \in 1..Len(shells),
         Len(shells') = Len(shells), keys' = keys, opening' = opening, front' = front,
         leaked' = leaked, raced' = raced,
         \A c \in Commands : files'[c].started = files[c].started,
         \A j \in 1..Len(shells) : j # k => shells'[j] = shells[j],
         shells[k].stage \notin {"mark", "mark sudo"},
         shells'[k].stage \notin {"mark", "mark sudo"},
         \/ shells'[k].input = shells[k].input /\ shells[k].stage # "sudo"
         \/ shells[k].input # <<>> /\ shells'[k].input = Tail(shells[k].input)
  PROVE  CalmInv'
<1>1. Fresh' /\ HostFits' /\ (Pending' <=> Pending) /\ (Asks' <=> Asks)
  BY HostStays DEF CalmInv
<1>2. /\ serverStarted' = serverStarted /\ focused' = focused /\ cmd' = cmd /\ at' = at
      /\ cmd \in Commands
  BY DEF hostVars, Typed, TypeOK
<1>3. Settled' <=> Settled
  BY DEF Settled
\* What a shell has still to read is the end of what it had.
<1>4. ASSUME NEW j \in 1..Len(shells'), NEW i \in 1..Len(shells'[j].input)
      PROVE  \E n \in 1..Len(shells[j].input) :
               /\ shells'[j].input[i] = shells[j].input[n]
               /\ n = Len(shells[j].input) <=> i = Len(shells'[j].input)
               /\ n = 1 => i = 1 /\ shells'[j].input = shells[j].input
  <2>1. j \in 1..Len(shells)
    OBVIOUS
  <2>2. PICK s \in Seq(Lines) : s = shells[j].input
    BY <2>1, ShellTypes
  <2>3. CASE shells'[j].input = s
    BY <2>2, <2>3
  <2>4. CASE s # <<>> /\ shells'[j].input = Tail(s)
    <3>1. /\ Len(s) \in Nat \ {0} /\ Len(Tail(s)) = Len(s) - 1
          /\ \A n \in 1..Len(s) - 1 : Tail(s)[n] = s[n + 1] /\ n + 1 \in 1..Len(s)
      BY <2>4, TailOf
    <3>2. i \in 1..Len(s) - 1
      BY <2>4, <3>1
    <3>3. shells'[j].input[i] = s[i + 1] /\ i + 1 \in 1..Len(s)
      BY <2>4, <3>1, <3>2
    <3>4. (i + 1 = Len(s) <=> i = Len(Tail(s))) /\ i + 1 # 1
      BY <2>4, <3>2, TailEnds
    <3>5. QED
      BY <2>2, <2>4, <3>3, <3>4
  <2>5. QED
    BY <2>1, <2>2, <2>3, <2>4
<1>5. \A j \in 1..Len(shells') : shells'[j].stage \in {"mark", "mark sudo"} =>
        j \in 1..Len(shells) /\ shells'[j] = shells[j]
  OBVIOUS
<1>6. EnvelopesFit'
  <2>1. \A i \in 1..Len(keys') : keys'[i].what = "envelope" =>
          Pending' /\ i = Len(keys') /\ keys'[i].cmd = cmd' /\ (keys'[i].sudo <=> Asks')
    BY <1>1, <1>2 DEF CalmInv, EnvelopesFit
  <2>2. ASSUME NEW j \in 1..Len(shells'), NEW i \in 1..Len(shells'[j].input),
               shells'[j].input[i].what = "envelope"
        PROVE  /\ Pending' /\ Settled' /\ j = front' /\ i = Len(shells'[j].input)
               /\ shells'[j].input[i].cmd = cmd' /\ (shells'[j].input[i].sudo <=> Asks')
    <3>1. PICK n \in 1..Len(shells[j].input) :
            /\ shells'[j].input[i] = shells[j].input[n]
            /\ n = Len(shells[j].input) <=> i = Len(shells'[j].input)
      BY <1>4
    <3>2. /\ Pending /\ Settled /\ j = front /\ n = Len(shells[j].input)
          /\ shells[j].input[n].cmd = cmd /\ (shells[j].input[n].sudo <=> Asks)
      BY <2>2, <3>1 DEF CalmInv, EnvelopesFit
    <3>3. QED
      BY <1>1, <1>2, <1>3, <3>1, <3>2
  <2>3. ASSUME NEW j \in 1..Len(shells'), shells'[j].stage \in {"mark", "mark sudo"}
        PROVE  /\ Pending' /\ Settled' /\ j = front' /\ shells'[j].input = <<>>
               /\ shells'[j].cmd = cmd' /\ (shells'[j].stage = "mark sudo" <=> Asks')
    <3>1. j \in 1..Len(shells) /\ shells'[j] = shells[j]
      BY <1>5, <2>3
    <3>2. /\ Pending /\ Settled /\ j = front /\ shells[j].input = <<>>
          /\ shells[j].cmd = cmd /\ (shells[j].stage = "mark sudo" <=> Asks)
      BY <2>3, <3>1 DEF CalmInv, EnvelopesFit
    <3>3. QED
      BY <1>1, <1>2, <1>3, <3>1, <3>2
  <2>4. QED
    BY <2>1, <2>2, <2>3 DEF EnvelopesFit
<1>7. PasswordsFit'
  <2>1. SudoWaits => SudoWaits'
    <3>1. SudoWaits => front # k
      BY DEF SudoWaits
    <3>2. SudoWaits => front \in 1..Len(shells)
      BY FrontShell DEF SudoWaits
    <3>3. SudoWaits => shells'[front] = shells[front]
      BY <3>1, <3>2
    <3>4. QED
      BY <3>3 DEF SudoWaits
  <2>2. at' = "started" /\ Asks' /\ files'[cmd'].started => SudoWaits' /\ Settled'
    BY <1>1, <1>2, <1>3, <2>1 DEF CalmInv, PasswordsFit
  <2>3. \A i \in 1..Len(keys') : keys'[i].what = "password" =>
          i = 1 /\ SudoWaits' /\ opening' = 0
    BY <2>1 DEF CalmInv, PasswordsFit
  <2>4. ASSUME NEW j \in 1..Len(shells'), NEW i \in 1..Len(shells'[j].input),
               shells'[j].input[i].what = "password"
        PROVE  i = 1 /\ shells'[j].stage = "sudo"
    <3>1. PICK n \in 1..Len(shells[j].input) :
            /\ shells'[j].input[i] = shells[j].input[n]
            /\ n = 1 => i = 1 /\ shells'[j].input = shells[j].input
      BY <1>4
    <3>2. n = 1 /\ shells[j].stage = "sudo"
      BY <2>4, <3>1 DEF CalmInv, PasswordsFit
    <3>3. j # k
      <4>1. PICK s \in Seq(Lines) : s = shells[k].input
        BY ShellTypes
      <4>2. s # <<>> => Tail(s) # s
        BY TailEnds
      <4>3. QED
        BY <3>1, <3>2, <4>1, <4>2
    <3>4. QED
      BY <3>1, <3>2, <3>3
  <2>5. QED
    BY <2>2, <2>3, <2>4 DEF PasswordsFit
<1>8. LaunchesFit'
  <2>1. \A i \in 1..Len(keys') : keys'[i].what = "launch" =>
          /\ serverStarted'
          /\ IF i = Len(keys') THEN ~focused' ELSE keys'[i + 1].what = "open"
    BY <1>2 DEF CalmInv, LaunchesFit
  <2>2. ASSUME NEW j \in 1..Len(shells'), NEW i \in 1..Len(shells'[j].input),
               shells'[j].input[i].what = "launch"
        PROVE  /\ serverStarted' /\ i = Len(shells'[j].input)
               /\ j = front' => \/ opening' > 0
                                \/ keys' # <<>> /\ keys'[1].what = "open"
                                \/ keys' = <<>> /\ ~focused'
    <3>1. PICK n \in 1..Len(shells[j].input) :
            /\ shells'[j].input[i] = shells[j].input[n]
            /\ n = Len(shells[j].input) <=> i = Len(shells'[j].input)
      BY <1>4
    <3>2. /\ serverStarted /\ n = Len(shells[j].input)
          /\ j = front => \/ opening > 0
                          \/ keys # <<>> /\ keys[1].what = "open"
                          \/ keys = <<>> /\ ~focused
      BY <2>2, <3>1 DEF CalmInv, LaunchesFit
    <3>3. QED
      BY <1>2, <3>1, <3>2
  <2>3. QED
    BY <2>1, <2>2 DEF LaunchesFit
<1>9. QED
  BY <1>1, <1>6, <1>7, <1>8 DEF CalmInv

LEMMA OneLine ==
  ASSUME NEW S, NEW s \in Seq(S), Len(s) = 1
  PROVE  Tail(s) = <<>>
<1>1. s # <<>>
  OBVIOUS
<1>2. Tail(s) \in Seq(S) /\ Len(Tail(s)) = 0
  BY <1>1, TailOf
<1>3. QED
  BY <1>2, EmptySeq

LEMMA ReadLineCalm ==
  ASSUME Typed, CalmInv, needed, NEW k \in 1..Len(shells), ReadLine(k), UNCHANGED hostVars,
         mishaps' = {}
  PROVE  CalmInv'
<1>1. PICK line \in Lines : line = shells[k].input[1]
  BY ReadLineDoes
<1>2. /\ shells[k].stage = "prompt" /\ shells[k].input # <<>>
      /\ Len(shells') = Len(shells) /\ shells'[k].input = Tail(shells[k].input)
      /\ \A j \in 1..Len(shells) : j # k => shells'[j] = shells[j]
      /\ keys' = keys /\ opening' = opening /\ files' = files
  BY ReadLineDoes
<1>3. /\ line.what = "envelope" /\ ~files[line.cmd].started =>
           /\ shells'[k].cmd = line.cmd
           /\ shells'[k].stage = IF line.sudo THEN "mark sudo" ELSE "mark"
      /\ ~(line.what = "envelope" /\ ~files[line.cmd].started) =>
           shells'[k].stage = "prompt"
  BY <1>1, ReadLineDoes
<1>4. /\ line.what = "launch" => front' = 0 /\ front = k
      /\ line.what # "launch" => front' = front
  BY <1>1, ReadLineDoes
<1>5. PICK s \in Seq(Lines) : s = shells[k].input
  BY ShellTypes
<1>6. 1 \in 1..Len(s)
  <2>1. Len(s) \in Nat \ {0}
    BY <1>2, <1>5, TailOf
  <2>2. QED
    BY <2>1
<1>7. line.what # "password" /\ line # Password
  <2>1. line.what # "password"
    BY <1>1, <1>2, <1>5, <1>6 DEF CalmInv, PasswordsFit
  <2>2. QED
    BY <2>1, LineFields
<1>8. leaked' = leaked
  <2>1. leaked' = (leaked \/ line = Password)
    BY <1>1, ReadLineDoes
  <2>2. leaked \in BOOLEAN
    BY DEF Typed, GuestTyped
  <2>3. QED
    BY <1>7, <2>1, <2>2
<1>9. raced' = raced
  <2>1. \A j \in 1..Len(shells) : ~(/\ line.what = "envelope"
                                     /\ shells[j].stage \in {"mark", "mark sudo"})
    <3>1. ASSUME NEW j \in 1..Len(shells), line.what = "envelope",
                 shells[j].stage \in {"mark", "mark sudo"}
          PROVE  FALSE
      <4>1. j = front
        BY <3>1 DEF CalmInv, EnvelopesFit
      <4>2. k = front
        BY <1>1, <1>5, <1>6, <3>1 DEF CalmInv, EnvelopesFit
      <4>3. QED
        BY <1>2, <3>1, <4>1, <4>2
    <3>2. QED
      BY <3>1
  <2>2. raced' = (raced \/
           /\ line.what = "envelope" /\ ~files[line.cmd].started
           /\ \E j \in 1..Len(shells) : /\ shells[j].cmd = line.cmd
                                        /\ shells[j].stage \in {"mark", "mark sudo"})
    BY <1>1, ReadLineDoes
  <2>3. raced \in BOOLEAN
    BY DEF Typed, GuestTyped
  <2>4. QED
    BY <2>1, <2>2, <2>3
<1>10. Fresh' /\ HostFits' /\ (Pending' <=> Pending) /\ (Asks' <=> Asks)
  BY <1>2, HostStays DEF CalmInv
<1>11. /\ serverStarted' = serverStarted /\ focused' = focused /\ cmd' = cmd /\ at' = at
       /\ (Settled' <=> Settled)
  BY <1>2 DEF hostVars, Settled
<1>12. CASE line.what # "launch" /\ ~(line.what = "envelope" /\ ~files[line.cmd].started)
  BY <1>2, <1>3, <1>4, <1>8, <1>9, <1>12, ShellGoesOn
<1>13. CASE line.what = "envelope" /\ ~files[line.cmd].started
  <2>1. /\ Pending /\ Settled /\ k = front /\ Len(s) = 1
        /\ line.cmd = cmd /\ (line.sudo <=> Asks)
    BY <1>1, <1>5, <1>6, <1>13 DEF CalmInv, EnvelopesFit
  <2>2. /\ shells'[k].input = <<>> /\ keys' = <<>> /\ front' = front
    BY <1>2, <1>4, <1>5, <1>13, <2>1, OneLine DEF Settled
  <2>3. EnvelopesFit'
    <3>1. \A j \in 1..Len(shells') : \A i \in 1..Len(shells'[j].input) :
            shells'[j].input[i].what # "envelope"
      <4>1. ASSUME NEW j \in 1..Len(shells'), NEW i \in 1..Len(shells'[j].input)
            PROVE  shells'[j].input[i].what # "envelope"
        <5>1. j # k
          BY <2>2
        <5>2. QED
          BY <1>2, <2>1, <5>1, ZenonT(30) DEF CalmInv, EnvelopesFit
      <4>2. QED
        BY <4>1
    <3>2. ASSUME NEW j \in 1..Len(shells'), shells'[j].stage \in {"mark", "mark sudo"}
          PROVE  /\ Pending' /\ Settled' /\ j = front' /\ shells'[j].input = <<>>
                 /\ shells'[j].cmd = cmd' /\ (shells'[j].stage = "mark sudo" <=> Asks')
      <4>1. j = k
        <5>1. j # k => shells[j].stage \in {"mark", "mark sudo"} /\ j \in 1..Len(shells)
          BY <1>2, <3>2
        <5>2. j # k => j = front
          BY <5>1 DEF CalmInv, EnvelopesFit
        <5>3. QED
          BY <2>1, <5>2
      <4>2. shells'[k].cmd = line.cmd /\ (shells'[k].stage = "mark sudo" <=> line.sudo)
        BY <1>3, <1>13
      <4>3. Pending' /\ Settled' /\ j = front' /\ cmd' = line.cmd
        BY <1>10, <1>11, <2>1, <2>2, <4>1
      <4>4. shells'[k].stage = "mark sudo" <=> Asks'
        BY <1>10, <2>1, <4>2
      <4>5. QED
        BY <2>2, <4>1, <4>2, <4>3, <4>4
    <3>3. \A i \in 1..Len(keys') : keys'[i].what # "envelope"
      BY <2>2
    <3>4. QED
      BY <3>1, <3>2, <3>3 DEF EnvelopesFit
  <2>4. PasswordsFit'
    <3>1. ~files'[cmd'].started
      BY <1>2, <1>11, <2>1 DEF Pending
    <3>2. ASSUME NEW j \in 1..Len(shells'), NEW i \in 1..Len(shells'[j].input),
                 shells'[j].input[i].what = "password"
          PROVE  i = 1 /\ shells'[j].stage = "sudo"
      <4>1. j # k
        BY <2>2
      <4>2. QED
        BY <1>2, <3>2, <4>1 DEF CalmInv, PasswordsFit
    <3>3. QED
      BY <2>2, <3>1, <3>2 DEF PasswordsFit
  <2>5. LaunchesFit'
    <3>1. ASSUME NEW j \in 1..Len(shells'), NEW i \in 1..Len(shells'[j].input),
                 shells'[j].input[i].what = "launch"
          PROVE  serverStarted' /\ i = Len(shells'[j].input) /\ j # front'
      <4>1. j # k
        BY <2>2
      <4>2. QED
        BY <1>2, <1>11, <2>1, <2>2, <3>1, <4>1 DEF CalmInv, LaunchesFit
    <3>2. QED
      BY <2>2, <3>1 DEF LaunchesFit
  <2>6. QED
    BY <1>8, <1>9, <1>10, <2>3, <2>4, <2>5 DEF CalmInv
<1>14. CASE line.what = "launch"
  <2>1. front' = 0 /\ front = k /\ shells'[k].stage = "prompt"
    BY <1>3, <1>4, <1>14
  <2>2. Len(s) = 1
    BY <1>1, <1>5, <1>6, <1>14 DEF CalmInv, LaunchesFit
  <2>3. shells'[k].input = <<>>
    BY <1>2, <1>5, <2>2, OneLine
  <2>4. ~SudoWaits
    BY <1>2, <2>1 DEF SudoWaits
  <2>5. EnvelopesFit'
    <3>1. \A i \in 1..Len(keys') : keys'[i].what = "envelope" =>
            Pending' /\ i = Len(keys') /\ keys'[i].cmd = cmd' /\ (keys'[i].sudo <=> Asks')
      BY <1>2, <1>10, <1>11 DEF CalmInv, EnvelopesFit
    <3>2. ASSUME NEW j \in 1..Len(shells'), NEW i \in 1..Len(shells'[j].input)
          PROVE  shells'[j].input[i].what # "envelope"
      <4>1. j # k
        BY <2>3
      <4>2. QED
        BY <1>2, <2>1, <4>1, ZenonT(30) DEF CalmInv, EnvelopesFit
    <3>3. ASSUME NEW j \in 1..Len(shells')
          PROVE  shells'[j].stage \notin {"mark", "mark sudo"}
      <4>1. CASE j = k
        BY <2>1, <4>1
      <4>2. CASE j # k
        BY <1>2, <2>1, <4>2 DEF CalmInv, EnvelopesFit
      <4>3. QED
        BY <4>1, <4>2
    <3>4. QED
      BY <3>1, <3>2, <3>3 DEF EnvelopesFit
  <2>6. PasswordsFit'
    <3>1. ~(at' = "started" /\ Asks' /\ files'[cmd'].started)
      BY <1>2, <1>10, <1>11, <2>4 DEF CalmInv, PasswordsFit
    <3>2. \A i \in 1..Len(keys') : keys'[i].what # "password"
      BY <1>2, <2>4 DEF CalmInv, PasswordsFit
    <3>3. ASSUME NEW j \in 1..Len(shells'), NEW i \in 1..Len(shells'[j].input),
                 shells'[j].input[i].what = "password"
          PROVE  i = 1 /\ shells'[j].stage = "sudo"
      <4>1. j # k
        BY <2>3
      <4>2. QED
        BY <1>2, <3>3, <4>1 DEF CalmInv, PasswordsFit
    <3>4. QED
      BY <3>1, <3>2, <3>3 DEF PasswordsFit
  <2>7. LaunchesFit'
    <3>1. \A i \in 1..Len(keys') : keys'[i].what = "launch" =>
            /\ serverStarted'
            /\ IF i = Len(keys') THEN ~focused' ELSE keys'[i + 1].what = "open"
      BY <1>2, <1>11 DEF CalmInv, LaunchesFit
    <3>2. ASSUME NEW j \in 1..Len(shells'), NEW i \in 1..Len(shells'[j].input),
                 shells'[j].input[i].what = "launch"
          PROVE  serverStarted' /\ i = Len(shells'[j].input) /\ j # front'
      <4>1. j # k /\ j # front'
        BY <2>1, <2>3
      <4>2. QED
        BY <1>2, <1>11, <3>2, <4>1 DEF CalmInv, LaunchesFit
    <3>3. QED
      BY <3>1, <3>2 DEF LaunchesFit
  <2>8. QED
    BY <1>8, <1>9, <1>10, <2>5, <2>6, <2>7 DEF CalmInv
<1>15. QED
  BY <1>12, <1>13, <1>14

\* The shell with the focus writes the marker of the current command.
LEMMA MarkCalm ==
  ASSUME Typed, TruthInv, Asked, CalmInv, UNCHANGED hostVars, NEW k \in 1..Len(shells),
         NEW code \in {0, 1}, NEW away \in BOOLEAN, Mark(k, code, away)
  PROVE  CalmInv'
<1>1. /\ Len(shells') = Len(shells)
      /\ shells'[k].input = shells[k].input
      /\ \A j \in 1..Len(shells) : j # k => shells'[j] = shells[j]
      /\ keys' = keys /\ opening' = opening /\ leaked' = leaked /\ raced' = raced
      /\ \A c \in Commands : c # shells[k].cmd => files'[c] = files[c]
      /\ \/ shells[k].stage = "mark" /\ shells'[k].stage = "output" /\ front' \in {0, front}
         \/ /\ shells[k].stage = "mark sudo" /\ shells'[k].stage = "sudo"
            /\ front' = front
  BY MarkDoes, ZenonT(30) DEF FocusFrom
<1>2. /\ Pending /\ Settled /\ k = front /\ shells[k].input = <<>>
      /\ shells[k].cmd = cmd /\ (shells[k].stage = "mark sudo" <=> Asks)
  BY <1>1 DEF CalmInv, EnvelopesFit
<1>3. /\ kind' = kind /\ at' = at /\ cmd' = cmd /\ goal' = goal /\ try' = try
      /\ serverStarted' = serverStarted /\ focused' = focused
      /\ passwordRequired' = passwordRequired
      /\ cmd \in Commands /\ goal \in Commands /\ Probe \in Commands
  BY LinesSent DEF hostVars, Typed, TypeOK
<1>4. at = "started"
  BY <1>2 DEF Pending
<1>5. keys' = <<>> /\ opening' = 0 /\ (Asks' <=> Asks)
  BY <1>1, <1>2, <1>3 DEF Settled, Asks
<1>6. Fresh'
  <2>1. \A c \in Commands : kind'[c] = "none" => ~files'[c].started
    <3>1. kind[cmd] # "none"
      BY <1>4 DEF TruthInv, KindsFit
    <3>2. QED
      BY <1>1, <1>2, <1>3, <3>1 DEF CalmInv, Fresh
  <2>2. at' \notin {"focus", "ensure", "boot", "search", "type"}
    BY <1>3, <1>4
  <2>3. goal' # 0 => ~files'[goal'].started /\ goal' # cmd'
    BY <1>1, <1>2, <1>3 DEF CalmInv, Fresh
  <2>4. passwordRequired' = "unknown" /\ goal' = 0 => ~files'[Probe].started
    <3>1. goal = 0 => cmd # Probe
      BY <1>4 DEF Asked
    <3>2. QED
      BY <1>1, <1>2, <1>3, <3>1 DEF CalmInv, Fresh
  <2>5. QED
    BY <2>1, <2>2, <2>3, <2>4 DEF Fresh
<1>7. HostFits'
  BY <1>3 DEF CalmInv, HostFits
\* The lines that wait in a terminal wait in another one.
<1>8. ASSUME NEW j \in 1..Len(shells'), NEW i \in 1..Len(shells'[j].input)
      PROVE  /\ j # k /\ j \in 1..Len(shells) /\ shells'[j] = shells[j] /\ j # front'
  <2>1. shells'[k].input = <<>>
    BY <1>1, <1>2
  <2>2. j # k
    <3>1. CASE j = k
      <4>1. 1..Len(shells'[k].input) = {}
        BY <2>1
      <4>2. QED
        BY <3>1, <4>1, <1>8
    <3>2. QED
      BY <3>1
  <2>3. j \in 1..Len(shells) /\ shells'[j] = shells[j]
    BY <1>1, <1>2, <1>8, <2>2
  <2>4. front' = 0 \/ front' = k
    <3>1. front' = 0 \/ front' = front
      BY <1>1
    <3>2. QED
      BY <1>2, <3>1
  <2>5. j # 0
    BY <1>8
  <2>6. QED
    BY <2>2, <2>3, <2>4, <2>5
<1>9. EnvelopesFit'
  <2>1. \A i \in 1..Len(keys') : keys'[i].what # "envelope"
    BY <1>5
  <2>2. \A j \in 1..Len(shells') : \A i \in 1..Len(shells'[j].input) :
          shells'[j].input[i].what # "envelope"
    BY <1>2, <1>8 DEF CalmInv, EnvelopesFit
  <2>3. ASSUME NEW j \in 1..Len(shells')
        PROVE  shells'[j].stage \notin {"mark", "mark sudo"}
    <3>1. CASE j = k
      BY <1>1, <3>1
    <3>2. CASE j # k
      <4>1. j \in 1..Len(shells) /\ shells'[j] = shells[j] /\ j # front
        BY <1>1, <1>2, <3>2
      <4>2. QED
        BY <4>1 DEF CalmInv, EnvelopesFit
    <3>3. QED
      BY <3>1, <3>2
  <2>4. QED
    BY <2>1, <2>2, <2>3 DEF EnvelopesFit
<1>10. PasswordsFit'
  <2>1. Asks' => SudoWaits'
    <3>1. ASSUME Asks
          PROVE  SudoWaits'
      <4>1. shells'[k].stage = "sudo" /\ front' = k
        BY <1>1, <1>2, <3>1
      <4>2. k # 0
        OBVIOUS
      <4>3. QED
        BY <1>1, <1>2, <4>1, <4>2 DEF SudoWaits
    <3>2. QED
      BY <1>5, <3>1
  <2>2. Settled'
    BY <1>5 DEF Settled
  <2>3. \A i \in 1..Len(keys') : keys'[i].what # "password"
    BY <1>5
  <2>4. \A j \in 1..Len(shells') : \A i \in 1..Len(shells'[j].input) :
          shells'[j].input[i].what = "password" => i = 1 /\ shells'[j].stage = "sudo"
    BY <1>8 DEF CalmInv, PasswordsFit
  <2>5. QED
    BY <2>1, <2>2, <2>3, <2>4 DEF PasswordsFit
<1>11. LaunchesFit'
  <2>1. \A i \in 1..Len(keys') : keys'[i].what # "launch"
    BY <1>5
  <2>2. \A j \in 1..Len(shells') : \A i \in 1..Len(shells'[j].input) :
          shells'[j].input[i].what = "launch" =>
            serverStarted' /\ i = Len(shells'[j].input) /\ j # front'
    BY <1>3, <1>8 DEF CalmInv, LaunchesFit
  <2>3. QED
    BY <2>1, <2>2 DEF LaunchesFit
<1>12. QED
  BY <1>1, <1>6, <1>7, <1>9, <1>10, <1>11 DEF CalmInv

\* Output, the status, and the line sudo reads.
LEMMA StageCalm ==
  ASSUME Typed, TruthInv, CalmInv, UNCHANGED hostVars, NEW k \in 1..Len(shells),
         NEW code \in {0, 1}, ReadPassword(k, code) \/ Output(k) \/ WriteStatus(k)
  PROVE  CalmInv'
<1>1. PICK c \in Commands : c = shells[k].cmd
  BY ShellTypes
<1>2. ASSUME shells[k].stage = "sudo"
      PROVE  files[c].started
  <2>1. StageFits(shells[k].stage, files[c], ran[c], exit[c])
    BY <1>1 DEF CalmInv, TruthInv, StagesFit
  <2>2. QED
    BY <1>2, <2>1 DEF StageFits
<1>3. CASE ReadPassword(k, code)
  <2>1. /\ Len(shells') = Len(shells)
        /\ shells[k].stage = "sudo" /\ shells'[k].stage = "output"
        /\ shells[k].input # <<>> /\ shells'[k].input = Tail(shells[k].input)
        /\ \A j \in 1..Len(shells) : j # k => shells'[j] = shells[j]
        /\ keys' = keys /\ opening' = opening
        /\ leaked' = leaked /\ raced' = raced /\ front' = front
        /\ \A d \in Commands : d # c => files'[d] = files[d]
        /\ files[c].started => files'[c].started
    BY <1>1, <1>3, ReadPasswordDoes DEF FocusFrom
  <2>2. files[c] \in Files /\ files'[c] \in Files
    <3>1. Typed'
      BY <1>3, ReadPasswordDoes
    <3>2. QED
      BY <3>1 DEF Typed, GuestTyped
  <2>3. files'[c].started = files[c].started
    BY <1>2, <2>1, <2>2 DEF Files
  <2>4. \A d \in Commands : files'[d].started = files[d].started
    BY <2>1, <2>3
  <2>5. QED
    BY <2>1, <2>4, ShellGoesOn
<1>4. CASE Output(k)
  <2>1. /\ Len(shells') = Len(shells)
        /\ shells[k].stage = "output" /\ shells'[k].stage = "status"
        /\ shells'[k].input = shells[k].input
        /\ \A j \in 1..Len(shells) : j # k => shells'[j] = shells[j]
        /\ keys' = keys /\ opening' = opening
        /\ leaked' = leaked /\ raced' = raced /\ front' = front
        /\ \A d \in Commands : d # c => files'[d] = files[d]
        /\ files'[c].started = files[c].started
    BY <1>1, <1>4, OutputDoes
  <2>2. \A d \in Commands : files'[d].started = files[d].started
    BY <2>1
  <2>3. QED
    BY <2>1, <2>2, ShellGoesOn
<1>5. CASE WriteStatus(k)
  <2>1. /\ Len(shells') = Len(shells)
        /\ shells[k].stage = "status" /\ shells'[k].stage = "prompt"
        /\ shells'[k].input = shells[k].input
        /\ \A j \in 1..Len(shells) : j # k => shells'[j] = shells[j]
        /\ keys' = keys /\ opening' = opening
        /\ leaked' = leaked /\ raced' = raced /\ front' = front
        /\ \A d \in Commands : d # c => files'[d] = files[d]
        /\ files'[c].started = files[c].started
    BY <1>1, <1>5, WriteStatusDoes
  <2>2. \A d \in Commands : files'[d].started = files[d].started
    BY <2>1
  <2>3. QED
    BY <2>1, <2>2, ShellGoesOn
<1>6. QED
  BY <1>3, <1>4, <1>5

LEMMA GuestCalm ==
  ASSUME Typed, TruthInv, Asked, CalmInv, needed, GuestStep, mishaps' = {}
  PROVE  CalmInv'
<1>1. UNCHANGED hostVars
  BY DEF GuestStep
<1>2. CASE Deliver
  BY <1>1, <1>2, DeliverCalm
<1>3. CASE MapTerminal
  BY <1>1, <1>3, MapTerminalCalm
<1>4. CASE StealFocus
  BY <1>1, <1>4, StealFocusDoes
<1>5. ASSUME NEW k \in 1..Len(shells), ShellStep(k)
      PROVE  CalmInv'
  <2>1. CASE ReadLine(k)
    BY <1>1, <2>1, ReadLineCalm
  <2>2. CASE Output(k) \/ WriteStatus(k)
    <3>1. 0 \in {0, 1}
      OBVIOUS
    <3>2. QED
      BY <1>1, <2>2, <3>1, StageCalm
  <2>3. ASSUME NEW code \in {0, 1}, ReadPassword(k, code)
        PROVE  CalmInv'
    BY <1>1, <2>3, StageCalm
  <2>4. ASSUME NEW code \in {0, 1}, NEW away \in BOOLEAN, Mark(k, code, away)
        PROVE  CalmInv'
    BY <1>1, <2>4, MarkCalm
  <2>5. ASSUME NEW code \in {0, 1}, Mark(k, code, kind[shells[k].cmd] = "x11")
        PROVE  CalmInv'
    <3>1. (kind[shells[k].cmd] = "x11") \in BOOLEAN
      OBVIOUS
    <3>2. QED
      BY <2>4, <2>5, <3>1
  <2>6. QED
    BY <1>5, <2>1, <2>2, <2>3, <2>5, ShellSteps
<1>6. QED
  BY <1>2, <1>3, <1>4, <1>5 DEF GuestStep

------------------------------------------------------------------------------
(* The password stays with sudo *)

LEMMA InitPass ==
  ASSUME Init
  PROVE  PassInv
<1>1. /\ keys = <<>> /\ opening = 0 /\ front = 0 /\ shells = <<>>
      /\ files = [c \in Commands |-> NoFiles] /\ leaked = FALSE /\ raced = FALSE
      /\ at = "idle" /\ goal = 0
  BY DEF Init, DesktopInit
<1>2. \A c \in Commands : ~files[c].started
  BY <1>1 DEF NoFiles
<1>3. Asked
  BY <1>1 DEF Asked, NoPassword
<1>4. Fresh /\ HostFits
  <2>1. Probe \in Commands
    BY LinesSent
  <2>2. QED
    BY <1>1, <1>2, <2>1 DEF Fresh, HostFits
<1>5. EnvelopesFit
  BY <1>1 DEF EnvelopesFit
<1>6. PasswordsFit
  BY <1>1 DEF PasswordsFit
<1>7. LaunchesFit
  BY <1>1 DEF LaunchesFit
<1>8. QED
  BY <1>1, <1>3, <1>4, <1>5, <1>6, <1>7 DEF PassInv, CalmInv

\* What has gone wrong stays known.
LEMMA CalmBefore ==
  ASSUME Typed, Next, Calm'
  PROVE  Calm
<1>1. needed' = needed /\ mishaps \subseteq mishaps'
  <2>1. ASSUME NEW c \in 1..Last, NEW how \in Script[c], Call(c, how)
        PROVE  needed' = needed /\ mishaps \subseteq mishaps'
    BY <2>1 DEF Call, guestVars
  <2>2. CASE CallStep
    <3>1. Frame
      BY <2>2, CallFrame
    <3>2. QED
      BY <3>1 DEF Frame
  <2>3. CASE Deliver
    BY <2>3, DeliverDoes
  <2>4. CASE GuestStep /\ MapTerminal
    BY <2>4, MapTerminalDoes DEF GuestStep
  <2>5. CASE StealFocus
    BY <2>5 DEF StealFocus, TakeFocus, Else
  <2>6. ASSUME NEW k \in 1..Len(shells), ShellStep(k), UNCHANGED hostVars
        PROVE  needed' = needed /\ mishaps \subseteq mishaps'
    <3>1. CASE ReadLine(k)
      BY <2>6, <3>1, ReadLineDoes
    <3>2. CASE Output(k)
      BY <2>6, <3>2, OutputDoes
    <3>3. CASE WriteStatus(k)
      BY <2>6, <3>3, WriteStatusDoes
    <3>4. ASSUME NEW code \in {0, 1}, ReadPassword(k, code)
          PROVE  needed' = needed /\ mishaps \subseteq mishaps'
      BY <2>6, <3>4, ReadPasswordDoes DEF FocusFrom
    <3>5. ASSUME NEW code \in {0, 1}, NEW away \in BOOLEAN, Mark(k, code, away)
          PROVE  needed' = needed /\ mishaps \subseteq mishaps'
      BY <2>6, <3>5, MarkDoes DEF FocusFrom
    <3>6. QED
      BY <2>6, <3>1, <3>2, <3>3, <3>4, <3>5, ShellSteps
  <2>7. CASE Over
    BY <2>7 DEF Over, vars, guestVars
  <2>8. QED
    BY <2>1, <2>2, <2>3, <2>4, <2>5, <2>6, <2>7 DEF Next, GuestStep
<1>2. retried => retried'
  <2>1. CASE CallStep
    BY <2>1 DEF CallStep, Focus, UseServer, BootstrapByShortcut, BootstrapBySearch,
                Bootstrapped, NoTerminal, Type, Launch, Started, TypeAgain, NotAccepted,
                WaitSucceeds, WaitFails, ReadOutput, FoundFragments, PollAgain, Unmatched,
                Expire
  <2>2. CASE ~CallStep
    BY <2>2 DEF Next, Call, GuestStep, Over, vars, hostVars
  <2>3. QED
    BY <2>1, <2>2
<1>3. QED
  BY <1>1, <1>2 DEF Calm

\* A step that changes nothing changes nothing of this.
LEMMA IdleAsked ==
  ASSUME Asked, UNCHANGED vars
  PROVE  Asked'
<1>1. NoPassword => NoPassword'
  BY DEF vars, guestVars, NoPassword
<1>2. QED
  BY <1>1 DEF vars, hostVars, Asked

LEMMA IdleCalm ==
  ASSUME CalmInv, UNCHANGED vars
  PROVE  CalmInv'
<1>1. Fresh'
  BY DEF vars, guestVars, hostVars, CalmInv, Fresh
<1>2. HostFits'
  BY DEF vars, hostVars, CalmInv, HostFits
<1>3. /\ Pending' = Pending /\ Settled' = Settled /\ Asks' = Asks
      /\ SudoWaits' = SudoWaits
  BY DEF vars, guestVars, hostVars, Pending, Settled, Asks, SudoWaits
<1>4. EnvelopesFit'
  BY <1>3 DEF vars, guestVars, hostVars, CalmInv, EnvelopesFit
<1>5. PasswordsFit'
  BY <1>3 DEF vars, guestVars, hostVars, CalmInv, PasswordsFit
<1>6. LaunchesFit'
  BY DEF vars, guestVars, hostVars, CalmInv, LaunchesFit
<1>7. QED
  BY <1>1, <1>2, <1>4, <1>5, <1>6 DEF vars, guestVars, CalmInv

LEMMA IdlePass ==
  ASSUME PassInv, UNCHANGED vars
  PROVE  PassInv'
<1>1. Calm' => Calm
  BY DEF vars, guestVars, hostVars, Calm
<1>2. QED
  BY <1>1, IdleAsked, IdleCalm DEF PassInv

LEMMA NextPass ==
  ASSUME Typed, TruthInv, PassInv, [Next]_vars
  PROVE  PassInv'
<1>1. CASE UNCHANGED vars
  BY <1>1, IdlePass
<1>2. CASE Next
  <2>1. Asked'
    <3>1. ASSUME NEW c \in 1..Last, NEW how \in Script[c], Call(c, how)
          PROVE  Asked'
      BY <3>1, CallAsked DEF PassInv
    <3>2. CASE CallStep
      BY <3>2, CallStepAsked DEF PassInv
    <3>3. CASE GuestStep
      BY <3>3, GuestStepAsked DEF PassInv
    <3>4. CASE UNCHANGED vars
      BY <3>4, IdleAsked DEF PassInv
    <3>5. QED
      BY <1>2, <3>1, <3>2, <3>3, <3>4 DEF Next, Over
  <2>2. ASSUME Calm'
        PROVE  CalmInv'
    <3>1. Calm /\ CalmInv
      BY <1>2, <2>2, CalmBefore DEF PassInv
    <3>2. ASSUME NEW c \in 1..Last, NEW how \in Script[c], Call(c, how)
          PROVE  CalmInv'
      BY <3>1, <3>2, CallCalm DEF PassInv
    <3>3. CASE CallStep
      BY <2>2, <3>1, <3>3, CallStepCalm DEF PassInv, Calm
    <3>4. CASE GuestStep
      BY <2>2, <3>1, <3>4, GuestCalm DEF PassInv, Calm
    <3>5. CASE UNCHANGED vars
      BY <3>1, <3>5, IdleCalm
    <3>6. QED
      BY <1>2, <3>2, <3>3, <3>4, <3>5 DEF Next, Over
  <2>3. QED
    BY <2>1, <2>2 DEF PassInv
<1>3. QED
  BY <1>1, <1>2

\* As long as every line arrives where it was meant to and no envelope is typed
\* again, nothing but sudo reads the password, whatever the commands before
\* did to the focus.
THEOREM PasswordKept == Spec => []PasswordStays
<1>1. Init => PassInv
  BY InitPass
<1>2. Typed /\ TruthInv /\ PassInv /\ [Next]_vars => PassInv'
  BY NextPass
<1>3. PassInv => PasswordStays
  <2>1. ASSUME PassInv, leaked, mishaps = {}, ~retried
        PROVE  passwordRequired = "yes" /\ ~needed
    BY <2>1 DEF PassInv, Asked, NoPassword, Calm, CalmInv
  <2>2. QED
    BY <2>1 DEF PasswordStays
<1>4. QED
  BY <1>1, <1>2, <1>3, TruthHolds, PTL DEF Spec
==============================================================================
