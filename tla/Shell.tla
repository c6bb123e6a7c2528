--------------------------------- MODULE Shell ---------------------------------
(***************************************************************************)
(* The shell's input (Shell.c): the UART interrupt writes characters to    *)
(* ShellRxRingbuf and emits its DATA_IN event, TaskShellParse polls for    *)
(* the event, gathers a line and hands it to a task that executes it.      *)
(*                                                                         *)
(* RingbufRead and RingbufWrite are atomic here (RingBuffer has their      *)
(* steps).  MaxTyped bounds what is typed: the ring-buffer is never full.   *)
(***************************************************************************)
EXTENDS Integers, SequencesExt

CONSTANTS
  Typed,       \* the characters; "n" is LineTerminatorChar
  MaxTyped,    \* bound on the characters typed
  Burst,       \* the most characters that one interrupt delivers
  Life,        \* PRTOS_CONFIG_EVENT_LIFE_TIME_TICKS
  BufferLength, \* SHELL_MAX_LINE_LENGTH
  MaxCommand   \* SHELL_MAX_COMMAND_LENGTH

ASSUME ShellAssumption ==
  /\ "0" \notin Typed
  /\ MaxTyped \in Nat /\ Burst \in Nat
  /\ Life \in Nat \ {0} /\ BufferLength \in Nat \ {0} /\ MaxCommand \in Nat

VARIABLES
  typed,     \* history: how many characters were typed
  rx,        \* the contents of ShellRxRingbuf
  dataIn,    \* ticks that the DATA_IN event has left, 0: not in EventList
  activate,  \* the same for the ACTIVATE event of the shell task
  poll,      \* its poll for DATA_IN: "none", "waits" or "occurred"
  shell,     \* where the shell task is
  amount,    \* read_amount
  index, line,  \* line_write_index, LineBuffer ("0" is a zero byte)
  jobs,      \* the lines handed over and not yet executed
  reading,   \* history: what was read since LineBuffer was cleared
  missed,    \* history: the last DATA_IN found nobody, or was not emitted
  down       \* the system has written where it should not

shellVars == <<typed, rx, dataIn, activate, poll, shell, amount, index, line,
               jobs, reading, missed, down>>

taskFrame == <<typed, rx, dataIn, activate, poll, amount, index, line, jobs,
               reading, missed, down>>

Cleared == [i \in 0 .. BufferLength - 1 |-> "0"]

(* KShellInit has created the task, and its ACTIVATE event.                *)
ShellInit ==
  /\ typed = 0 /\ rx = <<>> /\ dataIn = 0 /\ activate = Life
  /\ poll = "none" /\ shell = "parked" /\ amount = 0
  /\ index = 0 /\ line = Cleared /\ jobs = <<>> /\ reading = <<>>
  /\ missed = FALSE /\ down = FALSE

Running == shell \notin {"parked", "queued"}
------------------------------------------------------------------------------
(* The receive interrupt.  EventEmit fails when it has interrupted a call  *)
(* that holds the lock of EventList.                                       *)
PortDebugCallbackReadChars(chars, locked) ==
  /\ typed + Len(chars) <= MaxTyped
  /\ typed' = typed + Len(chars)
  /\ rx' = rx \o chars
  /\ dataIn' = IF locked THEN dataIn ELSE Life
  /\ missed' = locked
  /\ UNCHANGED <<activate, poll, shell, amount, index, line, jobs, reading, down>>

(* A tick: the broker activates the task for its ACTIVATE event, and for   *)
(* DATA_IN when the task polls for it; it does not look at the polls of    *)
(* the running task.                                                       *)
ShellTick ==
  LET hit == dataIn > 0 /\ poll # "none" /\ ~Running
  IN /\ dataIn + activate > 0
     /\ poll' = IF hit THEN "occurred" ELSE poll
     /\ shell' = IF ~Running /\ (hit \/ activate > 0) THEN "queued" ELSE shell
     /\ dataIn' = IF dataIn > 0 THEN dataIn - 1 ELSE 0
     /\ activate' = IF activate > 0 THEN activate - 1 ELSE 0
     /\ missed' = (missed \/ (Running /\ dataIn = 1))
     /\ UNCHANGED <<typed, rx, amount, index, line, jobs, reading, down>>

Dispatch ==
  /\ shell = "queued"
  /\ shell' = "poll"
  /\ UNCHANGED taskFrame

PollOnce(p) == IF p = "occurred" THEN "none" ELSE "waits"  \* mutant

(* TaskPoll with add_poll: an event that has occurred is handled, and the  *)
(* poll registered anew.  A poll that still waits is found by              *)
(* EventRegister, and OS_RES_FAIL makes the task return.                   *)
PollAfter(p) == "waits"

TaskPollDataIn ==
  /\ shell = "poll"
  /\ poll' = PollAfter(poll)
  /\ shell' = IF poll = "waits" THEN "parked" ELSE "count"
  /\ UNCHANGED <<typed, rx, dataIn, activate, amount, index, line, jobs, reading,
                 missed, down>>

(* read_amount is what RingbufDataCountGet returns.                        *)
ReadAmount ==
  /\ shell = "count"
  /\ shell' = "read"
  /\ amount' = Len(rx)
  /\ UNCHANGED <<typed, rx, dataIn, activate, poll, index, line, jobs, reading,
                 missed, down>>

(* RingbufRead to LineBuffer; what does not fit is written behind it.      *)
ReadLine ==
  /\ shell = "read"
  /\ shell' = IF amount = 0 THEN "parked" ELSE "parse"
  /\ rx' = SubSeq(rx, amount + 1, Len(rx))
  /\ line' = [i \in DOMAIN line |->
                IF i - index \in 0 .. amount - 1 THEN rx[i - index + 1] ELSE line[i]]
  /\ reading' = reading \o SubSeq(rx, 1, amount)
  /\ down' = (down \/ index + amount > BufferLength)
  /\ UNCHANGED <<typed, dataIn, activate, poll, amount, index, jobs, missed>>

(* The characters of LineBuffer up to the first zero.                      *)
Text(l) ==
  LET ends == {i \in 0 .. BufferLength : i = BufferLength \/ l[i] = "0"}
      end  == CHOOSE i \in ends : \A j \in ends : i <= j
  IN [i \in 1 .. end |-> l[i - 1]]

Job(last) == [text |-> Front(reading), line |-> Text([line EXCEPT ![last] = "0"])]

(* The last character read decides: a terminator ends the line, another    *)
(* one moves line_write_index on, or is one too many.  The index is not    *)
(* reset, and has moved by read_amount - 1 before.  TaskCreate may fail;   *)
(* the tokens' table is too small (its size is in bytes): what is written  *)
(* behind it corrupts ShellPool, and a failed MemAlloc is written through. *)
ParseLine ==
  LET last == index + amount - 1
  IN /\ shell = "parse" /\ ~down
     /\ shell' = "parked"
     /\ \/ /\ line[last] = "n"
           /\ jobs' \in {jobs, Append(jobs, Job(last))}
           /\ down' \in BOOLEAN
           /\ line' = Cleared
           /\ index' = last
           /\ reading' = <<>>
        \/ /\ line[last] # "n" /\ last < MaxCommand - 1
           /\ index' = last + amount
           /\ UNCHANGED <<line, jobs, reading, down>>
        \/ /\ line[last] # "n" /\ last >= MaxCommand - 1
           /\ line' = Cleared
           /\ index' = last
           /\ reading' = <<>>
           /\ UNCHANGED <<jobs, down>>
     /\ UNCHANGED <<typed, rx, dataIn, activate, poll, amount, missed>>

(* The command is looked up and executed; what MemFree clears after it in  *)
(* the corrupted pool depends on the memory.                               *)
TaskShellExecute ==
  /\ jobs # <<>> /\ ~Running
  /\ jobs' = Tail(jobs)
  /\ down' \in {down, TRUE}
  /\ UNCHANGED <<typed, rx, dataIn, activate, poll, shell, amount, index, line,
                 reading, missed>>

ShellNext ==
  /\ ~down
  /\ \/ \E n \in 1 .. Burst, locked \in BOOLEAN : \E chars \in [1 .. n -> Typed] :
          PortDebugCallbackReadChars(chars, locked)
     \/ ShellTick
     \/ Dispatch
     \/ TaskPollDataIn
     \/ ReadAmount
     \/ ReadLine
     \/ ParseLine
     \/ TaskShellExecute

ShellSpec == ShellInit /\ [][ShellNext]_shellVars
------------------------------------------------------------------------------
(* Characters never wait in the ring-buffer while the shell task is parked *)
(* and nothing is left to wake it, whatever comes between its poll, its    *)
(* count and its read; unless the event was refused by a locked EventList, *)
(* or its life ended while the task ran.                                   *)
NoneStranded ==
  shell = "parked" /\ rx # <<>> => dataIn > 0 \/ activate > 0 \/ missed

(* What TaskShellExecute assumes of its tokens: the line handed over to it *)
(* holds the command that was typed, from its first character on.  It does *)
(* not after the first line, for line_write_index is never reset and the   *)
(* second line is written behind a zero.                                   *)
CommandNamed == \A i \in 1 .. Len(jobs) :
  jobs[i].text # <<>> /\ Head(jobs[i].text) # "n"
    => jobs[i].line # <<>> /\ Head(jobs[i].line) = Head(jobs[i].text)
==============================================================================
