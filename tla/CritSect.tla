------------------------------ MODULE CritSect ------------------------------
(***************************************************************************)
(* Critical sections, kernel mode and interrupt nesting (Core.c): nest     *)
(* counters in KernelReg that tasks and interrupts change without any      *)
(* protection but that an interrupt leaves them as it found them.          *)
(*                                                                         *)
(* A context (the code of a task, or an interrupt) runs a list of          *)
(* operations.  A counter is read and written back in two steps, between   *)
(* which an interrupt may come.  On some ports entering an interrupt masks *)
(* the others until it returns or enables them (ATMega); on the others an  *)
(* interrupt is interrupted by one of a higher level (PIC32, STM32), the   *)
(* tick having the highest.                                                *)
(***************************************************************************)
EXTENDS Integers, Sequences

CONSTANTS
  Level,      \* the interrupts and their priorities, the task's is 0
  MaxDepth    \* bound on the contexts at a time

(* The priority of the tick is the highest of all.                         *)
ASSUME LevelAssumption ==
  /\ "tick" \in DOMAIN Level /\ "task" \notin DOMAIN Level
  /\ \A w \in DOMAIN Level : Level[w] \in Nat \ {0}
  /\ \A w \in DOMAIN Level \ {"tick"} : Level[w] < Level["tick"]
  /\ MaxDepth \in Nat

VARIABLES
  KernelReg,  \* lock, crit_sect_, isr_ and kernel_mode_nest_counter
  enabled,    \* the global interrupt enable
  kernelMode, \* CORE_FLAG_KERNEL_MODE
  contexts,   \* the contexts, the running one last
  masks,      \* the port's interrupts mask each other when they are entered
  torn        \* history: the contexts that were interrupted between a change
              \* of the mode flag and of its counter, in their current call

critVars == <<KernelReg, enabled, kernelMode, contexts, masks, torn>>
------------------------------------------------------------------------------
(* The operations of the calls: a counter goes up or down, a condition on  *)
(* a counter enables or disables something, or the caller's work is done.  *)
Locked(ops) == <<<<"up", "lock">>>> \o ops \o <<<<"down", "lock">>>>

OsCritSectBegin == Locked(<<<<"up", "crit">>, <<"disable", "crit">>>>)

OsCritSectEnd == Locked(<<<<"down", "crit">>, <<"enable", "crit">>>>)

OsIsrBegin == Locked(<<<<"up", "isr">>>>)

OsIsrEnd == Locked(<<<<"down", "isr">>>>)

KCoreKernelModeEnter == <<<<"set", "mode">>, <<"up", "mode">>>>

KCoreKernelModeExit == <<<<"clear", "mode">>, <<"down", "mode">>>>

(* Work that must not be interrupted, and work that needs the mode flag.   *)
Section == <<<<"work", "section">>>>

Privileged == <<<<"work", "mode">>>>

(* KMemAllocObject.                                                        *)
AllocObject ==
  OsCritSectBegin \o KCoreKernelModeEnter \o Section \o Privileged
    \o OsCritSectBegin \o Section \o OsCritSectEnd
    \o Section \o KCoreKernelModeExit \o OsCritSectEnd

(* KMemFreeObject enters kernel mode outside of a critical section;        *)
(* MemFree refuses an object without the mode flag.                        *)
FreeObject ==
  KCoreKernelModeEnter \o Privileged \o OsCritSectBegin \o Section \o OsCritSectEnd
    \o KCoreKernelModeExit

(* The tick may destroy an event or a task, for which it frees an object.  *)
ICoreTickCoop ==
  OsIsrBegin \o OsCritSectBegin \o KCoreKernelModeEnter \o Section \o Privileged
    \o FreeObject \o Section \o Privileged
    \o KCoreKernelModeExit \o OsCritSectEnd \o OsIsrEnd

(* A call that locks or unlocks a list or a node.                          *)
UtilLockCall == OsCritSectBegin \o Section \o OsCritSectEnd
------------------------------------------------------------------------------
(* The code of a call, by name.                                            *)
Code == [rest |-> <<>>, alloc |-> AllocObject, free |-> FreeObject,
         tick |-> ICoreTickCoop, call |-> UtilLockCall]

(* What a context calls, as often as it likes but for the tick: an         *)
(* interrupt emits events, which takes locks and allocates the event.      *)
CallsOf(w) == IF w = "tick" THEN {"tick"}
              ELSE IF w = "task" THEN {"alloc", "free", "call"} ELSE {"alloc", "call"}

(* A context: the task or an interrupt, its code, the operation it is at,  *)
(* and a counter's value between the two halves of its ++ or --, or -1.    *)
Ctx(w, code) == [who |-> w, code |-> code, at |-> 1, reg |-> -1]

Ended(x) == x.at > Len(Code[x.code])

Op(x) == Code[x.code][x.at]

IsAt(x, op) == ~Ended(x) /\ Op(x) = op

Top == contexts[Len(contexts)]

Task == contexts[1]

CritInit ==
  /\ KernelReg = [lock |-> 0, crit |-> 0, isr |-> 0, mode |-> 0]
  /\ enabled = TRUE
  /\ kernelMode = FALSE
  /\ contexts = <<Ctx("task", "rest")>>
  /\ masks \in BOOLEAN
  /\ torn = {}

Calls ==
  /\ Ended(Top) /\ Top.who # "tick"
  /\ \E code \in CallsOf(Top.who) :
       contexts' = [contexts EXCEPT ![Len(contexts)] = Ctx(Top.who, code)]
  /\ torn' = torn \ {Len(contexts)}
  /\ UNCHANGED <<KernelReg, enabled, kernelMode>>

Interrupt(w) ==
  /\ enabled
  /\ Len(contexts) < MaxDepth
  /\ masks \/ Level[w] > (IF Top.who = "task" THEN 0 ELSE Level[Top.who])
  /\ \E code \in CallsOf(w) : contexts' = Append(contexts, Ctx(w, code))
  /\ enabled' = ~masks
  /\ torn' = IF IsAt(Top, <<"up", "mode">>) \/ IsAt(Top, <<"down", "mode">>)
             THEN torn \cup {Len(contexts)} ELSE torn
  /\ UNCHANGED <<KernelReg, kernelMode>>

Return ==
  /\ Len(contexts) > 1 /\ Ended(Top)
  /\ contexts' = SubSeq(contexts, 1, Len(contexts) - 1)
  /\ enabled' = (enabled \/ masks)
  /\ torn' = torn \ {Len(contexts)}
  /\ UNCHANGED <<KernelReg, kernelMode>>
------------------------------------------------------------------------------
SetTop(at, reg) ==
  contexts' = [contexts EXCEPT ![Len(contexts)] =
                 [who |-> Top.who, code |-> Top.code, at |-> at, reg |-> reg]]

Done == SetTop(Top.at + 1, -1)

(* The two halves of a counter's ++ or --.                                 *)
Load(c) ==
  /\ Top.reg = -1
  /\ SetTop(Top.at, KernelReg[c])
  /\ UNCHANGED <<KernelReg, enabled, kernelMode, torn>>

Store(c, d) ==
  /\ Top.reg # -1
  /\ KernelReg' = [KernelReg EXCEPT ![c] = Top.reg + d]
  /\ Done
  /\ UNCHANGED <<enabled, kernelMode, torn>>

EnablesInner(n) == TRUE  \* mutant: the end of every section enables

EnablesEarly(n) == n = 1  \* mutant: the last end leaves interrupts disabled

EndEnables(n) == n = 0

AlwaysClears(n) == TRUE  \* mutant: leaving any level clears the flag

ExitClears(n) == n = 1

BeginDisables(n) == n = 1

Switch(op, c) ==
  /\ enabled' = CASE op = "disable" /\ BeginDisables(KernelReg[c]) -> FALSE
                  [] op = "enable" /\ EndEnables(KernelReg[c]) -> TRUE
                  [] OTHER -> enabled
  /\ kernelMode' = CASE op = "set" /\ KernelReg[c] = 0 -> TRUE
                     [] op = "clear" /\ ExitClears(KernelReg[c]) -> FALSE
                     [] OTHER -> kernelMode
  /\ Done
  /\ UNCHANGED <<KernelReg, torn>>

Step ==
  /\ ~Ended(Top)
  /\ LET op == Op(Top)[1]  c == Op(Top)[2]
     IN  CASE op \in {"up", "down"} -> Load(c) \/ Store(c, IF op = "up" THEN 1 ELSE -1)
           [] OTHER -> Switch(op, c)

CritNext ==
  /\ UNCHANGED masks
  /\ Calls \/ (\E w \in DOMAIN Level : Interrupt(w)) \/ Return \/ Step
------------------------------------------------------------------------------
At(i, what) == IsAt(contexts[i], <<"work", what>>)

(* A context in a critical section is not interrupted.  The one exception  *)
(* is an interrupt on a port with levels, when a context below it had      *)
(* counted its own section and not yet disabled interrupts: the section of *)
(* the interrupt is then an inner one, and disables nothing.               *)
SectionAlone ==
  \A i \in 1 .. Len(contexts) - 1 :
    At(i, "section") =>
      /\ ~masks /\ contexts[i].who # "tick"
      /\ \E j \in 1 .. i - 1 : IsAt(contexts[j], <<"disable", "crit">>)

(* The counters, the interrupt enable and the mode are back at their idle  *)
(* values whenever the task is outside of the kernel, whatever came in     *)
(* between the halves of its own increments.                               *)
RegBalanced ==
  Len(contexts) = 1 /\ Ended(Task) =>
    /\ \A c \in DOMAIN KernelReg : KernelReg[c] = 0
    /\ enabled /\ ~kernelMode

(* The code that asks for kernel mode has it, in interrupts too, except    *)
(* where it or a context below it was interrupted between the two halves   *)
(* of entering or of leaving the mode: who came in then works without the  *)
(* flag, or takes it along.  That happens to a task that frees an object,  *)
(* and on a port with levels to an interrupt that allocates one, when a    *)
(* context below it had counted its section and not yet disabled           *)
(* interrupts.                                                             *)
ModeHeld ==
  /\ At(Len(contexts), "mode") => kernelMode \/ torn # {}
  /\ \A i \in torn :
       \/ contexts[i].code = "free"
       \/ /\ ~masks /\ contexts[i].code = "alloc"
          /\ \E j \in 1 .. i - 1 : IsAt(contexts[j], <<"disable", "crit">>)

(* Critical sections and kernel mode nest: whatever interrupts come at     *)
(* whatever step, in a section nobody else runs, in kernel mode the flag   *)
(* is set, and everything is undone in the end, each with the exceptions   *)
(* above.                                                                  *)
SectionsNest == SectionAlone /\ RegBalanced /\ ModeHeld
==============================================================================
