------------------------------ MODULE TrapEntry ------------------------------
(***************************************************************************)
(* The assembly through which the kernel is entered and tasks are          *)
(* switched: kernel/interrupt/interrupt.S (exception, IRQ, timer,          *)
(* keyboard, page fault and system call entry) and switch_to of            *)
(* arch/x86_64/cpu/switch.S, with do_syscall of src/kernel/main.c.         *)
(*                                                                         *)
(* Each routine is a sequence of instructions, executed one per step on    *)
(* one CPU; an interrupt may come before any instruction while the flag is *)
(* set, a page fault or an exception before any instruction at all.  A     *)
(* register of a task holds the value <<task, register>>, so that a value  *)
(* in the wrong place shows.  C functions keep the callee-saved registers  *)
(* and may leave anything in the others.                                   *)
(*                                                                         *)
(* Each task has one stack, and its own: the tasks here are not copies     *)
(* made by dup_task_struct, which leaves a child its parent's (module      *)
(* Tasks).  Which entry the IDT names is set up outside the repository: a  *)
(* page fault may arrive at isr14 or page_fault_handler, a timer or        *)
(* keyboard interrupt at its own handler or its IRQ stub.                  *)
(***************************************************************************)
EXTENDS Integers, Sequences, FiniteSets, SequencesExt

CONSTANTS Tasks,            \* the tasks switch_to switches between
          MaxDepth          \* bound: kernel entries nested on one stack

ASSUME TrapAssumption == MaxDepth \in Nat \ {0} /\ Tasks # {} /\ IsFiniteSet(Tasks)

VARIABLES regs,             \* the register file
          stack,            \* stack[t]: task t's stack, its top last
          onstk,            \* the task whose stack rsp points to
          cur,              \* the task that runs: rq->curr
          ip,               \* <<routine, index of the next instruction>>
          ifl,              \* the interrupt flag
          thread_sp,        \* thread_sp[t]: the word at 0x1000 in t's struct
          insvc,            \* the interrupt lines the PIC has in service
          phase,            \* "run", "panic", or "astray": at no known address
          ctx               \* history: ctx[t]: what each entry on t's stack interrupted

vars == <<regs, stack, onstk, cur, ip, ifl, thread_sp, insvc, phase, ctx>>

-------------------------------------------------------------------------------
(* The routines *)

\* In the order in which every stub pushes them.
GeneralRegs == <<"rax", "rbx", "rcx", "rdx", "rbp", "rsi", "rdi", "r8", "r9", "r10",
                 "r11", "r12", "r13", "r14", "r15">>
SegmentRegs == <<"ds", "es", "fs", "gs">>
AllRegs     == GeneralRegs \o SegmentRegs
SwitchRegs  == <<"rbp", "rbx", "r12", "r13", "r14", "r15">>

Segments    == ToSet(SegmentRegs)
Regs        == ToSet(GeneralRegs) \cup Segments
CalleeSaved == ToSet(SwitchRegs)
Scratch     == ToSet(GeneralRegs) \ CalleeSaved

Pushes(s) == [i \in DOMAIN s |-> <<"push", s[i]>>]

\* Mutant: registers are popped in the order in which they were pushed.
Pops_SameOrder(s) == [i \in DOMAIN s |-> <<"pop", s[i]>>]

Pops(s) == [i \in DOMAIN s |-> <<"pop", s[Len(s) + 1 - i]>>]

\* Every stub saves registers, does its work and restores them.
Saving(s, body) == Pushes(s) \o body \o Pops(s)

\* isr_common_stub and irq_common_stub differ in the handler they call.
common_stub(handler) ==
  Saving(AllRegs, << <<"kernelsegs">>, <<"call", handler>> >>)
  \o << <<"drop", 2>>, <<"iretq">> >>

ISR_NOERRCODE(num) ==
  << <<"cli">>, <<"const", 0>>, <<"const", num>> >> \o common_stub("isr_handler")

ISR_ERRCODE(num) == << <<"cli">>, <<"const", num>> >> \o common_stub("isr_handler")

IRQ(num) == << <<"cli">>, <<"const", 0>>, <<"const", num>> >> \o common_stub("irq_handler")

page_fault_handler ==
  Saving(GeneralRegs, << <<"call", "do_page_fault">> >>) \o << <<"drop", 1>>, <<"iretq">> >>

\* Mutant: the interrupt is not acknowledged.
device_handler_NoEoi(handler) ==
  Saving(GeneralRegs, << <<"call", handler>> >>) \o << <<"iretq">> >>

\* timer_interrupt_handler and keyboard_interrupt_handler.
device_handler(handler) ==
  Saving(GeneralRegs, << <<"call", handler>>, <<"eoi">> >>) \o << <<"iretq">> >>

\* Mutant: the number and the arguments, seven words, are left on the stack by six.
syscall_leave_Short == << <<"drop", 6>> >> \o Pops(SwitchRegs) \o << <<"sysretq">> >>

syscall_leave == << <<"drop", 7>> >> \o Pops(SwitchRegs) \o << <<"sysretq">> >>

syscall_save == Pushes(SwitchRegs \o <<"rdi", "rsi", "rdx", "r10", "r8", "r9", "rax">>)

\* The moves shift the arguments by one register too many: do_syscall finds
\* the second argument where it expects the number.
syscall_entry ==
  syscall_save
  \o << <<"checknr">>, <<"mov", "r11", "rax">>, <<"mov", "rax", "rdi">>,
        <<"mov", "rdi", "rsi">>, <<"mov", "rsi", "rdx">>, <<"mov", "rdx", "r10">>,
        <<"mov", "r10", "r8">>, <<"mov", "r8", "r9">>, <<"load", "r9", 1>>,
        <<"call", "do_syscall">> >>
  \o syscall_leave

syscall_invalid == << <<"enosys">> >> \o syscall_leave

\* Mutant: the flags are pushed after the stack pointer is saved.
switch_to_SavesEarly ==
  Saving(SwitchRegs, << <<"savesp">>, <<"pushf">>, <<"loadsp">>, <<"popf">> >>) \o << <<"ret">> >>

switch_to ==
  Saving(SwitchRegs, << <<"pushf">>, <<"savesp">>, <<"loadsp">>, <<"popf">> >>) \o << <<"ret">> >>

Code ==
  [isr0 |-> ISR_NOERRCODE(0), isr14 |-> ISR_ERRCODE(14),
   irq0 |-> IRQ(32), irq1 |-> IRQ(33), irq7 |-> IRQ(39),
   page_fault |-> page_fault_handler,
   timer |-> device_handler("timer_interrupt"),
   keyboard |-> device_handler("keyboard_interrupt"),
   syscall |-> syscall_entry, invalid |-> syscall_invalid,
   switch_to |-> switch_to]

-------------------------------------------------------------------------------

TaskCode == <<"task", 0>>

\* Values that are not registers' own: a constant, and what C code leaves.
Const(c) == <<"constant", c>>
Junk     == <<"any">>

\* The selectors are the same for all tasks: nothing gives a task its own, and
\* switch_to does not switch them.
Own(t) == [r \in Regs |-> IF r \in Segments THEN <<"selector", r>> ELSE <<t, r>>]

\* schedule returns behind its call and restores the flag it found.  It is
\* called in a task's own code (kernel_main) or in do_syscall, where
\* this_rq_lock (external) has turned interrupts off.
Resume(at) == IF at = TaskCode THEN TaskCode ELSE <<at[1], at[2] + 1>>

ReturnWord(t, at, flag) == <<"ret", t, Resume(at), flag /\ at = TaskCode>>

\* What a task that called schedule at "at" has on top of its stack: where
\* switch_to returns to, the registers and the flags (interrupts off).
SwitchFrame(t, at) ==
  << ReturnWord(t, at, TRUE) >> \o [i \in DOMAIN SwitchRegs |-> <<t, SwitchRegs[i]>>]
  \o << <<"flags", FALSE>> >>

TaskContext(t) ==
  [regs |-> Own(t), ip |-> TaskCode, ifl |-> TRUE, height |-> 0, onstk |-> t]

\* One task runs, the others' stacks are as switch_to leaves them (for a new
\* task by copy_thread, outside the repository).
Init ==
  /\ cur \in Tasks /\ onstk = cur
  /\ regs = Own(cur)
  /\ stack = [t \in Tasks |-> IF t = cur THEN <<>> ELSE SwitchFrame(t, TaskCode)]
  /\ thread_sp = [t \in Tasks |-> Len(stack[t])]
  /\ ip = TaskCode /\ ifl = TRUE
  /\ insvc = {} /\ phase = "run"
  /\ ctx = [t \in Tasks |-> IF t = cur THEN <<>> ELSE <<TaskContext(t)>>]

Top    == Last(stack[onstk])
Op     == Code[ip[1]][ip[2]]
At(op) == phase = "run" /\ ip # TaskCode /\ Op[1] = op

PushOn(s)  == stack' = [stack EXCEPT ![onstk] = @ \o s]
DropTop(n) == stack' = [stack EXCEPT ![onstk] = SubSeq(@, 1, Len(@) - n)]
Advance    == ip' = <<ip[1], ip[2] + 1>>

-------------------------------------------------------------------------------
(* Entries *)

Context == [regs |-> regs, ip |-> ip, ifl |-> ifl, height |-> Len(stack[onstk]),
            onstk |-> onstk]

Nest ==
  /\ phase = "run" /\ Len(ctx[onstk]) < MaxDepth
  /\ ctx' = [ctx EXCEPT ![onstk] = Append(@, Context)]

Unnest == ctx' = [ctx EXCEPT ![onstk] = Front(@)]

\* The CPU pushes a frame and, for some exceptions, an error code, and goes
\* through an interrupt gate.
Trap(entry, code) ==
  /\ Nest
  /\ PushOn(<< <<"frame", ip, ifl>> >> \o code)
  /\ ip' = <<entry, 1>>
  /\ ifl' = FALSE
  /\ UNCHANGED <<regs, onstk, cur, thread_sp, phase>>

PageFault ==
  /\ \E entry \in {"isr14", "page_fault"} : Trap(entry, <<Const("error")>>)
  /\ UNCHANGED insvc

Exception == Trap("isr0", <<>>) /\ UNCHANGED insvc

\* The PIC holds back what is not above the lines in service; a lower number
\* has the higher priority.
Interrupt(line) ==
  /\ ifl
  /\ \A l \in insvc : line < l
  /\ insvc' = insvc \cup {line}
  /\ \E entry \in CASE line = 0 -> {"timer", "irq0"}
                    [] line = 1 -> {"keyboard", "irq1"}
                    [] line = 7 -> {"irq7"} : Trap(entry, <<>>)

\* The syscall instruction keeps the return address and the flags in rcx and
\* r11.
Syscall ==
  /\ ip = TaskCode
  /\ Nest
  /\ regs' = [regs EXCEPT !["rcx"] = <<cur, "rip">>, !["r11"] = <<cur, "rflags">>]
  /\ ip' = <<"syscall", 1>>
  /\ UNCHANGED <<stack, onstk, cur, ifl, thread_sp, insvc, phase>>

AtDoSyscall == At("call") /\ Op[2] = "do_syscall"

\* schedule, interrupts off, has made next the running task and calls switch_to.
\* Its callers are kernel_main and, in do_syscall, sys_sched_yield.
CallSwitchTo(next) ==
  /\ ip = TaskCode \/ AtDoSyscall
  /\ next # cur
  /\ Nest
  /\ regs' = [r \in Regs |-> CASE r = "rdi" -> <<"task", cur>> [] r = "rsi" -> <<"task", next>>
                               [] r \in Scratch \ {"rdi", "rsi"} -> Junk [] OTHER -> regs[r]]
  /\ PushOn(<< ReturnWord(cur, ip, ifl) >>)
  /\ cur' = next
  /\ ifl' = FALSE
  /\ ip' = <<"switch_to", 1>>
  /\ UNCHANGED <<onstk, thread_sp, insvc, phase>>

-------------------------------------------------------------------------------
(* Instructions *)

\* Segment registers pass through rax.
Push ==
  /\ At("push") /\ Advance
  /\ PushOn(<<regs[Op[2]]>>)
  /\ regs' = IF Op[2] \in Segments THEN [regs EXCEPT !["rax"] = regs[Op[2]]] ELSE regs
  /\ UNCHANGED <<onstk, cur, ifl, thread_sp, insvc, phase, ctx>>

Pop ==
  /\ At("pop") /\ Advance
  /\ DropTop(1)
  /\ regs' = [r \in Regs |-> IF r = Op[2] \/ (r = "rax" /\ Op[2] \in Segments)
                             THEN Top ELSE regs[r]]
  /\ UNCHANGED <<onstk, cur, ifl, thread_sp, insvc, phase, ctx>>

PushConstant ==
  /\ At("const") /\ Advance
  /\ PushOn(<<Const(Op[2])>>)
  /\ UNCHANGED <<regs, onstk, cur, ifl, thread_sp, insvc, phase, ctx>>

Drop ==
  /\ At("drop") /\ Advance
  /\ DropTop(Op[2])
  /\ UNCHANGED <<regs, onstk, cur, ifl, thread_sp, insvc, phase, ctx>>

Cli ==
  /\ At("cli") /\ Advance
  /\ ifl' = FALSE
  /\ UNCHANGED <<regs, stack, onstk, cur, thread_sp, insvc, phase, ctx>>

\* The instructions that only write registers.
Assign ==
  /\ \/ At("mov") /\ regs' = [regs EXCEPT ![Op[2]] = regs[Op[3]]]
     \/ At("load") /\ regs' = [regs EXCEPT ![Op[2]] =
                                 stack[onstk][Len(stack[onstk]) - Op[3]]]
     \/ At("kernelsegs") /\ regs' = [r \in Regs |-> IF r \in Segments \cup {"rax"}
                                                    THEN Const("0x10") ELSE regs[r]]
     \/ At("enosys") /\ regs' = [regs EXCEPT !["rax"] = Const("ENOSYS")]
  /\ Advance
  /\ UNCHANGED <<stack, onstk, cur, ifl, thread_sp, insvc, phase, ctx>>

\* The exception number, which the stub pushed below the 19 registers.
TrapNumber == stack[onstk][Len(stack[onstk]) - 19][2]

\* isr_handler (external) calls handle_exception, which panics for everything
\* but a page fault.
handle_exception_panics == Op[2] = "isr_handler" /\ TrapNumber # 14

\* A C function.  irq_handler is outside the repository and is taken to
\* acknowledge the interrupt.
Call ==
  /\ At("call") /\ Op[2] # "do_syscall"
  /\ IF handle_exception_panics THEN phase' = "panic" /\ UNCHANGED ip
     ELSE Advance /\ UNCHANGED phase
  /\ regs' = [r \in Regs |-> IF r \in Scratch THEN Junk ELSE regs[r]]
  /\ insvc' = IF Op[2] = "irq_handler" THEN insvc \ {TrapNumber - 32} ELSE insvc
  /\ UNCHANGED <<stack, onstk, cur, ifl, thread_sp, ctx>>

\* do_syscall returns: the number it finds in rdi is out of range or not
\* implemented, or the function it calls does not call schedule.
do_syscall ==
  /\ AtDoSyscall /\ Advance
  /\ regs' = [r \in Regs |-> IF r \in Scratch THEN Junk ELSE regs[r]]
  /\ UNCHANGED <<stack, onstk, cur, ifl, thread_sp, insvc, phase, ctx>>

\* A non-specific EOI ends the service of the line of highest priority.
Eoi ==
  /\ At("eoi") /\ Advance
  /\ insvc' = {l \in insvc : \E h \in insvc : h < l}
  /\ regs' = [regs EXCEPT !["rax"] = Const("0x20")]
  /\ UNCHANGED <<stack, onstk, cur, ifl, thread_sp, phase, ctx>>

\* Off a frame that is none, the CPU goes anywhere.
Iretq ==
  /\ At("iretq")
  /\ IF Top[1] = "frame"
     THEN ip' = Top[2] /\ ifl' = Top[3] /\ DropTop(1) /\ Unnest /\ UNCHANGED phase
     ELSE phase' = "astray" /\ UNCHANGED <<ip, ifl, stack, ctx>>
  /\ UNCHANGED <<regs, onstk, cur, thread_sp, insvc>>

\* Whether rax is below NR_syscalls is the caller's choice.
CheckNr ==
  /\ At("checknr")
  /\ Advance \/ ip' = <<"invalid", 1>>
  /\ UNCHANGED <<regs, stack, onstk, cur, ifl, thread_sp, insvc, phase, ctx>>

\* sysretq goes where rcx points, with the flags in r11.  Back in its code the
\* task takes rax, rcx and r11 as results.
Sysretq ==
  /\ At("sysretq")
  /\ IF regs["rcx"] = <<cur, "rip">> /\ regs["r11"] = <<cur, "rflags">>
     THEN /\ ip' = TaskCode
          /\ regs' = [r \in Regs |-> IF r \in {"rax", "rcx", "r11"} THEN <<cur, r>> ELSE regs[r]]
          /\ Unnest /\ UNCHANGED phase
     ELSE phase' = "astray" /\ UNCHANGED <<ip, regs, ctx>>
  /\ UNCHANGED <<stack, onstk, cur, ifl, thread_sp, insvc>>

PushFlags ==
  /\ At("pushf") /\ Advance
  /\ PushOn(<< <<"flags", ifl>> >>)
  /\ UNCHANGED <<regs, onstk, cur, ifl, thread_sp, insvc, phase, ctx>>

PopFlags ==
  /\ At("popf")
  /\ IF Top[1] = "flags" THEN ifl' = Top[2] /\ Advance /\ DropTop(1) /\ UNCHANGED phase
     ELSE phase' = "astray" /\ UNCHANGED <<ifl, ip, stack>>
  /\ UNCHANGED <<regs, onstk, cur, thread_sp, insvc, ctx>>

\* movq %rsp, 0x1000(%rdi)
SaveSp ==
  /\ At("savesp") /\ Advance
  /\ thread_sp' = [thread_sp EXCEPT ![regs["rdi"][2]] = Len(stack[onstk])]
  /\ UNCHANGED <<regs, stack, onstk, cur, ifl, insvc, phase, ctx>>

\* Mutant: the stack pointer is loaded from prev, in rdi.
LoadSp_OfPrev ==
  /\ At("loadsp") /\ Advance
  /\ LET prev == regs["rdi"][2]
     IN  onstk' = prev /\ stack' = [stack EXCEPT ![prev] = SubSeq(@, 1, thread_sp[prev])]
  /\ UNCHANGED <<regs, cur, ifl, thread_sp, insvc, phase, ctx>>

\* movq 0x1000(%rsi), %rsp
LoadSp ==
  /\ At("loadsp") /\ Advance
  /\ LET next == regs["rsi"][2]
     IN  onstk' = next /\ stack' = [stack EXCEPT ![next] = SubSeq(@, 1, thread_sp[next])]
  /\ UNCHANGED <<regs, cur, ifl, thread_sp, insvc, phase, ctx>>

\* ret, then the rest of schedule, which restores the flag the task had there.
\* A task's own code reloads its scratch registers; do_syscall returns.
Ret ==
  /\ At("ret")
  /\ IF Top[1] = "ret"
     THEN /\ ip' = Top[3] /\ ifl' = Top[4]
          /\ regs' = [r \in Regs |-> IF r \notin Scratch THEN regs[r]
                                     ELSE IF Top[3] = TaskCode THEN <<Top[2], r>> ELSE Junk]
          /\ DropTop(1)
          /\ Unnest /\ UNCHANGED phase
     ELSE phase' = "astray" /\ UNCHANGED <<ip, ifl, regs, stack, ctx>>
  /\ UNCHANGED <<onstk, cur, thread_sp, insvc>>

\* After panic, or at an unknown address, the model stops.
Stopped == phase # "run" /\ UNCHANGED vars

Next ==
  \/ PageFault \/ Exception \/ Syscall
  \/ \E line \in {0, 1, 7} : Interrupt(line)
  \/ \E t \in Tasks : CallSwitchTo(t)
  \/ Push \/ Pop \/ PushConstant \/ Drop \/ Cli \/ Assign \/ Call \/ do_syscall \/ Eoi
  \/ Iretq \/ CheckNr \/ Sysretq \/ PushFlags \/ PopFlags \/ SaveSp \/ LoadSp \/ Ret
  \/ Stopped

Spec == Init /\ [][Next]_vars

-------------------------------------------------------------------------------
(* Properties *)

\* A task that executes its own code has its own registers, segments included,
\* its own empty kernel stack and interrupts on, and the PIC has no line left
\* in service that would keep the timer from coming again.
TaskUndisturbed ==
  phase = "run" /\ ip = TaskCode =>
    regs = Own(cur) /\ onstk = cur /\ stack[cur] = <<>> /\ ifl /\ insvc = {} /\ ctx[cur] = <<>>

\* iretq gives back exactly what was interrupted, at whatever instruction of
\* whatever routine: registers, flag, instruction and stack height.  In
\* particular error codes, pushed for some exceptions only, are dropped.
IretRestores ==
  [][Iretq =>
       LET c == Last(ctx[onstk])
       IN  /\ phase' = "run" /\ regs' = c.regs /\ ip' = c.ip /\ ifl' = c.ifl
           /\ onstk = c.onstk /\ Len(stack'[onstk]) = c.height]_vars

\* Whatever path a system call takes, a switch to other tasks in do_syscall
\* included, sysretq finds the caller's callee-saved registers and stack
\* pointer, and a call rejected at the entry returns to its caller.  (An
\* accepted one does not: its moves overwrite r11 and do_syscall may change rcx.)
SysretPreserves ==
  [][Sysretq =>
       /\ \A r \in CalleeSaved : regs[r] = <<cur, r>>
       /\ stack[onstk] = <<>>
       /\ ip[1] = "invalid" => phase' = "run"]_vars

\* A task that switch_to resumes goes on after its own call of schedule, be that
\* in its own code or in a system call, on its own stack, at the height and with
\* the callee-saved registers and the flag it had there, whatever other tasks
\* and traps did in between.
SwitchResumes ==
  [][Ret =>
       LET c == Last(ctx[onstk])
       IN  /\ phase' = "run" /\ cur = onstk /\ c.onstk = onstk
           /\ ip' = Resume(c.ip) /\ ifl' = (c.ifl /\ c.ip = TaskCode)
           /\ \A r \in CalleeSaved : regs'[r] = c.regs[r]
           /\ Len(stack'[onstk]) = c.height]_vars

\* A task whose stack is not in use, be it suspended or about to be switched
\* to, has on its stack what switch_to needs to resume it, and under that, if
\* it is in a system call, what the call will restore, whatever traps came
\* while it was switched from and since.
SuspendedIntact ==
  \A t \in Tasks \ {onstk} :
    LET c     == Last(ctx[t])
        frame == SwitchFrame(t, c.ip)
    IN  /\ thread_sp[t] = Len(stack[t]) /\ Len(stack[t]) = c.height + Len(frame)
        /\ \A i \in DOMAIN frame : stack[t][c.height + i] = frame[i]
        /\ c.ip # TaskCode => \A i \in DOMAIN SwitchRegs : stack[t][i] = <<t, SwitchRegs[i]>>
===============================================================================
