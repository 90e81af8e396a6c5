--------------------------- MODULE TrapEntryProofs ---------------------------
(***************************************************************************)
(* Proofs about the kernel's assembly, for any tasks and any depth of      *)
(* nested entries.                                                         *)
(*                                                                         *)
(* The invariant describes every entry that is under way, not only the     *)
(* topmost: from the context it interrupted, the instruction it has        *)
(* reached and the words it has on the stack, it says that every register  *)
(* is either as it was interrupted or saved in its word of the stack.      *)
(***************************************************************************)
EXTENDS TrapEntry, SequenceTheorems, TLAPS

-------------------------------------------------------------------------------
(* The routines entered by traps: what they push and how far they are *)

Common  == {"isr0", "isr14", "irq0", "irq1", "irq7"}
Devices == {"timer", "keyboard"}
Traps   == Common \cup Devices \cup {"page_fault"}
Irqs    == {"irq0", "irq1", "irq7"} \cup Devices

Line(R) == IF R \in {"irq0", "timer"} THEN 0
           ELSE IF R \in {"irq1", "keyboard"} THEN 1 ELSE 7

Handler(R) == IF R \in {"isr0", "isr14"} THEN "isr_handler"
              ELSE IF R \in Common THEN "irq_handler"
              ELSE IF R = "page_fault" THEN "do_page_fault"
              ELSE IF R = "timer" THEN "timer_interrupt" ELSE "keyboard_interrupt"

Number(R) == IF R = "isr0" THEN 0 ELSE IF R = "isr14" THEN 14 ELSE 32 + Line(R)

\* The registers a routine saves, and how many words lie under them: the
\* frame, the error code or its substitute and the number.
Saves(R) == IF R \in Common THEN AllRegs ELSE GeneralRegs
NRegs(R) == IF R \in Common THEN 19 ELSE 15
Under(R) == IF R \in Common THEN 3 ELSE IF R = "page_fault" THEN 2 ELSE 1

BodyLen(R) == IF R = "page_fault" THEN 1 ELSE 2
PostLen(R) == IF R \in Devices THEN 1 ELSE 2

\* The last instruction before the pushes, of the pushes, of what is done
\* between them and the pops, of the pops, and of all.
PreEnd(R)  == IF R = "isr14" THEN 2 ELSE IF R \in Common THEN 3 ELSE 0
PushEnd(R) == PreEnd(R) + NRegs(R)
BodyEnd(R) == PushEnd(R) + BodyLen(R)
PopEnd(R)  == BodyEnd(R) + NRegs(R)
End(R)     == PopEnd(R) + PostLen(R)

\* Before instruction i: the registers that are on the stack, and all words.
Saved(R, i) == IF i <= PreEnd(R) THEN 0
               ELSE IF i <= PushEnd(R) THEN i - PreEnd(R) - 1
               ELSE IF i <= BodyEnd(R) THEN NRegs(R)
               ELSE IF i <= PopEnd(R) THEN PopEnd(R) + 1 - i ELSE 0

Words(R, i) == IF i <= PreEnd(R)
               THEN Under(R) - (PreEnd(R) + 1 - (IF i = 1 THEN 2 ELSE i))
               ELSE IF i <= PopEnd(R) + 1 THEN Under(R) + Saved(R, i) ELSE 1

-------------------------------------------------------------------------------
(* The invariant *)

IsSeq(s)  == Len(s) \in Nat /\ s = [i \in 1 .. Len(s) |-> s[i]]
IsRegs(f) == f = [r \in Regs |-> f[r]]

\* Every register of D is as in old, or its old value is in its word of the
\* stack, the first of which is above b.
Kept(st, b, s, n, D, old, new) ==
  /\ \A m \in 1 .. n : st[b + m] = old[s[m]]
  /\ \A r \in D : new[r] = old[r] \/ \E m \in 1 .. n : r = s[m]

\* A trap under way: it interrupted context c and has got to context a.
Trapped(c, a, st) ==
  LET R == a.ip[1]
      i == a.ip[2]
  IN  /\ R \in Traps /\ i \in 1 .. End(R) /\ a.ip = <<R, i>>
      /\ a.ifl = FALSE /\ a.onstk = c.onstk
      /\ R \in Irqs => c.ifl = TRUE
      /\ a.height = c.height + Words(R, i)
      /\ st[c.height + 1] = <<"frame", c.ip, c.ifl>>
      /\ R \in Common /\ PreEnd(R) < i /\ i <= PopEnd(R) => st[c.height + 3] = Const(Number(R))
      /\ Kept(st, c.height + Under(R), Saves(R), Saved(R, i), Regs, c.regs, a.regs)

\* Before each instruction of a system call: the words on the stack, the first
\* six of which are the callee-saved registers.
CallWords(R, i) ==
  IF R = "invalid" THEN IF i <= 2 THEN 13 ELSE 9 - i
  ELSE IF i <= 14 THEN i - 1 ELSE IF i <= 24 THEN 13 ELSE 31 - i

CallSaved(R, i) == IF CallWords(R, i) <= 6 THEN CallWords(R, i) ELSE 6

CallLast(R) == IF R = "syscall" THEN 31 ELSE 9

\* The registers a routine called by a task keeps.
Apart == CalleeSaved \cup Segments

\* A system call under way.  Up to the check of the number, and after it if it
\* failed, sysretq's registers are in place.  Interrupts are on, except after a
\* switch in do_syscall.
Called(c, a, st) ==
  LET R == a.ip[1]
      i == a.ip[2]
  IN  /\ R \in {"syscall", "invalid"} /\ a.ip = <<R, i>>
      /\ i \in 1 .. CallLast(R)
      /\ c.ip = TaskCode /\ a.onstk = c.onstk
      /\ a.ifl = TRUE \/ (a.ifl = FALSE /\ R = "syscall" /\ i > 23)
      /\ a.height = CallWords(R, i)
      /\ \A m \in 1 .. CallSaved(R, i) : st[m] = c.regs[SwitchRegs[m]]
      /\ \A r \in Apart : a.regs[r] = c.regs[r]
      /\ R = "invalid" \/ i <= 14 =>
           /\ a.regs["rcx"] = <<c.onstk, "rip">> /\ a.regs["r11"] = <<c.onstk, "rflags">>
           /\ \A r \in Scratch \ {"rax", "rcx", "r11"} : a.regs[r] = c.regs[r]
      /\ R = "syscall" /\ i > 23 => a.regs["rcx"] = Junk

SwitchWords(i) == IF i <= 7 THEN i ELSE IF i <= 10 THEN 8 ELSE 18 - i
SwitchSaved(i) == IF i <= 7 THEN i - 1 ELSE IF i <= 10 THEN 6 ELSE 17 - i

\* Where a system call calls do_syscall.
DoSyscall == <<"syscall", 23>>

\* A switch under way, called at context c: on either stack lies a part of the
\* frame that resumes its task there.
Switched(c, a, st) ==
  LET i == a.ip[2]
  IN  /\ a.ip = <<"switch_to", i>> /\ i \in 1 .. 17
      /\ c.ip \in {TaskCode, DoSyscall} /\ a.ifl = FALSE /\ a.onstk = c.onstk
      /\ a.height = c.height + SwitchWords(i)
      /\ st[c.height + 1] = ReturnWord(a.onstk, c.ip, TRUE)
      /\ i \in 8 .. 10 => st[c.height + 8] = <<"flags", FALSE>>
      /\ Kept(st, c.height + 1, SwitchRegs, SwitchSaved(i), Apart, Own(a.onstk), a.regs)

Activation(c, a, st) == Trapped(c, a, st) \/ Called(c, a, st) \/ Switched(c, a, st)

\* What was interrupted on the stack in use, outermost first, and what runs now.
Ctx    == ctx[onstk]
Levels == Append(Ctx, Context)

IsLevel(l) ==
  /\ l = [regs |-> l.regs, ip |-> l.ip, ifl |-> l.ifl, height |-> l.height, onstk |-> l.onstk]
  /\ IsRegs(l.regs) /\ l.height \in Nat

\* At the bottom a task executes its own code.
TaskLevel(l) ==
  l.ip = TaskCode /\ l.ifl = TRUE /\ l.height = 0 /\ l.onstk \in Tasks /\ l.regs = Own(l.onstk)

\* The levels L, whose words are on stack st: no entry reaches below what it
\* interrupted.
Nested(L, st) ==
  /\ IsSeq(L) /\ Len(L) >= 1
  /\ \A k \in 1 .. Len(L) : IsLevel(L[k])
  /\ \A j, k \in 1 .. Len(L) : j <= k => L[j].height <= L[k].height
  /\ TaskLevel(L[1])
  /\ \A k \in 1 .. Len(L) - 1 : Activation(L[k], L[k + 1], st)

\* switch_to, at or before the instruction that changes stacks.
Leaving(l) == l.ip[1] = "switch_to" /\ l.ip[2] <= 9

\* A switch from the stack in use to that of cur, with its arguments in place.
Goes(l) ==
  /\ cur # onstk
  /\ l.regs["rdi"] = <<"task", onstk>> /\ l.regs["rsi"] = <<"task", cur>>
  /\ l.ip[2] = 9 => thread_sp[onstk] = l.height

\* The task that runs is the one whose stack is in use, except in switch_to.
Turn ==
  /\ \A k \in 1 .. Len(Levels) : Leaving(Levels[k]) => Goes(Levels[k])
  /\ (\A k \in 1 .. Len(Levels) : ~ Leaving(Levels[k])) => cur = onstk

\* The line a routine has to acknowledge yet.
Pending(ip_) == IF ip_[1] \in Irqs /\ ip_[2] <= BodyEnd(ip_[1]) THEN {Line(ip_[1])} ELSE {}

InService(L) == UNION {Pending(L[k].ip) : k \in 2 .. Len(L)}

Service == insvc = InService(Levels)

Stacks ==
  /\ cur \in Tasks /\ onstk \in Tasks
  /\ ctx = [t \in Tasks |-> ctx[t]] /\ \A t \in Tasks : IsSeq(ctx[t])
  /\ stack = [t \in Tasks |-> stack[t]] /\ \A t \in Tasks : IsSeq(stack[t])
  /\ thread_sp = [t \in Tasks |-> thread_sp[t]]

\* A task that called schedule at context c: the frame that resumes it there is
\* on top of its stack.
Framed(t, c) ==
  /\ c.ip \in {TaskCode, DoSyscall} /\ c.onstk = t
  /\ Len(stack[t]) = c.height + 8 /\ thread_sp[t] = c.height + 8
  /\ \A i \in 1 .. 8 : stack[t][c.height + i] = SwitchFrame(t, c.ip)[i]

\* Every task but the one whose stack is in use.
Sleeping ==
  \A t \in Tasks \ {onstk} : Nested(ctx[t], stack[t]) /\ Framed(t, ctx[t][Len(ctx[t])])

Running == Nested(Levels, stack[onstk]) /\ Turn /\ Service

Inv == Stacks /\ Sleeping /\ (phase = "run" => Running)

-------------------------------------------------------------------------------
(* Sequences whose elements have no common type *)

LEMMA SeqOfOwn ==
  ASSUME NEW s, IsSeq(s)
  PROVE  s \in Seq({s[i] : i \in 1 .. Len(s)})
<1> DEFINE S == {s[i] : i \in 1 .. Len(s)}
<1>1. Len(s) \in Nat /\ s = [i \in 1 .. Len(s) |-> s[i]]
  BY DEF IsSeq
<1>2. \A i \in 1 .. Len(s) : s[i] \in S
  OBVIOUS
<1> HIDE DEF S
<1>3. s \in [1 .. Len(s) -> S]
  BY <1>1, <1>2, Zenon
<1>4. s \in Seq(S)
  BY <1>1, <1>3
<1> QED
  BY <1>4 DEF S

LEMMA SeqAny ==
  ASSUME NEW S, NEW s \in Seq(S)
  PROVE  IsSeq(s)
BY DEF IsSeq

\* The elements of two such sequences one after the other.
LEMMA CatFacts ==
  ASSUME NEW s, NEW t, IsSeq(s), IsSeq(t)
  PROVE  /\ IsSeq(s \o t)
         /\ Len(s \o t) = Len(s) + Len(t)
         /\ \A i \in 1 .. Len(s) : (s \o t)[i] = s[i]
         /\ \A i \in 1 .. Len(t) : (s \o t)[Len(s) + i] = t[i]
<1> DEFINE S == {s[i] : i \in 1 .. Len(s)} \cup {t[i] : i \in 1 .. Len(t)}
<1>1. s \in Seq(S) /\ t \in Seq(S)
  <2>1. s \in Seq({s[i] : i \in 1 .. Len(s)}) /\ t \in Seq({t[i] : i \in 1 .. Len(t)})
    BY SeqOfOwn
  <2> QED
    BY <2>1
<1> HIDE DEF S
<1>2. s \o t \in Seq(S) /\ Len(s \o t) = Len(s) + Len(t)
  BY <1>1
<1>3. IsSeq(s \o t)
  BY <1>2, SeqAny
<1>4. \A i \in 1 .. Len(s) : (s \o t)[i] = s[i]
  BY <1>1
<1>5. \A i \in 1 .. Len(t) : (s \o t)[Len(s) + i] = t[i]
  BY <1>1
<1> QED
  BY <1>2, <1>3, <1>4, <1>5

\* u is s, of length m, followed by t, of length n.
IsCat(u, s, m, t, n) ==
  /\ IsSeq(u) /\ Len(u) = m + n
  /\ \A i \in 1 .. m : u[i] = s[i]
  /\ \A i \in 1 .. n : u[m + i] = t[i]

LEMMA CatLens ==
  ASSUME NEW s, NEW t, NEW m, NEW n, IsSeq(s), IsSeq(t), Len(s) = m, Len(t) = n
  PROVE  IsCat(s \o t, s, m, t, n)
<1>1. IsCat(s \o t, s, Len(s), t, Len(t))
  BY CatFacts DEF IsCat
<1> QED
  BY <1>1, Zenon

LEMMA SubFacts ==
  ASSUME NEW s, IsSeq(s), NEW n \in 0 .. Len(s)
  PROVE  /\ IsSeq(SubSeq(s, 1, n))
         /\ Len(SubSeq(s, 1, n)) = n
         /\ \A i \in 1 .. n : SubSeq(s, 1, n)[i] = s[i]
<1> DEFINE S == {s[i] : i \in 1 .. Len(s)}
<1>1. s \in Seq(S)
  BY SeqOfOwn
<1> HIDE DEF S
<1>2. SubSeq(s, 1, n) \in Seq(S) /\ Len(SubSeq(s, 1, n)) = n
  BY <1>1
<1>3. \A i \in 1 .. n : SubSeq(s, 1, n)[i] = s[i]
  BY <1>1
<1> QED
  BY <1>2, <1>3, SeqAny

LEMMA AppendFacts ==
  ASSUME NEW s, NEW x, IsSeq(s)
  PROVE  /\ IsSeq(Append(s, x))
         /\ Len(Append(s, x)) = Len(s) + 1
         /\ \A i \in 1 .. Len(s) : Append(s, x)[i] = s[i]
         /\ Append(s, x)[Len(s) + 1] = x
<1> DEFINE S == {s[i] : i \in 1 .. Len(s)} \cup {x}
<1>1. s \in Seq(S) /\ x \in S
  <2>1. s \in Seq({s[i] : i \in 1 .. Len(s)})
    BY SeqOfOwn
  <2> QED
    BY <2>1
<1> HIDE DEF S
<1>2. Append(s, x) \in Seq(S) /\ Len(Append(s, x)) = Len(s) + 1
  BY <1>1
<1>3. \A i \in 1 .. Len(s) : Append(s, x)[i] = s[i]
  BY <1>1
<1>4. Append(s, x)[Len(s) + 1] = x
  BY <1>1
<1>5. IsSeq(Append(s, x))
  BY <1>2, SeqAny
<1> QED
  BY <1>2, <1>3, <1>4, <1>5

\* Two of them are equal if they agree everywhere.
LEMMA SeqSame ==
  ASSUME NEW s, NEW t, IsSeq(s), IsSeq(t), Len(s) = Len(t),
         \A i \in 1 .. Len(s) : s[i] = t[i]
  PROVE  s = t
BY DEF IsSeq

\* A sequence without its last element.
LEMMA FrontFacts ==
  ASSUME NEW s, IsSeq(s), Len(s) > 0
  PROVE  /\ IsSeq(Front(s))
         /\ Len(Front(s)) = Len(s) - 1
         /\ \A i \in 1 .. Len(s) - 1 : Front(s)[i] = s[i]
         /\ Append(Front(s), Last(s)) = s
         /\ Last(s) = s[Len(s)]
<1>1. Front(s) = SubSeq(s, 1, Len(s) - 1) /\ Last(s) = s[Len(s)]
  BY DEF Front, Last
<1>2. Len(s) \in Nat /\ Len(s) - 1 \in 0 .. Len(s)
  BY DEF IsSeq
<1>3. /\ IsSeq(Front(s)) /\ Len(Front(s)) = Len(s) - 1
      /\ \A i \in 1 .. Len(s) - 1 : Front(s)[i] = s[i]
  BY <1>1, <1>2, SubFacts
<1> DEFINE t == Append(Front(s), Last(s))
<1>4. /\ IsSeq(t) /\ Len(t) = Len(Front(s)) + 1 /\ t[Len(Front(s)) + 1] = Last(s)
      /\ \A i \in 1 .. Len(Front(s)) : t[i] = Front(s)[i]
  BY <1>3, AppendFacts
<1> HIDE DEF t
<1>5. t = s
  BY <1>1, <1>2, <1>3, <1>4, SeqSame
<1> QED
  BY <1>1, <1>3, <1>5 DEF t

-------------------------------------------------------------------------------
(* Registers *)

Place(r) == CASE r = "rax" -> 1 [] r = "rbx" -> 2 [] r = "rcx" -> 3 [] r = "rdx" -> 4
              [] r = "rbp" -> 5 [] r = "rsi" -> 6 [] r = "rdi" -> 7 [] r = "r8" -> 8
              [] r = "r9" -> 9 [] r = "r10" -> 10 [] r = "r11" -> 11 [] r = "r12" -> 12
              [] r = "r13" -> 13 [] r = "r14" -> 14 [] r = "r15" -> 15
              [] r = "ds" -> 16 [] r = "es" -> 17 [] r = "fs" -> 18 [] r = "gs" -> 19

LEMMA GeneralFacts ==
  /\ IsSeq(GeneralRegs) /\ Len(GeneralRegs) = 15
  /\ \A m \in 1 .. 15 : Place(GeneralRegs[m]) = m
<1>1. IsSeq(GeneralRegs) /\ Len(GeneralRegs) = 15
  BY DEF GeneralRegs, IsSeq
<1>2. \A m \in 1 .. 15 : Place(GeneralRegs[m]) = m
  BY DEF GeneralRegs, Place
<1> QED
  BY <1>1, <1>2

LEMMA SegmentFacts ==
  /\ IsSeq(SegmentRegs) /\ Len(SegmentRegs) = 4
  /\ \A m \in 1 .. 4 : Place(SegmentRegs[m]) = 15 + m
<1>1. IsSeq(SegmentRegs) /\ Len(SegmentRegs) = 4
  BY DEF SegmentRegs, IsSeq
<1>2. \A m \in 1 .. 4 : Place(SegmentRegs[m]) = 15 + m
  BY DEF SegmentRegs, Place
<1> QED
  BY <1>1, <1>2

LEMMA SwitchFacts ==
  /\ IsSeq(SwitchRegs) /\ Len(SwitchRegs) = 6
  /\ \A m, n \in 1 .. 6 : SwitchRegs[m] = SwitchRegs[n] => m = n
  /\ CalleeSaved = {"rbp", "rbx", "r12", "r13", "r14", "r15"}
  /\ \A r \in CalleeSaved : \E m \in 1 .. 6 : r = SwitchRegs[m]
  /\ \A m \in 1 .. 6 : SwitchRegs[m] \in CalleeSaved
<1>1. IsSeq(SwitchRegs) /\ Len(SwitchRegs) = 6
  BY DEF SwitchRegs, IsSeq
<1>2. \A m, n \in 1 .. 6 : SwitchRegs[m] = SwitchRegs[n] => m = n
  BY DEF SwitchRegs
<1>3. CalleeSaved = {SwitchRegs[m] : m \in 1 .. 6}
  BY <1>1 DEF CalleeSaved, ToSet, IsSeq
<1>4. CalleeSaved = {"rbp", "rbx", "r12", "r13", "r14", "r15"}
  BY <1>3 DEF SwitchRegs
<1> QED
  BY <1>1, <1>2, <1>3, <1>4

LEMMA RegSets ==
  /\ Segments = {SegmentRegs[m] : m \in 1 .. 4} /\ Segments = {"ds", "es", "fs", "gs"}
  /\ ToSet(GeneralRegs) = {GeneralRegs[m] : m \in 1 .. 15}
  /\ ToSet(GeneralRegs) = {"rax", "rbx", "rcx", "rdx", "rbp", "rsi", "rdi", "r8", "r9", "r10",
                           "r11", "r12", "r13", "r14", "r15"}
  /\ Scratch = {"rax", "rcx", "rdx", "rsi", "rdi", "r8", "r9", "r10", "r11"}
  /\ Regs = ToSet(GeneralRegs) \cup Segments
  /\ Regs = CalleeSaved \cup Scratch \cup Segments
<1>1. DOMAIN GeneralRegs = 1 .. 15 /\ DOMAIN SegmentRegs = 1 .. 4
  BY GeneralFacts, SegmentFacts DEF IsSeq
<1>2. Segments = {SegmentRegs[m] : m \in 1 .. 4}
  BY <1>1 DEF Segments, ToSet
<1>3. Segments = {"ds", "es", "fs", "gs"}
  BY <1>2 DEF SegmentRegs
<1>4. ToSet(GeneralRegs) = {GeneralRegs[m] : m \in 1 .. 15}
  BY <1>1 DEF ToSet
<1>5. ToSet(GeneralRegs) = {"rax", "rbx", "rcx", "rdx", "rbp", "rsi", "rdi", "r8", "r9", "r10",
                            "r11", "r12", "r13", "r14", "r15"}
  BY <1>4 DEF GeneralRegs
<1>6. Scratch = {"rax", "rcx", "rdx", "rsi", "rdi", "r8", "r9", "r10", "r11"}
  BY <1>5, SwitchFacts DEF Scratch
<1>7. Regs = ToSet(GeneralRegs) \cup Segments
  BY DEF Regs
<1>8. ToSet(GeneralRegs) = CalleeSaved \cup Scratch
  BY <1>5, <1>6, SwitchFacts
<1> QED
  BY <1>2, <1>3, <1>4, <1>5, <1>6, <1>7, <1>8

LEMMA AllFacts ==
  /\ IsSeq(AllRegs) /\ Len(AllRegs) = 19
  /\ \A m \in 1 .. 15 : AllRegs[m] = GeneralRegs[m]
  /\ \A m \in 1 .. 4 : AllRegs[15 + m] = SegmentRegs[m]
  /\ \A m \in 1 .. 19 : Place(AllRegs[m]) = m
<1>1. /\ IsSeq(AllRegs) /\ Len(AllRegs) = 15 + 4
      /\ \A m \in 1 .. 15 : AllRegs[m] = GeneralRegs[m]
      /\ \A m \in 1 .. 4 : AllRegs[15 + m] = SegmentRegs[m]
  <2>1. IsCat(AllRegs, GeneralRegs, 15, SegmentRegs, 4)
    BY CatLens, GeneralFacts, SegmentFacts, Zenon DEF AllRegs
  <2> QED
    BY <2>1, Zenon DEF IsCat
<1>2. ASSUME NEW m \in 1 .. 19 PROVE Place(AllRegs[m]) = m
  <2>1. CASE m \in 1 .. 15
    BY <1>1, <2>1, GeneralFacts
  <2>2. CASE m \notin 1 .. 15
    <3> DEFINE j == m - 15
    <3>1. j \in 1 .. 4 /\ m = 15 + j
      BY <2>2
    <3> HIDE DEF j
    <3> QED
      BY <1>1, <3>1, SegmentFacts
  <2> QED
    BY <2>1, <2>2
<1> QED
  BY <1>1, <1>2

\* What a trap routine saves: every register once, rax first, all that C code
\* may change, and the segment registers where it loads its own.
LEMMA SavesFacts ==
  ASSUME NEW R \in Traps
  PROVE  /\ IsSeq(Saves(R)) /\ Len(Saves(R)) = NRegs(R) /\ NRegs(R) \in 1 .. 19
         /\ \A m, n \in 1 .. NRegs(R) : Saves(R)[m] = Saves(R)[n] => m = n
         /\ \A m \in 1 .. NRegs(R) : Saves(R)[m] \in Regs
         /\ Saves(R)[1] = "rax"
         /\ \A r \in Scratch : \E m \in 1 .. NRegs(R) : r = Saves(R)[m]
         /\ R \in Common => \A r \in Segments : \E m \in 1 .. NRegs(R) : r = Saves(R)[m]
<1>1. GeneralRegs[1] = "rax"
  BY DEF GeneralRegs
<1>2. \A r \in Scratch : \E m \in 1 .. 15 : r = GeneralRegs[m]
  BY RegSets DEF Scratch
<1>3. CASE R \in Common
  <2>1. Saves(R) = AllRegs /\ NRegs(R) = 19
    BY <1>3 DEF Saves, NRegs
  <2>2. \A m \in 1 .. 19 : AllRegs[m] \in Regs
    <3> SUFFICES ASSUME NEW m \in 1 .. 19 PROVE AllRegs[m] \in Regs
      OBVIOUS
    <3>1. CASE m \in 1 .. 15
      BY <3>1, AllFacts, RegSets
    <3>2. CASE m \notin 1 .. 15
      <4> DEFINE j == m - 15
      <4>1. j \in 1 .. 4 /\ m = 15 + j
        BY <3>2
      <4> HIDE DEF j
      <4> QED
        BY <4>1, AllFacts, RegSets
    <3> QED
      BY <3>1, <3>2
  <2>3. \A r \in Scratch : \E m \in 1 .. 19 : r = AllRegs[m]
    <3> SUFFICES ASSUME NEW r \in Scratch PROVE \E m \in 1 .. 19 : r = AllRegs[m]
      OBVIOUS
    <3>1. PICK m \in 1 .. 15 : r = GeneralRegs[m]
      BY <1>2
    <3>2. m \in 1 .. 19 /\ r = AllRegs[m]
      BY <3>1, AllFacts
    <3> QED
      BY <3>2
  <2>4. \A r \in Segments : \E m \in 1 .. 19 : r = AllRegs[m]
    <3> SUFFICES ASSUME NEW r \in Segments PROVE \E m \in 1 .. 19 : r = AllRegs[m]
      OBVIOUS
    <3>1. PICK m \in 1 .. 4 : r = SegmentRegs[m]
      BY RegSets
    <3>2. 15 + m \in 1 .. 19 /\ r = AllRegs[15 + m]
      BY <3>1, AllFacts
    <3> QED
      BY <3>2
  <2>5. \A m, n \in 1 .. 19 : AllRegs[m] = AllRegs[n] => m = n
    <3> SUFFICES ASSUME NEW m \in 1 .. 19, NEW n \in 1 .. 19, AllRegs[m] = AllRegs[n]
                 PROVE  m = n
      OBVIOUS
    <3>1. Place(AllRegs[m]) = m /\ Place(AllRegs[n]) = n
      BY AllFacts
    <3> QED
      BY <3>1
  <2>6. AllRegs[1] = "rax"
    BY <1>1, AllFacts
  <2> QED
    BY <2>1, <2>2, <2>3, <2>4, <2>5, <2>6, AllFacts
<1>4. CASE R \notin Common
  <2>1. Saves(R) = GeneralRegs /\ NRegs(R) = 15
    BY <1>4 DEF Saves, NRegs
  <2>2. \A m \in 1 .. 15 : GeneralRegs[m] \in Regs
    BY RegSets
  <2>3. \A m, n \in 1 .. 15 : GeneralRegs[m] = GeneralRegs[n] => m = n
    <3> SUFFICES ASSUME NEW m \in 1 .. 15, NEW n \in 1 .. 15, GeneralRegs[m] = GeneralRegs[n]
                 PROVE  m = n
      OBVIOUS
    <3>1. Place(GeneralRegs[m]) = m /\ Place(GeneralRegs[n]) = n
      BY GeneralFacts
    <3> QED
      BY <3>1
  <2> QED
    BY <1>1, <1>2, <1>4, <2>1, <2>2, <2>3, GeneralFacts
<1> QED
  BY <1>3, <1>4

-------------------------------------------------------------------------------
(* The code of the trap routines *)

\* V pushes the n registers of s, goes through body and pops them.
IsSaving(V, s, n, body, b) ==
  /\ IsSeq(V) /\ Len(V) = n + b + n
  /\ \A m \in 1 .. n : V[m] = <<"push", s[m]>>
  /\ \A m \in 1 .. b : V[n + m] = body[m]
  /\ \A m \in 1 .. n : V[n + b + m] = <<"pop", s[n + 1 - m]>>

LEMMA SavingFacts ==
  ASSUME NEW s, NEW body, NEW n \in Nat, NEW b \in Nat,
         IsSeq(s), IsSeq(body), Len(s) = n, Len(body) = b
  PROVE  IsSaving(Saving(s, body), s, n, body, b)
<1> DEFINE P == Pushes(s)
           Q == Pops(s)
           H == P \o body
<1>1. DOMAIN s = 1 .. n
  BY DEF IsSeq
<1>2. /\ P = [m \in 1 .. n |-> <<"push", s[m]>>]
      /\ Q = [m \in 1 .. n |-> <<"pop", s[n + 1 - m]>>]
  BY <1>1 DEF Pushes, Pops
<1>3. /\ IsSeq(P) /\ Len(P) = n /\ \A m \in 1 .. n : P[m] = <<"push", s[m]>>
      /\ IsSeq(Q) /\ Len(Q) = n /\ \A m \in 1 .. n : Q[m] = <<"pop", s[n + 1 - m]>>
  BY <1>2 DEF IsSeq
<1>4. Saving(s, body) = H \o Q
  BY DEF Saving
<1> HIDE DEF P, Q
<1>5. /\ IsSeq(H) /\ Len(H) = n + b
      /\ \A m \in 1 .. n : H[m] = P[m]
      /\ \A m \in 1 .. b : H[n + m] = body[m]
  <2>1. IsCat(H, P, n, body, b)
    BY <1>3, CatLens, Zenon
  <2> QED
    BY <2>1, Zenon DEF IsCat
<1> HIDE DEF H
<1>6. /\ IsSeq(H \o Q) /\ Len(H \o Q) = n + b + n
      /\ \A m \in 1 .. n + b : (H \o Q)[m] = H[m]
      /\ \A m \in 1 .. n : (H \o Q)[n + b + m] = Q[m]
  <2>1. IsCat(H \o Q, H, n + b, Q, n)
    BY <1>3, <1>5, CatLens, Zenon
  <2> QED
    BY <2>1, Zenon DEF IsCat
<1>7. \A m \in 1 .. n : m \in 1 .. n + b
  OBVIOUS
<1>8. \A m \in 1 .. b : n + m \in 1 .. n + b
  OBVIOUS
<1> QED
  BY <1>3, <1>4, <1>5, <1>6, <1>7, <1>8 DEF IsSaving

\* C is a routine that begins with pre, of length p, saves the n registers of
\* s, works through body, of length b, restores them and ends with post.
IsRoutine(C, pre, p, s, n, body, b, post, q) ==
  /\ IsSeq(C) /\ Len(C) = p + n + b + n + q
  /\ \A m \in 1 .. p : C[m] = pre[m]
  /\ \A m \in 1 .. n : C[p + m] = <<"push", s[m]>>
  /\ \A m \in 1 .. b : C[p + n + m] = body[m]
  /\ \A m \in 1 .. n : C[p + n + b + m] = <<"pop", s[n + 1 - m]>>
  /\ \A m \in 1 .. q : C[p + n + b + n + m] = post[m]

LEMMA RoutineFacts ==
  ASSUME NEW pre, NEW s, NEW body, NEW post,
         NEW p \in Nat, NEW n \in Nat, NEW b \in Nat, NEW q \in Nat,
         IsSeq(pre), IsSeq(s), IsSeq(body), IsSeq(post),
         Len(pre) = p, Len(s) = n, Len(body) = b, Len(post) = q
  PROVE  IsRoutine(pre \o (Saving(s, body) \o post), pre, p, s, n, body, b, post, q)
<1> DEFINE V == Saving(s, body)
           T == V \o post
           C == pre \o T
           v == n + b + n
<1>1. /\ IsSeq(V) /\ Len(V) = v
      /\ \A m \in 1 .. n : V[m] = <<"push", s[m]>>
      /\ \A m \in 1 .. b : V[n + m] = body[m]
      /\ \A m \in 1 .. n : V[n + b + m] = <<"pop", s[n + 1 - m]>>
  <2>1. IsSaving(V, s, n, body, b)
    BY SavingFacts, Zenon
  <2> QED
    BY <2>1, Zenon DEF IsSaving
<1>2. v \in Nat /\ v + q \in Nat
  OBVIOUS
<1> HIDE DEF V
<1>3. IsCat(T, V, v, post, q)
  BY <1>1, CatLens, Zenon
<1> HIDE DEF T
<1>4. IsSeq(T) /\ Len(T) = v + q
  BY <1>3 DEF IsCat
<1>5. IsCat(C, pre, p, T, v + q)
  BY <1>4, CatLens, Zenon
<1> HIDE DEF C
<1>6. /\ IsSeq(C) /\ Len(C) = p + v + q
      /\ \A m \in 1 .. p : C[m] = pre[m]
      /\ \A m \in 1 .. v : C[p + m] = V[m]
      /\ \A m \in 1 .. q : C[p + v + m] = post[m]
  <2>1. /\ IsSeq(C) /\ Len(C) = p + (v + q)
        /\ \A m \in 1 .. p : C[m] = pre[m]
        /\ \A m \in 1 .. v + q : C[p + m] = T[m]
        /\ \A m \in 1 .. v : T[m] = V[m]
        /\ \A m \in 1 .. q : T[v + m] = post[m]
    BY <1>3, <1>5 DEF IsCat
  <2> HIDE DEF v
  <2>2. ASSUME NEW m \in 1 .. q PROVE C[p + v + m] = post[m]
    <3>1. v + m \in 1 .. v + q /\ p + v + m = p + (v + m)
      BY <1>2
    <3> QED
      BY <2>1, <3>1
  <2>3. ASSUME NEW m \in 1 .. v PROVE C[p + m] = V[m]
    BY <1>2, <2>1, <2>3
  <2> QED
    BY <1>2, <2>1, <2>2, <2>3
<1>7. ASSUME NEW m \in 1 .. n
      PROVE  C[p + m] = <<"push", s[m]>> /\ C[p + n + b + m] = <<"pop", s[n + 1 - m]>>
  <2>1. m \in 1 .. v /\ n + b + m \in 1 .. v /\ p + n + b + m = p + (n + b + m)
    OBVIOUS
  <2> QED
    BY <1>1, <1>6, <2>1, ZenonT(30)
<1>8. ASSUME NEW m \in 1 .. b PROVE C[p + n + m] = body[m]
  <2>1. n + m \in 1 .. v /\ p + n + m = p + (n + m)
    OBVIOUS
  <2> QED
    BY <1>1, <1>6, <2>1
<1>9. p + v + q = p + n + b + n + q /\ \A m \in 1 .. q : p + v + m = p + n + b + n + m
  OBVIOUS
<1> HIDE DEF v
<1> QED
  BY <1>6, <1>7, <1>8, <1>9, ZenonT(30) DEF IsRoutine, C, T, V

Pre(R)  == IF R = "isr14" THEN << <<"cli">>, <<"const", 14>> >>
           ELSE IF R \in Common THEN << <<"cli">>, <<"const", 0>>, <<"const", Number(R)>> >>
           ELSE << >>
Body(R) == IF R \in Common THEN << <<"kernelsegs">>, <<"call", Handler(R)>> >>
           ELSE IF R = "page_fault" THEN << <<"call", Handler(R)>> >>
           ELSE << <<"call", Handler(R)>>, <<"eoi">> >>
Post(R) == IF R \in Devices THEN << <<"iretq">> >>
           ELSE << <<"drop", Under(R) - 1>>, <<"iretq">> >>

LEMMA EmptyCat ==
  ASSUME NEW s, IsSeq(s)
  PROVE  << >> \o s = s
<1> DEFINE S == {s[i] : i \in 1 .. Len(s)}
<1>1. s \in Seq(S)
  BY SeqOfOwn
<1> HIDE DEF S
<1> QED
  BY <1>1

LEMMA Literals ==
  /\ IsSeq(<< >>) /\ Len(<< >>) = 0
  /\ \A x : IsSeq(<<x>>) /\ Len(<<x>>) = 1
  /\ \A x, y : IsSeq(<<x, y>>) /\ Len(<<x, y>>) = 2
  /\ \A x, y, z : IsSeq(<<x, y, z>>) /\ Len(<<x, y, z>>) = 3
BY DEF IsSeq

\* Code is what the stubs' macros and the handlers make of these parts.
LEMMA TrapText ==
  ASSUME NEW R \in Traps
  PROVE  IsRoutine(Code[R], Pre(R), PreEnd(R), Saves(R), NRegs(R), Body(R), BodyLen(R),
                   Post(R), PostLen(R))
<1>0. PreEnd(R) \in Nat /\ BodyLen(R) \in Nat /\ PostLen(R) \in Nat /\ "isr14" \in Common
      /\ "page_fault" \notin Common
  BY DEF PreEnd, BodyLen, PostLen, Common
<1>1. IsSeq(Pre(R)) /\ Len(Pre(R)) = PreEnd(R) /\ PreEnd(R) \in Nat
  <2>1. CASE R = "isr14"
    <3>1. Pre(R) = << <<"cli">>, <<"const", 14>> >> /\ PreEnd(R) = 2
      BY <2>1 DEF Pre, PreEnd
    <3> QED
      BY <1>0, <3>1, Literals, Zenon
  <2>2. CASE R # "isr14" /\ R \in Common
    <3>1. Pre(R) = << <<"cli">>, <<"const", 0>>, <<"const", Number(R)>> >> /\ PreEnd(R) = 3
      BY <2>2, Zenon DEF Pre, PreEnd
    <3> QED
      BY <1>0, <3>1, Literals, Zenon
  <2>3. CASE R \notin Common
    <3>1. Pre(R) = << >> /\ PreEnd(R) = 0
      BY <1>0, <2>3, Zenon DEF Pre, PreEnd
    <3> QED
      BY <1>0, <3>1, Literals, Zenon
  <2> QED
    BY <2>1, <2>2, <2>3
<1>2. IsSeq(Body(R)) /\ Len(Body(R)) = BodyLen(R) /\ BodyLen(R) \in Nat
  BY <1>0, Literals, Zenon DEF Body, BodyLen
<1>3. IsSeq(Post(R)) /\ Len(Post(R)) = PostLen(R) /\ PostLen(R) \in Nat
  BY <1>0, Literals, Zenon DEF Post, PostLen
<1>4. IsSeq(Saves(R)) /\ Len(Saves(R)) = NRegs(R) /\ NRegs(R) \in Nat
  BY SavesFacts
<1> DEFINE T == Saving(Saves(R), Body(R)) \o Post(R)
<1>5. IsRoutine(Pre(R) \o T, Pre(R), PreEnd(R), Saves(R), NRegs(R), Body(R), BodyLen(R),
                Post(R), PostLen(R))
  BY <1>1, <1>2, <1>3, <1>4, RoutineFacts, Zenon
<1>6. IsSeq(T)
  <2>1. IsSaving(Saving(Saves(R), Body(R)), Saves(R), NRegs(R), Body(R), BodyLen(R))
    BY <1>2, <1>4, SavingFacts, Zenon
  <2>2. IsSeq(Saving(Saves(R), Body(R)))
    BY <2>1, Zenon DEF IsSaving
  <2> QED
    BY <1>3, <2>2, CatFacts
<1>7. Code[R] = Pre(R) \o T
  <2>1. CASE R \in Common
    <3>1. Saves(R) = AllRegs /\ Body(R) = << <<"kernelsegs">>, <<"call", Handler(R)>> >>
          /\ Post(R) = << <<"drop", 2>>, <<"iretq">> >>
      BY <2>1 DEF Saves, Body, Post, Under, Common, Devices
    <3>2. T = common_stub(Handler(R))
      BY <3>1, Zenon DEF common_stub
    <3>3. Code[R] = Pre(R) \o common_stub(Handler(R))
      <4>1. CASE R = "isr0"
        <5>1. Handler(R) = "isr_handler" /\ Pre(R) = << <<"cli">>, <<"const", 0>>, <<"const", 0>> >>
          BY <4>1 DEF Pre, Handler, Number, Common
        <5>2. Code[R] = ISR_NOERRCODE(0)
          BY <4>1 DEF Code
        <5> QED
          BY <5>1, <5>2, Zenon DEF ISR_NOERRCODE
      <4>2. CASE R = "isr14"
        <5>1. Handler(R) = "isr_handler" /\ Pre(R) = << <<"cli">>, <<"const", 14>> >>
          BY <4>2 DEF Pre, Handler
        <5>2. Code[R] = ISR_ERRCODE(14)
          BY <4>2 DEF Code
        <5> QED
          BY <5>1, <5>2, Zenon DEF ISR_ERRCODE
      <4>3. CASE R \in {"irq0", "irq1", "irq7"}
        <5>1. /\ Handler(R) = "irq_handler"
              /\ Pre(R) = << <<"cli">>, <<"const", 0>>, <<"const", Number(R)>> >>
          BY <4>3 DEF Pre, Handler, Common
        <5>2. Code[R] = IRQ(Number(R))
          BY <4>3 DEF Code, Number, Line
        <5> QED
          BY <5>1, <5>2, Zenon DEF IRQ
      <4> QED
        BY <2>1, <4>1, <4>2, <4>3 DEF Common
    <3> QED
      BY <3>2, <3>3, Zenon
  <2>2. CASE R \notin Common
    <3>1. Pre(R) = << >> /\ Saves(R) = GeneralRegs
      BY <2>2 DEF Pre, Saves, Common
    <3>2. Code[R] = T
      <4>1. CASE R = "page_fault"
        <5>1. Body(R) = << <<"call", "do_page_fault">> >>
              /\ Post(R) = << <<"drop", 1>>, <<"iretq">> >>
          BY <4>1 DEF Body, Post, Handler, Under, Common, Devices
        <5>2. Code[R] = page_fault_handler
          BY <4>1 DEF Code
        <5> QED
          BY <3>1, <5>1, <5>2, Zenon DEF page_fault_handler
      <4>2. CASE R \in Devices
        <5>1. Body(R) = << <<"call", Handler(R)>>, <<"eoi">> >> /\ Post(R) = << <<"iretq">> >>
          BY <4>2 DEF Body, Post, Handler, Common, Devices
        <5>2. Code[R] = device_handler(Handler(R))
          BY <4>2 DEF Code, Devices, Handler, Common
        <5> QED
          BY <3>1, <5>1, <5>2, Zenon DEF device_handler
      <4> QED
        BY <2>2, <4>1, <4>2 DEF Traps
    <3> HIDE DEF T
    <3> QED
      BY <1>6, <3>1, <3>2, EmptyCat, Zenon
  <2> QED
    BY <2>1, <2>2
<1> QED
  BY <1>5, <1>7, Zenon

\* Where the parts of a trap routine end.
LEMMA Ends ==
  ASSUME NEW R \in Traps
  PROVE  /\ PreEnd(R) \in 0 .. 3 /\ NRegs(R) \in 15 .. 19 /\ Under(R) \in 1 .. 3
         /\ BodyLen(R) \in 1 .. 2 /\ PostLen(R) \in 1 .. 2
         /\ PushEnd(R) = PreEnd(R) + NRegs(R) /\ BodyEnd(R) = PushEnd(R) + BodyLen(R)
         /\ PopEnd(R) = BodyEnd(R) + NRegs(R) /\ End(R) = PopEnd(R) + PostLen(R)
         /\ R \in Common => PreEnd(R) \in 2 .. 3 /\ Under(R) = 3 /\ BodyLen(R) = 2
         /\ R \notin Common => PreEnd(R) = 0
         /\ R \in Devices => R \notin Common /\ Under(R) = 1 /\ BodyLen(R) = 2 /\ PostLen(R) = 1
         /\ R \notin Devices => PostLen(R) = 2
         /\ R = "page_fault" => R \notin Common /\ BodyLen(R) = 1
BY DEF PreEnd, NRegs, Under, BodyLen, PostLen, PushEnd, BodyEnd, PopEnd, End, Traps,
       Common, Devices

LEMMA EndsNat ==
  ASSUME NEW R \in Traps
  PROVE  PreEnd(R) \in Nat /\ BodyEnd(R) \in Nat /\ PopEnd(R) \in Nat /\ End(R) \in Nat
BY Ends

\* The instructions of a trap routine, with the words and the registers that
\* are on the stack before and after each.
AtCli(R, i) ==
  /\ Code[R][i][1] = "cli" /\ i < PreEnd(R)
  /\ Words(R, i + 1) = Words(R, i)

AtConst(R, i) ==
  /\ Code[R][i][1] = "const" /\ i <= PreEnd(R) /\ 1 < i
  /\ Words(R, i + 1) = Words(R, i) + 1
  /\ i = PreEnd(R) => Code[R][i][2] = Number(R) /\ Words(R, i) = 2

AtPush(R, i) ==
  /\ Code[R][i] = <<"push", Saves(R)[Saved(R, i) + 1]>>
  /\ PreEnd(R) < i /\ i <= PushEnd(R) /\ Saved(R, i) + 1 \in 1 .. NRegs(R)
  /\ Saved(R, i + 1) = Saved(R, i) + 1

AtBody(R, i) ==
  /\ \/ R \in Common /\ Code[R][i][1] = "kernelsegs" /\ i < BodyEnd(R)
     \/ R \in Devices /\ Code[R][i][1] = "eoi" /\ i = BodyEnd(R)
     \/ /\ Code[R][i] = <<"call", Handler(R)>>
        /\ IF R \in Devices THEN i < BodyEnd(R) ELSE i = BodyEnd(R)
  /\ PushEnd(R) < i /\ i <= BodyEnd(R)
  /\ Saved(R, i) = NRegs(R) /\ Saved(R, i + 1) = NRegs(R)

AtPop(R, i) ==
  /\ Code[R][i] = <<"pop", Saves(R)[Saved(R, i)]>>
  /\ BodyEnd(R) < i /\ i <= PopEnd(R) /\ Saved(R, i) \in 1 .. NRegs(R)
  /\ Saved(R, i + 1) = Saved(R, i) - 1

AtDrop(R, i) ==
  /\ Code[R][i] = <<"drop", Under(R) - 1>> /\ i = PopEnd(R) + 1 /\ i < End(R)
  /\ Words(R, i + 1) = 1

AtIretq(R, i) ==
  Code[R][i][1] = "iretq" /\ i = End(R) /\ Words(R, i) = 1 /\ Saved(R, i) = 0

\* The count of words is that of what lies under the registers and of them.
LEMMA WordsFacts ==
  ASSUME NEW R \in Traps, NEW i \in 1 .. End(R)
  PROVE  /\ Words(R, i) \in Nat /\ Words(R, i) >= 1 /\ Saved(R, i) \in 0 .. NRegs(R)
         /\ i <= PreEnd(R) => Saved(R, i) = 0 /\ Words(R, i) < 3 /\ R \in Common
         /\ PreEnd(R) < i /\ i <= PopEnd(R) + 1 => Words(R, i) = Under(R) + Saved(R, i)
         /\ PopEnd(R) < i => Saved(R, i) = 0
         /\ PopEnd(R) + 1 < i => Words(R, i) = 1
<1>1. i \in Nat /\ 1 <= i
  OBVIOUS
<1> QED
  BY <1>1, Ends DEF Words, Saved

LEMMA TrapCode ==
  ASSUME NEW R \in Traps, NEW i \in 1 .. End(R)
  PROVE  \/ AtCli(R, i) \/ AtConst(R, i) \/ AtPush(R, i) \/ AtBody(R, i) \/ AtPop(R, i)
         \/ AtDrop(R, i) \/ AtIretq(R, i)
<1> DEFINE C == Code[R]
           p == PreEnd(R)
           n == NRegs(R)
           b == BodyLen(R)
           q == PostLen(R)
<1>1. IsRoutine(C, Pre(R), p, Saves(R), n, Body(R), b, Post(R), q)
  BY TrapText, Zenon
<1>2. /\ \A m \in 1 .. p : C[m] = Pre(R)[m]
      /\ \A m \in 1 .. n : C[p + m] = <<"push", Saves(R)[m]>>
      /\ \A m \in 1 .. b : C[p + n + m] = Body(R)[m]
      /\ \A m \in 1 .. n : C[p + n + b + m] = <<"pop", Saves(R)[n + 1 - m]>>
      /\ \A m \in 1 .. q : C[p + n + b + n + m] = Post(R)[m]
  BY <1>1, Zenon DEF IsRoutine
<1> HIDE DEF C, p, n, b, q
<1>3. /\ p \in 0 .. 3 /\ n \in 15 .. 19 /\ b \in 1 .. 2 /\ q \in 1 .. 2
      /\ PreEnd(R) = p /\ PushEnd(R) = p + n /\ BodyEnd(R) = p + n + b
      /\ PopEnd(R) = p + n + b + n /\ End(R) = p + n + b + n + q /\ NRegs(R) = n
      /\ BodyLen(R) = b /\ PostLen(R) = q /\ i \in Nat /\ 1 <= i /\ i <= p + n + b + n + q
  BY Ends DEF p, n, b, q
<1>4. CASE i <= p
  <2>1. C[i] = Pre(R)[i] /\ i \in 1 .. p /\ R \in Common /\ p \in 2 .. 3 /\ Under(R) = 3
    BY <1>2, <1>3, <1>4, Ends
  <2>2. CASE R = "isr14"
    <3>1. p = 2 /\ Pre(R) = << <<"cli">>, <<"const", 14>> >> /\ Number(R) = 14
      BY <2>2 DEF p, PreEnd, Pre, Number
    <3>2. CASE i = 1
      <4>1. C[i][1] = "cli" /\ Words(R, 1) = 2 /\ Words(R, 2) = 2
        BY <1>3, <2>1, <3>1, <3>2 DEF Words
      <4> QED
        BY <1>3, <3>1, <3>2, <4>1 DEF AtCli, C
    <3>3. CASE i = 2
      <4>1. C[i][1] = "const" /\ C[i][2] = 14 /\ Words(R, 2) = 2 /\ Words(R, 3) = 3
        BY <1>3, <2>1, <3>1, <3>3 DEF Words, Saved
      <4> QED
        BY <1>3, <3>1, <3>3, <4>1 DEF AtConst, C
    <3> QED
      BY <2>1, <3>1, <3>2, <3>3
  <2>3. CASE R # "isr14"
    <3>1. p = 3 /\ Pre(R) = << <<"cli">>, <<"const", 0>>, <<"const", Number(R)>> >>
      BY <2>1, <2>3 DEF p, PreEnd, Pre
    <3>2. CASE i = 1
      <4>1. C[i][1] = "cli" /\ Words(R, 1) = 1 /\ Words(R, 2) = 1
        BY <1>3, <2>1, <3>1, <3>2 DEF Words
      <4> QED
        BY <1>3, <3>1, <3>2, <4>1 DEF AtCli, C
    <3>3. CASE i = 2
      <4>1. C[i][1] = "const" /\ Words(R, 2) = 1 /\ Words(R, 3) = 2
        BY <1>3, <2>1, <3>1, <3>3 DEF Words, Saved
      <4> QED
        BY <1>3, <3>1, <3>3, <4>1 DEF AtConst, C
    <3>4. CASE i = 3
      <4>1. C[i][1] = "const" /\ C[i][2] = Number(R) /\ Words(R, 3) = 2 /\ Words(R, 4) = 3
        BY <1>3, <2>1, <3>1, <3>4 DEF Words, Saved
      <4> QED
        BY <1>3, <3>1, <3>4, <4>1 DEF AtConst, C
    <3> QED
      BY <2>1, <3>1, <3>2, <3>3, <3>4
  <2> QED
    BY <2>2, <2>3
<1>5. CASE p < i /\ i <= p + n
  <2> DEFINE m == i - p
  <2>1. m \in 1 .. n /\ i = p + m /\ Saved(R, i) = m - 1 /\ Saved(R, i + 1) = m
    BY <1>3, <1>5 DEF Saved
  <2> HIDE DEF m
  <2>2. C[i] = <<"push", Saves(R)[m]>> /\ Saved(R, i) + 1 = m
    BY <1>2, <1>3, <2>1
  <2> QED
    BY <1>3, <1>5, <2>1, <2>2 DEF AtPush, C
<1>6. CASE p + n < i /\ i <= p + n + b
  <2> DEFINE m == i - p - n
  <2>1. m \in 1 .. b /\ i = p + n + m /\ Saved(R, i) = n /\ Saved(R, i + 1) = n
    BY <1>3, <1>6 DEF Saved
  <2> HIDE DEF m
  <2>2. C[i] = Body(R)[m]
    BY <1>2, <1>3, <2>1
  <2>3. CASE R \in Common
    <3>1. b = 2 /\ Body(R) = << <<"kernelsegs">>, <<"call", Handler(R)>> >> /\ R \notin Devices
      BY <1>3, <2>3, Ends DEF Body
    <3>2. CASE m = 1
      BY <1>3, <1>6, <2>1, <2>2, <2>3, <3>1, <3>2 DEF AtBody, C
    <3>3. CASE m = 2
      BY <1>3, <1>6, <2>1, <2>2, <3>1, <3>3 DEF AtBody, C
    <3> QED
      BY <2>1, <3>1, <3>2, <3>3
  <2>4. CASE R = "page_fault"
    <3>1. b = 1 /\ Body(R) = << <<"call", Handler(R)>> >> /\ R \notin Devices
      BY <1>3, <2>4, Ends DEF Body, Devices
    <3> QED
      BY <1>3, <1>6, <2>1, <2>2, <3>1 DEF AtBody, C
  <2>5. CASE R \in Devices
    <3>1. b = 2 /\ Body(R) = << <<"call", Handler(R)>>, <<"eoi">> >>
      BY <1>3, <2>5, Ends DEF Body, Devices
    <3>2. CASE m = 1
      BY <1>3, <1>6, <2>1, <2>2, <2>5, <3>1, <3>2 DEF AtBody, C
    <3>3. CASE m = 2
      BY <1>3, <1>6, <2>1, <2>2, <2>5, <3>1, <3>3 DEF AtBody, C
    <3> QED
      BY <2>1, <3>1, <3>2, <3>3
  <2> QED
    BY <2>3, <2>4, <2>5 DEF Traps
<1>7. CASE p + n + b < i /\ i <= p + n + b + n
  <2> DEFINE m == i - p - n - b
  <2>1. m \in 1 .. n /\ i = p + n + b + m /\ Saved(R, i) = n + 1 - m /\ Saved(R, i + 1) = n - m
    BY <1>3, <1>7 DEF Saved
  <2> HIDE DEF m
  <2>2. C[i] = <<"pop", Saves(R)[n + 1 - m]>>
    BY <1>2, <1>3, <2>1
  <2> QED
    BY <1>3, <1>7, <2>1, <2>2 DEF AtPop, C
<1>8. CASE p + n + b + n < i
  <2> DEFINE m == i - p - n - b - n
  <2>1. m \in 1 .. q /\ i = p + n + b + n + m /\ Saved(R, i) = 0
    BY <1>3, <1>8 DEF Saved
  <2> HIDE DEF m
  <2>2. C[i] = Post(R)[m]
    BY <1>2, <1>3, <2>1
  <2>3. CASE R \in Devices
    <3>1. q = 1 /\ Post(R) = << <<"iretq">> >> /\ Under(R) = 1
      BY <1>3, <2>3, Ends DEF Post
    <3>2. m = 1 /\ Words(R, i) = 1
      BY <1>3, <2>1, <3>1 DEF Words
    <3> QED
      BY <1>3, <2>1, <2>2, <3>1, <3>2 DEF AtIretq, C
  <2>4. CASE R \notin Devices
    <3>1. q = 2 /\ Post(R) = << <<"drop", Under(R) - 1>>, <<"iretq">> >>
      BY <1>3, <2>4, Ends DEF Post
    <3>2. CASE m = 1
      <4>1. Words(R, i + 1) = 1
        BY <1>3, <2>1, <3>1, <3>2 DEF Words
      <4> QED
        BY <1>3, <2>1, <2>2, <3>1, <3>2, <4>1 DEF AtDrop, C
    <3>3. CASE m = 2
      <4>1. Words(R, i) = 1
        BY <1>3, <2>1, <3>1, <3>3 DEF Words
      <4> QED
        BY <1>3, <2>1, <2>2, <3>1, <3>3, <4>1 DEF AtIretq, C
    <3> QED
      BY <2>1, <3>1, <3>2, <3>3
  <2> QED
    BY <2>3, <2>4
<1> QED
  BY <1>3, <1>4, <1>5, <1>6, <1>7, <1>8

-------------------------------------------------------------------------------
(* The code of switch_to and of the system call entry *)

\* switch_to's instructions.
SwitchOp(op, i) ==
  \/ i <= 6 /\ op = <<"push", SwitchRegs[i]>>
  \/ i = 7 /\ op = <<"pushf">>
  \/ i = 8 /\ op = <<"savesp">>
  \/ i = 9 /\ op = <<"loadsp">>
  \/ i = 10 /\ op = <<"popf">>
  \/ 11 <= i /\ i <= 16 /\ op = <<"pop", SwitchRegs[17 - i]>>
  \/ i = 17 /\ op = <<"ret">>

LEMMA SwitchCode ==
  ASSUME NEW i \in 1 .. 17
  PROVE  SwitchOp(Code["switch_to"][i], i)
<1> DEFINE body == << <<"pushf">>, <<"savesp">>, <<"loadsp">>, <<"popf">> >>
           post == << <<"ret">> >>
           C == Code["switch_to"]
<1>1. IsSeq(body) /\ Len(body) = 4 /\ IsSeq(post) /\ Len(post) = 1
  BY DEF IsSeq
<1>2. /\ body[1] = <<"pushf">> /\ body[2] = <<"savesp">> /\ body[3] = <<"loadsp">>
      /\ body[4] = <<"popf">> /\ post[1] = <<"ret">>
  OBVIOUS
<1>3. C = Saving(SwitchRegs, body) \o post
  <2>1. Code["switch_to"] = switch_to
    BY DEF Code
  <2> QED
    BY <2>1, Zenon DEF switch_to
<1> HIDE DEF body, post, C
<1>4. IsRoutine(<< >> \o (Saving(SwitchRegs, body) \o post), << >>, 0, SwitchRegs, 6, body, 4,
                post, 1)
  <2>1. 0 \in Nat /\ 6 \in Nat /\ 4 \in Nat /\ 1 \in Nat
    OBVIOUS
  <2> QED
    BY <1>1, <2>1, Literals, SwitchFacts, RoutineFacts, Zenon
<1>5. IsSeq(C)
  <2>1. IsSaving(Saving(SwitchRegs, body), SwitchRegs, 6, body, 4)
    <3>1. 6 \in Nat /\ 4 \in Nat
      OBVIOUS
    <3> QED
      BY <1>1, <3>1, SwitchFacts, SavingFacts, Zenon
  <2>2. IsSeq(Saving(SwitchRegs, body))
    BY <2>1, Zenon DEF IsSaving
  <2> QED
    BY <1>1, <1>3, <2>2, CatFacts
<1>6. IsRoutine(C, << >>, 0, SwitchRegs, 6, body, 4, post, 1)
  BY <1>3, <1>4, <1>5, EmptyCat, Zenon
<1>7. /\ \A m \in 1 .. 6 : C[0 + m] = <<"push", SwitchRegs[m]>>
      /\ \A m \in 1 .. 4 : C[0 + 6 + m] = body[m]
      /\ \A m \in 1 .. 6 : C[0 + 6 + 4 + m] = <<"pop", SwitchRegs[6 + 1 - m]>>
      /\ \A m \in 1 .. 1 : C[0 + 6 + 4 + 6 + m] = post[m]
  BY <1>6, Zenon DEF IsRoutine
<1>8. CASE i <= 6
  BY <1>7, <1>8 DEF SwitchOp, C
<1>9. CASE 7 <= i /\ i <= 10
  <2>1. C[7] = body[1] /\ C[8] = body[2] /\ C[9] = body[3] /\ C[10] = body[4]
    BY <1>7
  <2> QED
    BY <1>2, <1>9, <2>1 DEF SwitchOp, C
<1>10. CASE 11 <= i /\ i <= 16
  <2> DEFINE m == i - 10
  <2>1. m \in 1 .. 6 /\ i = 0 + 6 + 4 + m /\ 6 + 1 - m = 17 - i
    BY <1>10
  <2> HIDE DEF m
  <2>2. C[i] = <<"pop", SwitchRegs[17 - i]>>
    BY <1>7, <2>1
  <2> QED
    BY <1>10, <2>2 DEF SwitchOp, C
<1>11. CASE i = 17
  <2>1. C[17] = post[1]
    BY <1>7
  <2> QED
    BY <1>2, <1>11, <2>1 DEF SwitchOp, C
<1> QED
  BY <1>8, <1>9, <1>10, <1>11

\* The end of a system call.
LEMMA LeaveCode ==
  /\ IsSeq(syscall_leave) /\ Len(syscall_leave) = 8
  /\ syscall_leave[1] = <<"drop", 7>>
  /\ \A m \in 1 .. 6 : syscall_leave[1 + m] = <<"pop", SwitchRegs[7 - m]>>
  /\ syscall_leave[8] = <<"sysretq">>
<1> DEFINE a == << <<"drop", 7>> >>
           z == << <<"sysretq">> >>
           Q == Pops(SwitchRegs)
           H == a \o Q
<1>1. a[1] = <<"drop", 7>> /\ z[1] = <<"sysretq">>
  OBVIOUS
<1>2. IsSeq(a) /\ Len(a) = 1 /\ IsSeq(z) /\ Len(z) = 1
  BY Literals, Zenon
<1>3. Q = [m \in 1 .. 6 |-> <<"pop", SwitchRegs[7 - m]>>]
  <2>1. DOMAIN SwitchRegs = 1 .. 6 /\ Len(SwitchRegs) = 6
    BY SwitchFacts DEF IsSeq
  <2> QED
    BY <2>1 DEF Pops
<1>4. IsSeq(Q) /\ Len(Q) = 6 /\ \A m \in 1 .. 6 : Q[m] = <<"pop", SwitchRegs[7 - m]>>
  BY <1>3 DEF IsSeq
<1>5. syscall_leave = H \o z
  BY DEF syscall_leave
<1> HIDE DEF a, z, Q
<1>6. IsCat(H, a, 1, Q, 6)
  BY <1>2, <1>4, CatLens, Zenon
<1> HIDE DEF H
<1>7. IsSeq(H) /\ Len(H) = 7
  BY <1>6 DEF IsCat
<1>8. IsCat(syscall_leave, H, 7, z, 1)
  BY <1>2, <1>5, <1>7, CatLens, Zenon
<1>9. /\ IsSeq(syscall_leave) /\ Len(syscall_leave) = 8
      /\ \A m \in 1 .. 7 : syscall_leave[m] = H[m]
      /\ syscall_leave[8] = z[1]
  BY <1>8 DEF IsCat
<1>10. H[1] = a[1] /\ \A m \in 1 .. 6 : H[1 + m] = Q[m]
  BY <1>6 DEF IsCat
<1>11. \A m \in 1 .. 6 : 1 + m \in 1 .. 7
  OBVIOUS
<1> QED
  BY <1>1, <1>4, <1>9, <1>10, <1>11

\* The system call entry's instructions.
CallOp(op, i) ==
  \/ i <= 6 /\ op = <<"push", SwitchRegs[i]>>
  \/ 7 <= i /\ i <= 13 /\ op[1] = "push" /\ op[2] \in Scratch
  \/ i = 14 /\ op = <<"checknr">>
  \/ 15 <= i /\ i <= 22 /\ op[1] \in {"mov", "load"} /\ op[2] \in Scratch
  \/ i = 23 /\ op = <<"call", "do_syscall">>
  \/ i = 24 /\ op = <<"drop", 7>>
  \/ 25 <= i /\ i <= 30 /\ op = <<"pop", SwitchRegs[31 - i]>>
  \/ i = 31 /\ op = <<"sysretq">>

LEMMA CallCode ==
  ASSUME NEW i \in 1 .. 31
  PROVE  CallOp(Code["syscall"][i], i)
<1> DEFINE args == <<"rdi", "rsi", "rdx", "r10", "r8", "r9", "rax">>
           s == SwitchRegs \o args
           P == syscall_save
           M == << <<"checknr">>, <<"mov", "r11", "rax">>, <<"mov", "rax", "rdi">>,
                   <<"mov", "rdi", "rsi">>, <<"mov", "rsi", "rdx">>, <<"mov", "rdx", "r10">>,
                   <<"mov", "r10", "r8">>, <<"mov", "r8", "r9">>, <<"load", "r9", 1>>,
                   <<"call", "do_syscall">> >>
           C == Code["syscall"]
           H == P \o M
<1>1. IsSeq(args) /\ Len(args) = 7 /\ \A m \in 1 .. 7 : args[m] \in Scratch
  BY RegSets DEF IsSeq
<1>2. IsSeq(M) /\ Len(M) = 10
  BY DEF IsSeq
<1>3. /\ M[1] = <<"checknr">> /\ M[10] = <<"call", "do_syscall">>
      /\ \A m \in 2 .. 9 : M[m][1] \in {"mov", "load"} /\ M[m][2] \in Scratch
  BY RegSets
<1>4. C = H \o syscall_leave /\ P = Pushes(s)
  <2>1. Code["syscall"] = syscall_entry
    BY DEF Code
  <2> QED
    BY <2>1, Zenon DEF syscall_entry, syscall_save
<1> HIDE DEF args, M, C
<1>5. IsCat(s, SwitchRegs, 6, args, 7)
  BY <1>1, SwitchFacts, CatLens, Zenon
<1> HIDE DEF s
<1>6. /\ IsSeq(s) /\ Len(s) = 13 /\ \A m \in 1 .. 6 : s[m] = SwitchRegs[m]
      /\ \A m \in 1 .. 7 : s[6 + m] = args[m]
  BY <1>5 DEF IsCat
<1>7. P = [m \in 1 .. 13 |-> <<"push", s[m]>>]
  <2>1. DOMAIN s = 1 .. 13
    BY <1>6 DEF IsSeq
  <2> QED
    BY <1>4, <2>1 DEF Pushes
<1>8. IsSeq(P) /\ Len(P) = 13 /\ \A m \in 1 .. 13 : P[m] = <<"push", s[m]>>
  BY <1>7 DEF IsSeq
<1> HIDE DEF P
<1>9. IsCat(H, P, 13, M, 10)
  BY <1>2, <1>8, CatLens, Zenon
<1> HIDE DEF H
<1>10. /\ IsSeq(H) /\ Len(H) = 23 /\ \A m \in 1 .. 13 : H[m] = P[m]
       /\ \A m \in 1 .. 10 : H[13 + m] = M[m]
  BY <1>9 DEF IsCat
<1>11. IsCat(C, H, 23, syscall_leave, 8)
  BY <1>4, <1>10, LeaveCode, CatLens, Zenon
<1>12. (\A m \in 1 .. 23 : C[m] = H[m]) /\ \A m \in 1 .. 8 : C[23 + m] = syscall_leave[m]
  BY <1>11 DEF IsCat
<1>13. CASE i <= 13
  <2>1. C[i] = <<"push", s[i]>>
    BY <1>8, <1>10, <1>12, <1>13
  <2>2. CASE i <= 6
    BY <1>6, <2>1, <2>2 DEF CallOp, C
  <2>3. CASE 7 <= i
    <3> DEFINE m == i - 6
    <3>1. m \in 1 .. 7 /\ i = 6 + m
      BY <1>13, <2>3
    <3> HIDE DEF m
    <3>2. s[i] \in Scratch
      BY <1>1, <1>6, <3>1
    <3> QED
      BY <1>13, <2>1, <2>3, <3>2 DEF CallOp, C
  <2> QED
    BY <2>2, <2>3
<1>14. CASE 14 <= i /\ i <= 23
  <2> DEFINE m == i - 13
  <2>1. m \in 1 .. 10 /\ i = 13 + m
    BY <1>14
  <2> HIDE DEF m
  <2>2. C[i] = M[m]
    BY <1>10, <1>12, <2>1
  <2> QED
    BY <1>3, <2>1, <2>2 DEF CallOp, C
<1>15. CASE 24 <= i
  <2> DEFINE m == i - 24
  <2>1. m \in 0 .. 7 /\ i = 24 + m /\ 1 + m \in 1 .. 8 /\ 23 + (1 + m) = i /\ 31 - i = 7 - m
    BY <1>15
  <2> HIDE DEF m
  <2>2. C[i] = syscall_leave[1 + m]
    BY <1>12, <2>1
  <2> QED
    BY <2>1, <2>2, LeaveCode DEF CallOp, C
<1> QED
  BY <1>13, <1>14, <1>15

\* The instructions for a rejected call.
InvalidOp(op, i) ==
  \/ i = 1 /\ op = <<"enosys">>
  \/ i = 2 /\ op = <<"drop", 7>>
  \/ 3 <= i /\ i <= 8 /\ op = <<"pop", SwitchRegs[9 - i]>>
  \/ i = 9 /\ op = <<"sysretq">>

LEMMA InvalidCode ==
  ASSUME NEW i \in 1 .. 9
  PROVE  InvalidOp(Code["invalid"][i], i)
<1> DEFINE a == << <<"enosys">> >>
           C == Code["invalid"]
<1>1. a[1] = <<"enosys">>
  OBVIOUS
<1>2. IsSeq(a) /\ Len(a) = 1
  BY Literals, Zenon
<1>3. C = a \o syscall_leave
  <2>1. Code["invalid"] = syscall_invalid
    BY DEF Code
  <2> QED
    BY <2>1, Zenon DEF syscall_invalid
<1> HIDE DEF a, C
<1>4. IsCat(C, a, 1, syscall_leave, 8)
  BY <1>2, <1>3, LeaveCode, CatLens, Zenon
<1>5. C[1] = a[1] /\ \A m \in 1 .. 8 : C[1 + m] = syscall_leave[m]
  BY <1>4 DEF IsCat
<1>6. CASE i = 1
  BY <1>1, <1>5, <1>6 DEF InvalidOp, C
<1>7. CASE 2 <= i
  <2> DEFINE m == i - 2
  <2>1. m \in 0 .. 7 /\ i = 2 + m /\ 1 + m \in 1 .. 8 /\ 1 + (1 + m) = i /\ 9 - i = 7 - m
    BY <1>7
  <2> HIDE DEF m
  <2>2. C[i] = syscall_leave[1 + m]
    BY <1>5, <2>1
  <2> QED
    BY <2>1, <2>2, LeaveCode DEF InvalidOp, C
<1> QED
  BY <1>6, <1>7

-------------------------------------------------------------------------------
(* Registers kept on a stack *)

\* u is st with the words w on top; u is st without its n topmost words.
IsPush(u, st, w) ==
  /\ IsSeq(u) /\ Len(u) = Len(st) + 1
  /\ \A i \in 1 .. Len(st) : u[i] = st[i]
  /\ u[Len(st) + 1] = w

IsDrop(u, st, n) ==
  /\ IsSeq(u) /\ Len(u) = Len(st) - n
  /\ \A i \in 1 .. Len(u) : u[i] = st[i]

LEMMA PushFacts ==
  ASSUME NEW st, NEW w, IsSeq(st)
  PROVE  IsPush(st \o <<w>>, st, w)
<1> DEFINE t == <<w>>
<1>1. t[1] = w
  OBVIOUS
<1>2. IsSeq(t) /\ Len(t) = 1
  BY Literals, Zenon
<1> HIDE DEF t
<1>3. IsCat(st \o t, st, Len(st), t, 1)
  BY <1>2, CatLens, Zenon
<1>4. IsPush(st \o t, st, w)
  <2>1. Len(st) \in Nat
    BY DEF IsSeq
  <2> QED
    BY <1>1, <1>3, <2>1 DEF IsCat, IsPush
<1> QED
  BY <1>4 DEF t

LEMMA DropFacts ==
  ASSUME NEW st, IsSeq(st), NEW n \in 0 .. Len(st)
  PROVE  IsDrop(SubSeq(st, 1, Len(st) - n), st, n)
<1>1. Len(st) \in Nat /\ Len(st) - n \in 0 .. Len(st)
  BY DEF IsSeq
<1> DEFINE m == Len(st) - n
<1>2. m \in 0 .. Len(st)
  BY <1>1
<1> HIDE DEF m
<1>3. IsDrop(SubSeq(st, 1, m), st, n)
  BY <1>2, SubFacts DEF IsDrop, m
<1> QED
  BY <1>3 DEF m

\* The next register is saved; a register saved may then be used.
LEMMA KeptPush ==
  ASSUME NEW st, NEW u, NEW b \in Nat, NEW s, NEW n \in Nat, NEW D, NEW old, NEW new, NEW new2,
         Kept(st, b, s, n, D, old, new), Len(st) = b + n,
         IsPush(u, st, new[s[n + 1]]), s[n + 1] \in D,
         \A m \in 1 .. n : s[m] # s[n + 1],
         \A r \in D : new2[r] = new[r] \/ \E m \in 1 .. n + 1 : r = s[m]
  PROVE  Kept(u, b, s, n + 1, D, old, new2)
<1>1. new[s[n + 1]] = old[s[n + 1]]
  BY DEF Kept
<1>2. ASSUME NEW m \in 1 .. n + 1 PROVE u[b + m] = old[s[m]]
  <2>1. CASE m = n + 1
    <3>1. Len(st) + 1 = b + m
      BY <2>1
    <3> QED
      BY <1>1, <2>1, <3>1 DEF IsPush
  <2>2. CASE m # n + 1
    <3>1. m \in 1 .. n /\ b + m \in 1 .. Len(st)
      BY <2>2
    <3> QED
      BY <3>1 DEF IsPush, Kept
  <2> QED
    BY <2>1, <2>2
<1>3. ASSUME NEW r \in D PROVE new2[r] = old[r] \/ \E m \in 1 .. n + 1 : r = s[m]
  <2>1. new[r] = old[r] \/ \E m \in 1 .. n : r = s[m]
    BY DEF Kept
  <2>2. \A m \in 1 .. n : m \in 1 .. n + 1
    OBVIOUS
  <2> QED
    BY <2>1, <2>2
<1> QED
  BY <1>2, <1>3 DEF Kept

\* The register saved last is restored.
LEMMA KeptPop ==
  ASSUME NEW st, NEW u, NEW b \in Nat, NEW s, NEW n \in Nat, n >= 1,
         NEW D, NEW old, NEW new, NEW new2,
         Kept(st, b, s, n, D, old, new), Len(st) = b + n,
         IsDrop(u, st, 1), new2[s[n]] = st[Len(st)],
         \A r \in D \ {s[n]} : new2[r] = new[r] \/ \E m \in 1 .. n - 1 : r = s[m]
  PROVE  Kept(u, b, s, n - 1, D, old, new2)
<1>1. ASSUME NEW m \in 1 .. n - 1 PROVE u[b + m] = old[s[m]]
  <2>1. m \in 1 .. n /\ b + m \in 1 .. Len(u)
    BY DEF IsDrop
  <2> QED
    BY <2>1 DEF IsDrop, Kept
<1>2. ASSUME NEW r \in D PROVE new2[r] = old[r] \/ \E m \in 1 .. n - 1 : r = s[m]
  <2>1. CASE r = s[n]
    BY <2>1 DEF Kept
  <2>2. CASE r # s[n]
    <3>1. CASE new[r] = old[r]
      BY <2>2, <3>1
    <3>2. CASE \E m \in 1 .. n : r = s[m]
      <4>1. PICK m \in 1 .. n : r = s[m]
        BY <3>2
      <4>2. m \in 1 .. n - 1
        BY <2>2, <4>1
      <4> QED
        BY <4>1, <4>2
    <3> QED
      BY <3>1, <3>2 DEF Kept
  <2> QED
    BY <2>1, <2>2
<1> QED
  BY <1>1, <1>2 DEF Kept

\* Registers that are saved change.
LEMMA KeptChange ==
  ASSUME NEW st, NEW u, NEW b \in Nat, NEW s, NEW n \in Nat, NEW D, NEW old, NEW new, NEW new2,
         Kept(st, b, s, n, D, old, new),
         \A i \in 1 .. b + n : u[i] = st[i],
         \A r \in D : new2[r] = new[r] \/ \E m \in 1 .. n : r = s[m]
  PROVE  Kept(u, b, s, n, D, old, new2)
<1>1. \A m \in 1 .. n : b + m \in 1 .. b + n
  OBVIOUS
<1>2. ASSUME NEW m \in 1 .. n PROVE u[b + m] = old[s[m]]
  BY <1>1 DEF Kept
<1>3. ASSUME NEW r \in D PROVE new2[r] = old[r] \/ \E m \in 1 .. n : r = s[m]
  BY DEF Kept
<1> QED
  BY <1>2, <1>3 DEF Kept

LEMMA KeptRegs ==
  ASSUME NEW st, NEW b, NEW s, NEW n, NEW D, NEW old, NEW new, NEW new2,
         Kept(st, b, s, n, D, old, new),
         \A r \in D : new2[r] = new[r] \/ \E m \in 1 .. n : r = s[m]
  PROVE  Kept(st, b, s, n, D, old, new2)
BY DEF Kept

\* No register is saved.
LEMMA KeptNone ==
  ASSUME NEW st, NEW b, NEW s, NEW D, NEW old, NEW new
  PROVE  Kept(st, b, s, 0, D, old, new) <=> \A r \in D : new[r] = old[r]
BY DEF Kept

-------------------------------------------------------------------------------
(* Levels *)

\* An entry under way is not concerned by what lies above its words.
LEMMA ActivationLocal ==
  ASSUME NEW c, NEW a, NEW st, NEW u, IsLevel(c), IsLevel(a), Activation(c, a, st),
         \A i \in 1 .. a.height : u[i] = st[i]
  PROVE  Activation(c, a, u)
<1> DEFINE R == a.ip[1]
           i == a.ip[2]
<1>1. c.height \in Nat /\ a.height \in Nat
  BY DEF IsLevel
<1>2. CASE Trapped(c, a, st)
  <2>1. R \in Traps /\ i \in 1 .. End(R) /\ a.height = c.height + Words(R, i)
    BY <1>2 DEF Trapped
  <2>2. Kept(st, c.height + Under(R), Saves(R), Saved(R, i), Regs, c.regs, a.regs)
    BY <1>2 DEF Trapped
  <2>3. st[c.height + 1] = u[c.height + 1]
    <3>1. Words(R, i) \in Nat /\ Words(R, i) >= 1
      BY <2>1, WordsFacts
    <3>2. c.height + 1 \in 1 .. a.height
      BY <1>1, <2>1, <3>1
    <3> QED
      BY <3>2
  <2>4. R \in Common /\ PreEnd(R) < i /\ i <= PopEnd(R) => st[c.height + 3] = u[c.height + 3]
    <3> SUFFICES ASSUME R \in Common, PreEnd(R) < i, i <= PopEnd(R)
                 PROVE  st[c.height + 3] = u[c.height + 3]
      OBVIOUS
    <3>1. Words(R, i) = 3 + Saved(R, i) /\ Saved(R, i) \in Nat
      <4> HIDE DEF R, i
      <4> QED
        BY <2>1, Ends, WordsFacts
    <3>2. c.height + 3 \in 1 .. a.height
      BY <1>1, <2>1, <3>1
    <3> QED
      BY <3>2
  <2>5. Kept(u, c.height + Under(R), Saves(R), Saved(R, i), Regs, c.regs, a.regs)
    <3> HIDE DEF R, i
    <3>1. Saved(R, i) \in Nat /\ c.height + Under(R) \in Nat
      BY <1>1, <2>1, Ends, WordsFacts
    <3>2. CASE Saved(R, i) = 0
      BY <2>2, <3>2, KeptNone
    <3>3. CASE Saved(R, i) # 0
      <4>1. PreEnd(R) < i /\ i <= PopEnd(R) /\ i \in Nat
        BY <2>1, <3>3, Ends, WordsFacts
      <4>2. Words(R, i) = Under(R) + Saved(R, i)
        BY <2>1, <4>1, Ends, WordsFacts
      <4>3. c.height + Under(R) + Saved(R, i) = a.height
        BY <1>1, <2>1, <3>1, <4>2, Ends
      <4> QED
        BY <2>2, <3>1, <4>3, KeptChange
    <3> QED
      BY <3>2, <3>3
  <2>6. Trapped(c, a, u)
    BY <1>2, <2>3, <2>4, <2>5, Zenon DEF Trapped
  <2> QED
    BY <2>6 DEF Activation
<1>3. CASE Called(c, a, st)
  <2>1. /\ R \in {"syscall", "invalid"} /\ i \in 1 .. CallLast(R)
        /\ a.height = CallWords(R, i)
        /\ \A m \in 1 .. CallSaved(R, i) : st[m] = c.regs[SwitchRegs[m]]
    BY <1>3 DEF Called
  <2>2. CallSaved(R, i) \in Nat /\ CallSaved(R, i) <= a.height
    BY <2>1 DEF CallSaved, CallWords, CallLast
  <2>3. \A m \in 1 .. CallSaved(R, i) : u[m] = st[m]
    BY <1>1, <2>2
  <2>4. \A m \in 1 .. CallSaved(R, i) : u[m] = c.regs[SwitchRegs[m]]
    BY <2>1, <2>3
  <2>5. Called(c, a, u)
    BY <1>3, <2>4, Zenon DEF Called
  <2> QED
    BY <2>5 DEF Activation
<1>4. CASE Switched(c, a, st)
  <2> DEFINE b == c.height + 1
  <2>1. /\ i \in 1 .. 17 /\ a.height = c.height + SwitchWords(i)
        /\ Kept(st, b, SwitchRegs, SwitchSaved(i), Apart, Own(a.onstk), a.regs)
    BY <1>4 DEF Switched
  <2>2. /\ SwitchSaved(i) \in Nat /\ 1 + SwitchSaved(i) <= SwitchWords(i) /\ 1 <= SwitchWords(i)
        /\ SwitchWords(i) \in Nat /\ (i \in 8 .. 10 => SwitchWords(i) = 8)
    BY <2>1 DEF SwitchSaved, SwitchWords
  <2>3. b \in Nat /\ b + SwitchSaved(i) <= a.height /\ b \in 1 .. a.height
        /\ (i \in 8 .. 10 => c.height + 8 \in 1 .. a.height)
    BY <1>1, <2>1, <2>2
  <2>4. Kept(u, b, SwitchRegs, SwitchSaved(i), Apart, Own(a.onstk), a.regs)
    <3>1. \A j \in 1 .. b + SwitchSaved(i) : u[j] = st[j]
      BY <1>1, <2>2, <2>3
    <3> HIDE DEF R, i, b
    <3> QED
      BY <2>1, <2>2, <2>3, <3>1, KeptChange
  <2>5. st[b] = u[b] /\ (i \in 8 .. 10 => st[c.height + 8] = u[c.height + 8])
    BY <2>3
  <2>6. Switched(c, a, u)
    BY <1>4, <2>4, <2>5, Zenon DEF Switched
  <2> QED
    BY <2>6 DEF Activation
<1> QED
  BY <1>2, <1>3, <1>4 DEF Activation

\* The outer levels, when only words above theirs have changed.
LEMMA NestedOuter ==
  ASSUME NEW L, NEW st, NEW M, NEW u, Nested(L, st),
         IsSeq(M), Len(M) >= 1, Len(M) <= Len(L), \A k \in 1 .. Len(M) : M[k] = L[k],
         \A i \in 1 .. M[Len(M)].height : u[i] = st[i]
  PROVE  Nested(M, u)
<1>1. Len(L) \in Nat /\ Len(M) \in Nat
  BY DEF Nested, IsSeq
<1>2. \A k \in 1 .. Len(M) : k \in 1 .. Len(L)
  BY <1>1
<1>3. \A k \in 1 .. Len(M) : IsLevel(M[k])
  BY <1>2 DEF Nested
<1>4. \A j, k \in 1 .. Len(M) : j <= k => M[j].height <= M[k].height
  BY <1>2 DEF Nested
<1>5. TaskLevel(M[1])
  BY <1>1 DEF Nested
<1>6. ASSUME NEW k \in 1 .. Len(M) - 1 PROVE Activation(M[k], M[k + 1], u)
  <2>1. k \in 1 .. Len(M) /\ k + 1 \in 1 .. Len(M) /\ Len(M) \in 1 .. Len(M)
        /\ k \in 1 .. Len(L) - 1 /\ k + 1 <= Len(M)
    BY <1>1
  <2>2. Activation(M[k], M[k + 1], st)
    BY <2>1 DEF Nested
  <2>3. /\ M[k + 1].height <= M[Len(M)].height /\ M[k + 1].height \in Nat
        /\ M[Len(M)].height \in Nat
    BY <1>3, <1>4, <2>1 DEF IsLevel
  <2>4. \A i \in 1 .. M[k + 1].height : u[i] = st[i]
    BY <2>3
  <2> QED
    BY <1>3, <2>1, <2>2, <2>4, ActivationLocal
<1> QED
  BY <1>1, <1>3, <1>4, <1>5, <1>6 DEF Nested

\* One more level.
LEMMA NestedInner ==
  ASSUME NEW M, NEW u, NEW l, Nested(M, u), IsLevel(l), M[Len(M)].height <= l.height,
         Activation(M[Len(M)], l, u)
  PROVE  Nested(Append(M, l), u)
<1> DEFINE P == Append(M, l)
           n == Len(M)
<1>1. IsSeq(M) /\ n \in Nat /\ n >= 1
  BY DEF Nested, IsSeq
<1>2. IsSeq(P) /\ Len(P) = n + 1 /\ P[n + 1] = l /\ \A k \in 1 .. n : P[k] = M[k]
  BY <1>1, AppendFacts
<1> HIDE DEF P
<1>3. /\ \A k \in 1 .. n : IsLevel(M[k])
      /\ \A j, k \in 1 .. n : j <= k => M[j].height <= M[k].height
      /\ TaskLevel(M[1])
      /\ \A k \in 1 .. n - 1 : Activation(M[k], M[k + 1], u)
  BY DEF Nested
<1>4. ASSUME NEW k \in 1 .. n + 1 PROVE IsLevel(P[k])
  <2>1. CASE k = n + 1
    BY <1>2, <2>1
  <2>2. CASE k # n + 1
    <3>1. k \in 1 .. n
      BY <1>1, <2>2
    <3> QED
      BY <1>2, <1>3, <3>1
  <2> QED
    BY <2>1, <2>2
<1>5. ASSUME NEW j \in 1 .. n + 1, NEW k \in 1 .. n + 1, j <= k
      PROVE  P[j].height <= P[k].height
  <2>1. CASE k = n + 1 /\ j = n + 1
    <3>1. P[k].height \in Nat
      BY <1>4 DEF IsLevel
    <3> QED
      BY <2>1, <3>1
  <2>2. CASE k = n + 1 /\ j # n + 1
    <3>1. j \in 1 .. n /\ n \in 1 .. n /\ j <= n
      BY <1>1, <2>2
    <3>2. M[j].height <= M[n].height
      BY <1>3, <3>1
    <3>3. M[j].height \in Nat /\ M[n].height \in Nat /\ l.height \in Nat
      BY <1>3, <3>1 DEF IsLevel
    <3>4. P[j] = M[j] /\ P[k] = l
      BY <1>2, <2>2, <3>1
    <3> QED
      BY <3>2, <3>3, <3>4
  <2>3. CASE k # n + 1
    <3>1. k \in 1 .. n /\ j \in 1 .. n
      BY <1>1, <1>5, <2>3
    <3> QED
      BY <1>2, <1>3, <1>5, <3>1
  <2> QED
    BY <2>1, <2>2, <2>3
<1>6. ASSUME NEW k \in 1 .. n PROVE Activation(P[k], P[k + 1], u)
  <2>1. CASE k = n
    BY <1>1, <1>2, <2>1
  <2>2. CASE k # n
    <3>1. k \in 1 .. n - 1 /\ k + 1 \in 1 .. n
      BY <1>1, <2>2
    <3> QED
      BY <1>2, <1>3, <3>1
  <2> QED
    BY <2>1, <2>2
<1>7. TaskLevel(P[1])
  BY <1>1, <1>2, <1>3
<1>8. Len(P) >= 1 /\ Len(P) - 1 = n
  BY <1>1, <1>2
<1>9. Nested(P, u)
  <2> HIDE DEF n
  <2> QED
    BY <1>2, <1>4, <1>5, <1>6, <1>7, <1>8 DEF Nested
<1> QED
  BY <1>9 DEF P

\* An entry under way is in one of the routines, and only a trap interrupts a
\* routine.
LEMMA ActivationFacts ==
  ASSUME NEW c, NEW a, NEW st, Activation(c, a, st)
  PROVE  /\ a.ip # TaskCode /\ a.ip[1] # "task"
         /\ a.ip[1] \in Traps => Trapped(c, a, st)
         /\ a.ip[1] \in {"syscall", "invalid"} => Called(c, a, st)
         /\ a.ip[1] = "switch_to" => Switched(c, a, st)
         /\ c.ip \notin {TaskCode, DoSyscall} => Trapped(c, a, st)
         /\ Called(c, a, st) => c.ip = TaskCode
         /\ a.ip[1] \in Traps => a.ip[1] \notin {"syscall", "invalid", "switch_to"}
<1>1. CASE Trapped(c, a, st)
  <2>1. a.ip[1] \in Traps
    BY <1>1 DEF Trapped
  <2>2. Called(c, a, st) => a.ip[1] \in {"syscall", "invalid"}
    BY DEF Called
  <2> QED
    BY <1>1, <2>1, <2>2 DEF Traps, Common, Devices, TaskCode
<1>2. CASE Called(c, a, st)
  <2>1. /\ a.ip[1] \in {"syscall", "invalid"} /\ c.ip = TaskCode
        /\ c.ip \in {TaskCode, DoSyscall}
    BY <1>2 DEF Called
  <2> QED
    BY <1>2, <2>1 DEF Traps, Common, Devices, TaskCode
<1>3. CASE Switched(c, a, st)
  <2>1. a.ip[1] = "switch_to" /\ c.ip \in {TaskCode, DoSyscall}
    BY <1>3 DEF Switched
  <2>2. Called(c, a, st) => a.ip[1] \in {"syscall", "invalid"}
    BY DEF Called
  <2> QED
    BY <1>3, <2>1, <2>2 DEF Traps, Common, Devices, TaskCode
<1> QED
  BY <1>1, <1>2, <1>3 DEF Activation

\* A task's own code is the first level only, a call of do_syscall the second
\* only; whatever comes above anything else is a trap.
LEMMA UpperTraps ==
  ASSUME NEW L, NEW st, Nested(L, st), NEW k \in 2 .. Len(L)
  PROVE  /\ L[k].ip # TaskCode /\ Activation(L[k - 1], L[k], st)
         /\ k > 2 /\ L[k - 1].ip # DoSyscall => Trapped(L[k - 1], L[k], st)
         /\ L[k].ip = DoSyscall => k = 2
         /\ L[k].ip[1] = "switch_to" => k = 2 \/ (k = 3 /\ L[2].ip = DoSyscall)
<1>1. Len(L) \in Nat
  BY DEF Nested, IsSeq
<1>2. ASSUME NEW j \in 2 .. Len(L) PROVE Activation(L[j - 1], L[j], st)
  <2> DEFINE i == j - 1
  <2>1. i \in 1 .. Len(L) - 1 /\ j = i + 1
    BY <1>1
  <2> HIDE DEF i
  <2>2. Activation(L[i], L[j], st)
    BY <2>1 DEF Nested
  <2> QED
    BY <2>2 DEF i
<1>3. ASSUME NEW j \in 2 .. Len(L) PROVE L[j].ip # TaskCode
  BY <1>2, ActivationFacts
<1>4. ASSUME NEW j \in 2 .. Len(L), L[j - 1].ip = TaskCode PROVE j = 2
  <2> SUFFICES ASSUME j > 2 PROVE FALSE
    BY <1>1
  <2>1. j - 1 \in 2 .. Len(L)
    BY <1>1
  <2> QED
    BY <1>3, <1>4, <2>1
<1>5. ASSUME NEW j \in 2 .. Len(L), L[j].ip = DoSyscall PROVE j = 2
  <2>1. L[j].ip[1] = "syscall"
    BY <1>5 DEF DoSyscall
  <2>2. L[j - 1].ip = TaskCode
    BY <1>2, <2>1, ActivationFacts
  <2> QED
    BY <1>4, <2>2
<1>6. ASSUME k > 2, L[k - 1].ip # DoSyscall PROVE Trapped(L[k - 1], L[k], st)
  <2>1. k - 1 \in 2 .. Len(L)
    BY <1>1, <1>6
  <2>2. L[k - 1].ip \notin {TaskCode, DoSyscall}
    BY <1>3, <1>6, <2>1
  <2> QED
    BY <1>2, <2>2, ActivationFacts
<1>7. ASSUME L[k].ip[1] = "switch_to" PROVE k = 2 \/ (k = 3 /\ L[2].ip = DoSyscall)
  <2>1. L[k - 1].ip \in {TaskCode, DoSyscall}
    <3>1. Switched(L[k - 1], L[k], st)
      BY <1>2, <1>7, ActivationFacts
    <3> QED
      BY <3>1 DEF Switched
  <2>2. CASE L[k - 1].ip = TaskCode
    BY <1>4, <2>2
  <2>3. CASE L[k - 1].ip = DoSyscall
    <3> SUFFICES ASSUME k # 2 PROVE k = 3 /\ L[2].ip = DoSyscall
      OBVIOUS
    <3>1. k - 1 \in 2 .. Len(L)
      BY <1>1
    <3>2. k - 1 = 2
      BY <1>5, <2>3, <3>1
    <3> QED
      BY <1>1, <2>3, <3>2
  <2> QED
    BY <2>1, <2>2, <2>3
<1> QED
  BY <1>2, <1>3, <1>5, <1>6, <1>7

\* At most one interrupt is under way: its routine runs with interrupts off,
\* and so does whatever comes before it ends.
LEMMA OneIrq ==
  ASSUME NEW L, NEW st, Nested(L, st), Len(L) >= 2, L[Len(L)].ip[1] \in Irqs,
         NEW k \in 2 .. Len(L) - 1
  PROVE  L[k].ip[1] \notin Irqs
<1> DEFINE n == Len(L)
           m == n - 1
<1>1. n \in Nat /\ m \in 1 .. n - 1 /\ n = m + 1 /\ m >= 2 /\ m \in 2 .. n
  BY DEF Nested, IsSeq
<1>2. Irqs \subseteq Traps
  BY DEF Irqs, Traps, Common, Devices
<1> HIDE DEF n, m
<1>3. L[m].ifl = TRUE
  <2>1. Activation(L[m], L[n], st)
    BY <1>1 DEF Nested, n
  <2>2. Trapped(L[m], L[n], st)
    BY <1>2, <2>1, ActivationFacts DEF n
  <2> QED
    BY <2>2 DEF Trapped, n
<1>4. Activation(L[m - 1], L[m], st)
  BY <1>1, UpperTraps DEF n
<1>5. Called(L[m - 1], L[m], st)
  BY <1>3, <1>4 DEF Activation, Trapped, Switched
<1>6. m = 2
  <2> SUFFICES ASSUME m > 2 PROVE FALSE
    BY <1>1
  <2>1. m - 1 \in 2 .. n
    BY <1>1
  <2>2. L[m - 1].ip = TaskCode
    BY <1>5 DEF Called
  <2> QED
    BY <2>1, <2>2, UpperTraps DEF n
<1>7. k = m
  BY <1>1, <1>6 DEF n
<1>8. L[m].ip[1] \notin Irqs
  <2>1. L[m].ip[1] \in {"syscall", "invalid"}
    BY <1>5 DEF Called
  <2> QED
    BY <2>1 DEF Irqs, Devices
<1> QED
  BY <1>7, <1>8

\* Under a call of schedule are a task's own code and, if it is in one, its
\* system call.
LEMMA QuietLevels ==
  ASSUME NEW M, NEW st, Nested(M, st), NEW c, c = M[Len(M)], c.ip \in {TaskCode, DoSyscall}
  PROVE  /\ \A k \in 1 .. Len(M) : ~ Leaving(M[k])
         /\ InService(M) = {}
         /\ c.ip = TaskCode => Len(M) = 1 /\ TaskLevel(c)
         /\ c.ip = DoSyscall => Len(M) = 2 /\ TaskLevel(M[1]) /\ Called(M[1], c, st)
         /\ \A r \in Apart : c.regs[r] = Own(c.onstk)[r]
         /\ c.ifl = TRUE /\ c.onstk \in Tasks /\ IsLevel(c)
         /\ c.height = (IF c.ip = TaskCode THEN 0 ELSE 13)
<1>1. Len(M) \in Nat /\ Len(M) >= 1 /\ TaskLevel(M[1]) /\ IsLevel(c)
  BY DEF Nested, IsSeq
<1>2. CASE c.ip = TaskCode
  <2>1. Len(M) = 1
    <3> SUFFICES ASSUME Len(M) # 1 PROVE FALSE
      OBVIOUS
    <3> DEFINE k == Len(M)
    <3>1. k \in 2 .. Len(M) /\ M[k].ip = TaskCode
      BY <1>1, <1>2
    <3> HIDE DEF k
    <3> QED
      BY <3>1, UpperTraps
  <2>2. \A k \in 1 .. Len(M) : ~ Leaving(M[k])
    BY <1>2, <2>1 DEF Leaving, TaskCode
  <2>3. InService(M) = {}
    BY <2>1 DEF InService
  <2>4. TaskLevel(c)
    BY <1>1, <2>1
  <2>5. c.ip # DoSyscall
    BY <1>2 DEF DoSyscall, TaskCode
  <2> QED
    BY <1>1, <1>2, <2>1, <2>2, <2>3, <2>4, <2>5 DEF TaskLevel
<1>3. CASE c.ip = DoSyscall
  <2>1. Len(M) # 1
    BY <1>1, <1>3 DEF TaskLevel, TaskCode, DoSyscall
  <2>2. Len(M) = 2
    <3> DEFINE k == Len(M)
    <3>1. k \in 2 .. Len(M) /\ M[k].ip = DoSyscall
      BY <1>1, <1>3, <2>1
    <3> HIDE DEF k
    <3>2. k = 2
      BY <3>1, UpperTraps
    <3> QED
      BY <3>2 DEF k
  <2>3. Called(M[1], c, st)
    <3>1. 2 \in 2 .. Len(M) /\ M[2] = c /\ M[2 - 1] = M[1]
      BY <2>2
    <3>2. Activation(M[1], c, st)
      BY <3>1, UpperTraps
    <3>3. c.ip[1] = "syscall"
      BY <1>3 DEF DoSyscall
    <3> QED
      BY <3>2, <3>3, ActivationFacts
  <2>4. c.ip[1] = "syscall" /\ c.ip[2] = 23 /\ M[1].ip[1] = "task" /\ c.ip # TaskCode
    BY <1>1, <1>3 DEF DoSyscall, TaskLevel, TaskCode
  <2>5. \A k \in 1 .. Len(M) : ~ Leaving(M[k])
    BY <2>2, <2>4 DEF Leaving
  <2>6. InService(M) = {}
    <3>1. 2 .. Len(M) = {2} /\ M[2] = c
      BY <2>2
    <3>2. Pending(c.ip) = {}
      BY <2>4 DEF Pending, Irqs, Devices
    <3> QED
      BY <3>1, <3>2 DEF InService
  <2>7. /\ c.ifl = TRUE /\ c.onstk = M[1].onstk /\ c.height = 13
        /\ \A r \in Apart : c.regs[r] = M[1].regs[r]
    BY <2>3, <2>4 DEF Called, CallWords
  <2> QED
    BY <1>1, <2>2, <2>3, <2>4, <2>5, <2>6, <2>7 DEF TaskLevel
<1> QED
  BY <1>2, <1>3

-------------------------------------------------------------------------------
(* The level that runs *)

Caller == Ctx[Len(Ctx)]

LEMMA LevelsFacts ==
  ASSUME IsSeq(Ctx)
  PROVE  /\ IsSeq(Levels) /\ Len(Levels) = Len(Ctx) + 1 /\ Len(Ctx) \in Nat
         /\ \A k \in 1 .. Len(Ctx) : Levels[k] = Ctx[k]
         /\ Levels[Len(Ctx) + 1] = Context
<1>1. Len(Ctx) \in Nat
  BY DEF IsSeq
<1> DEFINE x == Context
<1> HIDE DEF x
<1>2. /\ IsSeq(Append(Ctx, x)) /\ Len(Append(Ctx, x)) = Len(Ctx) + 1
      /\ \A k \in 1 .. Len(Ctx) : Append(Ctx, x)[k] = Ctx[k]
      /\ Append(Ctx, x)[Len(Ctx) + 1] = x
  BY AppendFacts
<1> QED
  BY <1>1, <1>2 DEF Levels, x

LEMMA ContextFacts ==
  /\ Context.regs = regs /\ Context.ip = ip /\ Context.ifl = ifl
  /\ Context.height = Len(stack[onstk]) /\ Context.onstk = onstk
BY DEF Context

\* While a task executes its own code nothing is under way.
LEMMA TaskRuns ==
  ASSUME Inv, phase = "run", ip = TaskCode
  PROVE  /\ Len(Ctx) = 0 /\ Ctx = << >> /\ TaskLevel(Context) /\ IsLevel(Context)
         /\ cur = onstk /\ insvc = {} /\ stack[onstk] = << >>
         /\ Nested(Levels, stack[onstk]) /\ Len(stack[onstk]) = 0
<1>1. IsSeq(Ctx) /\ Nested(Levels, stack[onstk]) /\ Turn /\ Service
  BY DEF Inv, Stacks, Running, Ctx
<1>2. Len(Ctx) = 0
  <2> SUFFICES ASSUME Len(Ctx) # 0 PROVE FALSE
    OBVIOUS
  <2> DEFINE n == Len(Ctx) + 1
  <2>1. n \in 2 .. Len(Levels) /\ Levels[n] = Context
    BY <1>1, LevelsFacts
  <2> HIDE DEF n
  <2>2. Levels[n].ip # TaskCode
    BY <1>1, <2>1, UpperTraps
  <2> QED
    BY <2>1, <2>2, ContextFacts
<1>3. Len(Levels) = 1 /\ Levels[1] = Context
  BY <1>1, <1>2, LevelsFacts
<1>4. TaskLevel(Context) /\ IsLevel(Context)
  BY <1>1, <1>3 DEF Nested
<1>5. cur = onstk
  <2>1. ~ Leaving(Levels[1])
    BY <1>3, ContextFacts DEF Leaving, TaskCode
  <2> QED
    BY <1>1, <1>3, <2>1 DEF Turn
<1>6. insvc = {}
  BY <1>1, <1>3 DEF Service, InService
<1>7. IsSeq(stack[onstk]) /\ Len(stack[onstk]) = 0
  BY <1>4, ContextFacts DEF Inv, Stacks, TaskLevel
<1>8. stack[onstk] = << >> /\ Ctx = << >>
  <2>1. IsSeq(<< >>) /\ Len(<< >>) = 0
    BY Literals
  <2> QED
    BY <1>1, <1>2, <1>7, <2>1, SeqSame
<1> QED
  BY <1>1, <1>2, <1>4, <1>5, <1>6, <1>7, <1>8

\* While a routine runs it is under way above the level that called it.
LEMMA RoutineRuns ==
  ASSUME Inv, phase = "run", ip # TaskCode
  PROVE  /\ Len(Ctx) \in Nat /\ Len(Ctx) >= 1 /\ IsSeq(Ctx) /\ IsSeq(stack[onstk])
         /\ onstk \in Tasks /\ cur \in Tasks
         /\ IsLevel(Caller) /\ IsLevel(Context) /\ Caller.height <= Len(stack[onstk])
         /\ Len(stack[onstk]) \in Nat
         /\ Activation(Caller, Context, stack[onstk])
         /\ Nested(Levels, stack[onstk])
         /\ ip[1] \notin Traps => Caller.ip \in {TaskCode, DoSyscall}
         /\ Nested(Ctx, stack[onstk])
<1>1. /\ IsSeq(Ctx) /\ Nested(Levels, stack[onstk]) /\ onstk \in Tasks /\ cur \in Tasks
      /\ IsSeq(stack[onstk]) /\ Len(stack[onstk]) \in Nat
  <2>1. IsSeq(Ctx) /\ IsSeq(stack[onstk])
    BY DEF Inv, Stacks, Ctx
  <2>2. Len(stack[onstk]) \in Nat
    BY <2>1 DEF IsSeq
  <2> QED
    BY <2>1, <2>2 DEF Inv, Stacks, Running
<1> DEFINE n == Len(Ctx)
<1>2. /\ n \in Nat /\ Len(Levels) = n + 1 /\ Levels[n + 1] = Context
      /\ \A k \in 1 .. n : Levels[k] = Ctx[k]
  BY <1>1, LevelsFacts
<1>3. n >= 1
  <2> SUFFICES ASSUME n = 0 PROVE FALSE
    BY <1>2
  <2>1. TaskLevel(Context)
    BY <1>1, <1>2 DEF Nested
  <2> QED
    BY <2>1, ContextFacts DEF TaskLevel
<1> HIDE DEF n
<1>4. n \in 1 .. n /\ n \in 1 .. Len(Levels) /\ n + 1 \in 1 .. Len(Levels) /\ n <= n + 1
      /\ n \in 1 .. Len(Levels) - 1
  BY <1>2, <1>3
<1>5. Levels[n] = Caller
  BY <1>2, <1>4 DEF Caller, n
<1>6. /\ IsLevel(Caller) /\ IsLevel(Context) /\ Caller.height <= Context.height
      /\ Activation(Caller, Context, stack[onstk])
  BY <1>1, <1>2, <1>4, <1>5 DEF Nested
<1>7. ASSUME ip[1] \notin Traps PROVE Caller.ip \in {TaskCode, DoSyscall}
  <2>1. ~ Trapped(Caller, Context, stack[onstk])
    BY <1>7, ContextFacts DEF Trapped
  <2> QED
    BY <1>6, <2>1, ActivationFacts
<1>8. Nested(Ctx, stack[onstk])
  <2> DEFINE L == Levels
             M == Ctx
             st == stack[onstk]
  <2>1. Nested(L, st) /\ IsSeq(M) /\ Len(M) >= 1 /\ Len(M) <= Len(L)
        /\ \A k \in 1 .. Len(M) : M[k] = L[k]
    BY <1>1, <1>2, <1>3 DEF n
  <2> HIDE DEF L, M, st
  <2>2. Nested(M, st)
    BY <2>1, NestedOuter
  <2> QED
    BY <2>2 DEF M, st
<1> QED
  BY <1>1, <1>2, <1>3, <1>6, <1>7, <1>8, ContextFacts DEF n

\* An instruction changes only the level that runs.
LEMMA Stays ==
  ASSUME Inv, phase = "run", ip # TaskCode, ctx' = ctx, onstk' = onstk,
         IsSeq(stack'[onstk']), IsRegs(regs'), Caller.height <= Len(stack'[onstk']),
         \A i \in 1 .. Caller.height : stack'[onstk'][i] = stack[onstk][i],
         Activation(Caller, Context', stack'[onstk'])
  PROVE  Nested(Levels', stack'[onstk'])
<1> DEFINE u == stack'[onstk']
           x == Context'
           st == stack[onstk]
<1>1. /\ Len(Ctx) \in Nat /\ Len(Ctx) >= 1 /\ IsSeq(Ctx) /\ Nested(Levels, st)
      /\ Len(Levels) = Len(Ctx) + 1 /\ \A k \in 1 .. Len(Ctx) : Levels[k] = Ctx[k]
  BY RoutineRuns, LevelsFacts
<1>2. IsLevel(x) /\ x.height = Len(u)
  <2>1. Len(u) \in Nat
    BY DEF IsSeq
  <2> QED
    BY <2>1 DEF IsLevel, Context
<1>3. Levels' = Append(Ctx, x)
  BY DEF Levels, Ctx
<1> HIDE DEF u, x, st
<1>4. Nested(Ctx, u)
  <2>1. \A i \in 1 .. Ctx[Len(Ctx)].height : u[i] = st[i]
    BY DEF u, st, Caller
  <2>2. \A k \in 1 .. Len(Ctx) : Ctx[k] = Levels[k]
    BY <1>1
  <2>3. Len(Ctx) <= Len(Levels)
    BY <1>1
  <2> DEFINE L == Levels
             M == Ctx
  <2> HIDE DEF L, M
  <2>4. /\ Nested(L, st) /\ IsSeq(M) /\ Len(M) >= 1 /\ Len(M) <= Len(L)
        /\ (\A k \in 1 .. Len(M) : M[k] = L[k])
        /\ \A i \in 1 .. M[Len(M)].height : u[i] = st[i]
    BY <1>1, <2>1, <2>2, <2>3 DEF L, M
  <2>5. Nested(M, u)
    BY <2>4, NestedOuter
  <2> QED
    BY <2>5 DEF M
<1>5. Ctx[Len(Ctx)].height <= x.height /\ Activation(Ctx[Len(Ctx)], x, u)
  BY <1>2 DEF Caller, x, u
<1>6. Nested(Append(Ctx, x), u)
  BY <1>2, <1>4, <1>5, NestedInner
<1> QED
  BY <1>3, <1>6 DEF u

\* The lines in service with one more level.
LEMMA InServiceMore ==
  ASSUME NEW M, NEW l, IsSeq(M), Len(M) >= 1
  PROVE  InService(Append(M, l)) = InService(M) \cup Pending(l.ip)
<1> DEFINE P == Append(M, l)
           n == Len(M)
<1>1. n \in Nat /\ Len(P) = n + 1 /\ P[n + 1] = l /\ \A k \in 1 .. n : P[k] = M[k]
  BY AppendFacts DEF IsSeq
<1> HIDE DEF P, n
<1>2. 2 .. n + 1 = 2 .. n \cup {n + 1} /\ \A k \in 2 .. n : k \in 1 .. n
  BY <1>1 DEF n
<1>3. InService(P) = InService(M) \cup Pending(l.ip)
  <2>1. ASSUME NEW x \in InService(P) PROVE x \in InService(M) \cup Pending(l.ip)
    <3>1. PICK k \in 2 .. n + 1 : x \in Pending(P[k].ip)
      BY <1>1, <2>1, Zenon DEF InService
    <3>2. CASE k = n + 1
      BY <1>1, <3>1, <3>2
    <3>3. CASE k \in 2 .. n
      BY <1>1, <1>2, <3>1, <3>3 DEF InService, n
    <3> QED
      BY <1>2, <3>2, <3>3
  <2>2. ASSUME NEW x \in InService(M) PROVE x \in InService(P)
    <3>1. PICK k \in 2 .. n : x \in Pending(M[k].ip)
      BY <2>2, Zenon DEF InService, n
    <3>2. k \in 2 .. Len(P) /\ P[k] = M[k]
      BY <1>1, <1>2, <3>1
    <3> QED
      BY <3>1, <3>2, Zenon DEF InService
  <2>3. ASSUME NEW x \in Pending(l.ip) PROVE x \in InService(P)
    <3>1. n + 1 \in 2 .. Len(P)
      BY <1>1 DEF n
    <3> QED
      BY <1>1, <2>3, <3>1, Zenon DEF InService
  <2> QED
    BY <2>1, <2>2, <2>3
<1> QED
  BY <1>3 DEF P

LEMMA ServiceNow ==
  ASSUME Inv, phase = "run", ip # TaskCode
  PROVE  /\ insvc = InService(Ctx) \cup Pending(ip)
         /\ ip[1] \in Irqs => InService(Ctx) = {}
<1>1. /\ IsSeq(Ctx) /\ Len(Ctx) >= 1 /\ Len(Ctx) \in Nat /\ Nested(Levels, stack[onstk])
      /\ Len(Levels) = Len(Ctx) + 1 /\ \A k \in 1 .. Len(Ctx) : Levels[k] = Ctx[k]
      /\ Levels[Len(Ctx) + 1] = Context
  BY RoutineRuns, LevelsFacts
<1>2. insvc = InService(Ctx) \cup Pending(ip)
  <2> DEFINE x == Context
  <2>1. insvc = InService(Append(Ctx, x)) /\ x.ip = ip
    BY ContextFacts DEF Inv, Running, Service, Levels
  <2> HIDE DEF x
  <2> QED
    BY <1>1, <2>1, InServiceMore
<1>3. ASSUME ip[1] \in Irqs PROVE InService(Ctx) = {}
  <2> SUFFICES ASSUME NEW k \in 2 .. Len(Ctx) PROVE Pending(Ctx[k].ip) = {}
    BY DEF InService
  <2>1. Levels[Len(Levels)].ip[1] \in Irqs /\ Len(Levels) >= 2
    BY <1>1, <1>3, ContextFacts
  <2>2. k \in 2 .. Len(Levels) - 1 /\ k \in 1 .. Len(Ctx)
    BY <1>1
  <2>3. Levels[k].ip[1] \notin Irqs
    BY <1>1, <2>1, <2>2, OneIrq
  <2> QED
    BY <1>1, <2>2, <2>3 DEF Pending
<1> QED
  BY <1>2, <1>3

LEMMA StayLevels ==
  ASSUME IsSeq(Ctx), ctx' = ctx, onstk' = onstk
  PROVE  /\ IsSeq(Levels') /\ Len(Levels') = Len(Ctx) + 1 /\ Len(Ctx) \in Nat
         /\ \A k \in 1 .. Len(Ctx) : Levels'[k] = Ctx[k]
         /\ Levels'[Len(Ctx) + 1] = Context' /\ Levels' = Append(Ctx, Context')
<1>1. Len(Ctx) \in Nat
  BY DEF IsSeq
<1> DEFINE x == Context'
<1>2. Levels' = Append(Ctx, x)
  BY DEF Levels, Ctx
<1> HIDE DEF x
<1>3. /\ IsSeq(Append(Ctx, x)) /\ Len(Append(Ctx, x)) = Len(Ctx) + 1
      /\ \A k \in 1 .. Len(Ctx) : Append(Ctx, x)[k] = Ctx[k]
      /\ Append(Ctx, x)[Len(Ctx) + 1] = x
  BY AppendFacts
<1> QED
  BY <1>1, <1>2, <1>3 DEF x

\* The stack in use changes, the others do not.
LEMMA StacksStay ==
  ASSUME Inv, IsSeq(stack'[onstk]),
         stack' = [stack EXCEPT ![onstk] = stack'[onstk]],
         ctx' = ctx \/ (IsSeq(ctx'[onstk]) /\ ctx' = [ctx EXCEPT ![onstk] = ctx'[onstk]]),
         cur' \in Tasks, onstk' = onstk, thread_sp' = thread_sp
  PROVE  Stacks' /\ Sleeping'
<1>1. /\ stack = [t \in Tasks |-> stack[t]] /\ onstk \in Tasks
      /\ \A t \in Tasks : IsSeq(stack[t])
      /\ thread_sp = [t \in Tasks |-> thread_sp[t]]
      /\ ctx = [t \in Tasks |-> ctx[t]] /\ \A t \in Tasks : IsSeq(ctx[t])
  BY DEF Inv, Stacks
<1>2. /\ stack' = [t \in Tasks |-> stack'[t]]
      /\ \A t \in Tasks \ {onstk} : stack'[t] = stack[t]
  BY <1>1
<1>3. /\ ctx' = [t \in Tasks |-> ctx'[t]] /\ \A t \in Tasks : IsSeq(ctx'[t])
      /\ \A t \in Tasks \ {onstk} : ctx'[t] = ctx[t]
  BY <1>1
<1>4. \A t \in Tasks : IsSeq(stack'[t])
  BY <1>1, <1>2
<1>5. Stacks'
  BY <1>1, <1>2, <1>3, <1>4 DEF Stacks
<1>6. Sleeping'
  <2> SUFFICES ASSUME NEW t \in Tasks \ {onstk}
               PROVE  (Nested(ctx[t], stack[t]) /\ Framed(t, ctx[t][Len(ctx[t])]))'
    BY DEF Sleeping
  <2>1. Nested(ctx[t], stack[t]) /\ Framed(t, ctx[t][Len(ctx[t])])
    BY DEF Inv, Sleeping
  <2>2. ctx'[t] = ctx[t] /\ stack'[t] = stack[t] /\ thread_sp'[t] = thread_sp[t]
    BY <1>2, <1>3
  <2>3. Framed(t, ctx[t][Len(ctx[t])])'
    BY <2>1, <2>2 DEF Framed
  <2> QED
    BY <2>1, <2>2, <2>3
<1> QED
  BY <1>5, <1>6

\* The context of an entry is added to those on the stack, or taken from them.
LEMMA CtxPush ==
  ASSUME Inv, Nest, onstk' = onstk
  PROVE  Ctx' = Append(Ctx, Context) /\ ctx' = [ctx EXCEPT ![onstk] = ctx'[onstk]]
BY DEF Inv, Stacks, Nest, Ctx

LEMMA CtxPop ==
  ASSUME Inv, Unnest, onstk' = onstk
  PROVE  Ctx' = Front(Ctx) /\ ctx' = [ctx EXCEPT ![onstk] = ctx'[onstk]]
<1> DEFINE c == Front(ctx[onstk])
<1>1. ctx' = [ctx EXCEPT ![onstk] = c] /\ onstk \in Tasks /\ ctx = [t \in Tasks |-> ctx[t]]
  BY DEF Inv, Stacks, Unnest
<1> HIDE DEF c
<1>2. ctx'[onstk] = c /\ ctx' = [ctx EXCEPT ![onstk] = ctx'[onstk]]
  BY <1>1
<1> QED
  BY <1>2 DEF Ctx, c

\* A step that neither takes nor leaves a level that is about to change stacks.
LEMMA TurnSame ==
  ASSUME Turn, onstk' = onstk, cur' = cur, thread_sp' = thread_sp,
         \A k \in 1 .. Len(Levels') :
           Leaving(Levels'[k]) => \E j \in 1 .. Len(Levels) : Levels'[k] = Levels[j],
         \A j \in 1 .. Len(Levels) :
           Leaving(Levels[j]) => \E k \in 1 .. Len(Levels') : Levels[j] = Levels'[k]
  PROVE  Turn'
<1>1. ASSUME NEW k \in 1 .. Len(Levels'), Leaving(Levels'[k]) PROVE Goes(Levels[k])'
  <2>1. PICK j \in 1 .. Len(Levels) : Levels'[k] = Levels[j]
    BY <1>1
  <2>2. Goes(Levels[j])
    BY <1>1, <2>1 DEF Turn
  <2> QED
    BY <2>1, <2>2 DEF Goes
<1>2. ASSUME \A k \in 1 .. Len(Levels') : ~ Leaving(Levels'[k]) PROVE cur' = onstk'
  <2>1. \A j \in 1 .. Len(Levels) : ~ Leaving(Levels[j])
    BY <1>2
  <2> QED
    BY <2>1 DEF Turn
<1> QED
  BY <1>1, <1>2 DEF Turn, Leaving

\* A level above others none of which is about to change stacks.
LEMMA TurnTop ==
  ASSUME NEW M, IsSeq(M), Levels' = Append(M, Context'), \A k \in 1 .. Len(M) : ~ Leaving(M[k]),
         IF Leaving(Context') THEN Goes(Context)' ELSE cur' = onstk'
  PROVE  Turn'
<1> DEFINE x == Context'
           P == Append(M, x)
<1>1. /\ Len(P) = Len(M) + 1 /\ P[Len(M) + 1] = x /\ (\A k \in 1 .. Len(M) : P[k] = M[k])
      /\ Len(M) \in Nat
  BY AppendFacts DEF IsSeq
<1>2. Levels' = P
  OBVIOUS
<1> HIDE DEF P, x
<1>3. ASSUME NEW k \in 1 .. Len(M) + 1 PROVE k \in 1 .. Len(M) \/ k = Len(M) + 1
  BY <1>1
<1>4. ASSUME NEW k \in 1 .. Len(Levels'), Leaving(Levels'[k]) PROVE Goes(Levels[k])'
  <2>1. k = Len(M) + 1 /\ Levels'[k] = x
    BY <1>1, <1>2, <1>3, <1>4
  <2>2. Levels'[k] = Context' /\ Leaving(Context')
    BY <1>4, <2>1 DEF x
  <2> QED
    BY <2>2 DEF Goes
<1>5. ASSUME \A k \in 1 .. Len(Levels') : ~ Leaving(Levels'[k]) PROVE cur' = onstk'
  <2>1. Len(M) + 1 \in 1 .. Len(Levels')
    BY <1>1, <1>2
  <2>2. ~ Leaving(Context')
    BY <1>1, <1>2, <1>5, <2>1 DEF x
  <2> QED
    BY <2>2
<1> QED
  BY <1>4, <1>5 DEF Turn, Leaving

\* An instruction of a trap routine: what else there is to show for it.
LEMMA TrapStays ==
  ASSUME Inv, phase = "run", ip # TaskCode, ip[1] \in Traps,
         stack' = [stack EXCEPT ![onstk] = stack'[onstk]], IsSeq(stack'[onstk]),
         Caller.height <= Len(stack'[onstk]),
         \A i \in 1 .. Caller.height : stack'[onstk][i] = stack[onstk][i],
         IsRegs(regs'), Trapped(Caller, Context', stack'[onstk]), ip'[1] \in Traps,
         phase' = phase, ctx' = ctx, onstk' = onstk, cur' = cur, thread_sp' = thread_sp,
         \/ insvc' = insvc /\ Pending(ip') = Pending(ip)
         \/ ip[1] \in Irqs /\ insvc' = {} /\ Pending(ip') = {}
  PROVE  Inv'
<1>1. /\ Len(Ctx) \in Nat /\ Len(Ctx) >= 1 /\ IsSeq(Ctx) /\ cur \in Tasks
      /\ Len(Levels) = Len(Ctx) + 1 /\ (\A k \in 1 .. Len(Ctx) : Levels[k] = Ctx[k])
      /\ Levels[Len(Ctx) + 1] = Context
  BY RoutineRuns, LevelsFacts
<1>2. /\ Len(Levels') = Len(Ctx) + 1 /\ (\A k \in 1 .. Len(Ctx) : Levels'[k] = Ctx[k])
      /\ Levels'[Len(Ctx) + 1] = Context' /\ Levels' = Append(Ctx, Context')
  BY <1>1, StayLevels
<1>3. Stacks' /\ Sleeping'
  BY <1>1, StacksStay
<1>5. Nested(Levels', stack'[onstk'])
  <2>1. Activation(Caller, Context', stack'[onstk'])
    BY <1>3 DEF Activation
  <2> QED
    BY <1>3, <2>1, Stays
<1>6. /\ Context.ip = ip /\ Context'.ip = ip'
      /\ ip[1] # "switch_to" /\ ip'[1] # "switch_to"
  BY DEF Context, Traps, Common, Devices
<1>7. ~ Leaving(Context) /\ ~ Leaving(Context')
  BY <1>6 DEF Leaving
<1>8. Turn'
  <2>1. Turn
    BY DEF Inv, Running
  <2>2. ASSUME NEW k \in 1 .. Len(Ctx) + 1 PROVE k \in 1 .. Len(Ctx) \/ k = Len(Ctx) + 1
    BY <1>1
  <2>3. \A k \in 1 .. Len(Ctx) : k \in 1 .. Len(Ctx) + 1
    BY <1>1
  <2> QED
    BY <1>1, <1>2, <1>7, <2>1, <2>2, <2>3, TurnSame
<1>9. Service'
  <2>1. InService(Levels') = InService(Ctx) \cup Pending(ip')
    <3> DEFINE x == Context'
    <3>1. Levels' = Append(Ctx, x) /\ x.ip = ip'
      BY <1>2, <1>6
    <3> HIDE DEF x
    <3> QED
      BY <1>1, <3>1, InServiceMore
  <2>2. insvc' = InService(Ctx) \cup Pending(ip')
    BY ServiceNow
  <2> QED
    BY <2>1, <2>2 DEF Service
<1> QED
  BY <1>3, <1>5, <1>8, <1>9 DEF Inv, Running

LEMMA StackPush ==
  ASSUME Inv, NEW w, PushOn(<<w>>)
  PROVE  /\ stack' = [stack EXCEPT ![onstk] = stack'[onstk]]
         /\ IsPush(stack'[onstk], stack[onstk], w)
<1>1. onstk \in Tasks /\ stack = [t \in Tasks |-> stack[t]] /\ IsSeq(stack[onstk])
  BY DEF Inv, Stacks
<1> DEFINE u == stack[onstk] \o <<w>>
<1>2. stack' = [stack EXCEPT ![onstk] = u]
  BY DEF PushOn
<1>3. IsPush(u, stack[onstk], w)
  BY <1>1, PushFacts
<1> HIDE DEF u
<1>4. stack'[onstk] = u
  BY <1>1, <1>2
<1> QED
  BY <1>2, <1>3, <1>4, Zenon

LEMMA StackDrop ==
  ASSUME Inv, NEW n \in 0 .. Len(stack[onstk]), DropTop(n)
  PROVE  /\ stack' = [stack EXCEPT ![onstk] = stack'[onstk]]
         /\ IsDrop(stack'[onstk], stack[onstk], n)
<1>1. onstk \in Tasks /\ stack = [t \in Tasks |-> stack[t]] /\ IsSeq(stack[onstk])
  BY DEF Inv, Stacks
<1> DEFINE u == SubSeq(stack[onstk], 1, Len(stack[onstk]) - n)
<1>2. stack' = [stack EXCEPT ![onstk] = u]
  BY DEF DropTop
<1>3. IsDrop(u, stack[onstk], n)
  BY <1>1, DropFacts
<1> HIDE DEF u
<1>4. stack'[onstk] = u
  BY <1>1, <1>2
<1> QED
  BY <1>2, <1>3, <1>4, Zenon

LEMMA StackSame ==
  ASSUME Inv, stack' = stack
  PROVE  stack' = [stack EXCEPT ![onstk] = stack'[onstk]] /\ IsSeq(stack'[onstk])
<1>1. onstk \in Tasks /\ stack = [t \in Tasks |-> stack[t]] /\ IsSeq(stack[onstk])
  BY DEF Inv, Stacks
<1> QED
  BY <1>1

-------------------------------------------------------------------------------
(* The instructions of the trap routines *)

\* A trap routine that runs.
LEMMA TrapTop ==
  ASSUME Inv, phase = "run", ip # TaskCode, ip[1] \in Traps
  PROVE  /\ ip[2] \in 1 .. End(ip[1]) /\ ip = <<ip[1], ip[2]>> /\ ifl = FALSE
         /\ onstk = Caller.onstk /\ (ip[1] \in Irqs => Caller.ifl = TRUE)
         /\ Len(stack[onstk]) = Caller.height + Words(ip[1], ip[2])
         /\ stack[onstk][Caller.height + 1] = <<"frame", Caller.ip, Caller.ifl>>
         /\ ip[1] \in Common /\ PreEnd(ip[1]) < ip[2] /\ ip[2] <= PopEnd(ip[1])
              => stack[onstk][Caller.height + 3] = Const(Number(ip[1]))
         /\ Kept(stack[onstk], Caller.height + Under(ip[1]), Saves(ip[1]),
                 Saved(ip[1], ip[2]), Regs, Caller.regs, regs)
         /\ Caller.height \in Nat /\ IsRegs(regs) /\ IsRegs(Caller.regs)
         /\ Len(stack[onstk]) \in Nat /\ IsSeq(stack[onstk])
<1>1. /\ Activation(Caller, Context, stack[onstk]) /\ IsLevel(Caller) /\ IsLevel(Context)
      /\ Len(stack[onstk]) \in Nat /\ IsSeq(stack[onstk])
  BY RoutineRuns
<1>2. Trapped(Caller, Context, stack[onstk])
  BY <1>1, ContextFacts, ActivationFacts
<1>3. Caller.height \in Nat /\ IsRegs(regs) /\ IsRegs(Caller.regs)
  BY <1>1, ContextFacts DEF IsLevel
<1> QED
  BY <1>1, <1>2, <1>3, ContextFacts DEF Trapped

\* What an instruction of a trap routine has to leave for the next.
LEMMA TrapAdvance ==
  ASSUME Inv, phase = "run", ip # TaskCode, ip[1] \in Traps, ip[2] < End(ip[1]),
         stack' = [stack EXCEPT ![onstk] = stack'[onstk]], IsSeq(stack'[onstk]),
         Len(stack'[onstk]) = Caller.height + Words(ip[1], ip[2] + 1),
         \A i \in 1 .. Caller.height + 1 : stack'[onstk][i] = stack[onstk][i],
         ip[1] \in Common /\ PreEnd(ip[1]) <= ip[2] /\ ip[2] < PopEnd(ip[1])
           => stack'[onstk][Caller.height + 3] = Const(Number(ip[1])),
         IsRegs(regs'),
         Kept(stack'[onstk], Caller.height + Under(ip[1]), Saves(ip[1]),
              Saved(ip[1], ip[2] + 1), Regs, Caller.regs, regs'),
         Advance, ifl' = FALSE,
         phase' = phase, ctx' = ctx, onstk' = onstk, cur' = cur, thread_sp' = thread_sp,
         \/ insvc' = insvc /\ ip[2] # BodyEnd(ip[1])
         \/ insvc' = insvc /\ ip[1] \notin Irqs
         \/ ip[1] \in Irqs /\ ip[2] = BodyEnd(ip[1]) /\ insvc' = {}
  PROVE  Inv'
<1> DEFINE R == ip[1]
           i == ip[2]
           h == Caller.height
           u == stack'[onstk]
<1>1. /\ i \in 1 .. End(R) /\ i + 1 \in 1 .. End(R) /\ End(R) \in Nat /\ h \in Nat
      /\ i \in Nat /\ BodyEnd(R) \in Nat /\ PreEnd(R) \in Nat /\ PopEnd(R) \in Nat
  <2>1. i \in 1 .. End(R) /\ h \in Nat /\ R \in Traps /\ i < End(R)
    BY TrapTop
  <2> HIDE DEF i, R, h
  <2>2. PreEnd(R) \in Nat /\ BodyEnd(R) \in Nat /\ PopEnd(R) \in Nat /\ End(R) \in Nat
    BY <2>1, EndsNat, Zenon
  <2> QED
    BY <2>1, <2>2
<1>2. Words(R, i + 1) \in Nat /\ Words(R, i + 1) >= 1
  BY <1>1, WordsFacts
<1>3. ip' = <<R, i + 1>> /\ ip'[1] = R /\ ip'[2] = i + 1
  BY DEF Advance
<1>4. /\ Context'.ip = <<R, i + 1>> /\ Context'.ifl = FALSE /\ Context'.onstk = onstk
      /\ Context'.height = Len(u) /\ Context'.regs = regs'
  BY <1>3 DEF Context
<1>5. /\ onstk = Caller.onstk /\ (R \in Irqs => Caller.ifl = TRUE)
      /\ stack[onstk][h + 1] = <<"frame", Caller.ip, Caller.ifl>>
  BY TrapTop
<1>6. u[h + 1] = stack[onstk][h + 1] /\ h <= Len(u) /\ \A j \in 1 .. h : u[j] = stack[onstk][j]
  <2>1. Len(u) = h + Words(R, i + 1) /\ \A j \in 1 .. h + 1 : u[j] = stack[onstk][j]
    OBVIOUS
  <2> HIDE DEF i, R, h, u
  <2> QED
    BY <1>1, <1>2, <2>1
<1>7. R \in Common /\ PreEnd(R) < i + 1 /\ i + 1 <= PopEnd(R) => u[h + 3] = Const(Number(R))
  BY <1>1
<1> DEFINE a == Context'
           j == i + 1
<1>8. Trapped(Caller, a, u)
  <2>1. a.ip = <<R, j>> /\ a.ip[1] = R /\ a.ip[2] = j /\ j \in 1 .. End(R)
    BY <1>1, <1>4
  <2>2. a.height = h + Words(R, j)
    BY <1>4
  <2>3. Kept(u, h + Under(R), Saves(R), Saved(R, j), Regs, Caller.regs, a.regs)
    BY <1>4
  <2>4. R \in Common /\ PreEnd(R) < j /\ j <= PopEnd(R) => u[h + 3] = Const(Number(R))
    BY <1>7
  <2>5. u[h + 1] = <<"frame", Caller.ip, Caller.ifl>>
    BY <1>5, <1>6
  <2>6. a.ifl = FALSE /\ a.onstk = Caller.onstk /\ R \in Traps /\ (R \in Irqs => Caller.ifl = TRUE)
    BY <1>4, <1>5
  <2> HIDE DEF a, j, R, h, u, i
  <2> QED
    BY <2>1, <2>2, <2>3, <2>4, <2>5, <2>6 DEF Trapped, h
<1>9. \/ insvc' = insvc /\ Pending(ip') = Pending(ip)
      \/ R \in Irqs /\ insvc' = {} /\ Pending(ip') = {}
  <2>1. CASE insvc' = insvc /\ i # BodyEnd(R)
    <3>1. i + 1 <= BodyEnd(R) <=> i <= BodyEnd(R)
      BY <1>1, <2>1
    <3>2. Pending(ip') = Pending(ip)
      BY <1>3, <3>1 DEF Pending
    <3> QED
      BY <2>1, <3>2
  <2>2. CASE insvc' = insvc /\ R \notin Irqs
    <3>1. Pending(ip') = Pending(ip)
      BY <1>3, <2>2 DEF Pending
    <3> QED
      BY <2>2, <3>1
  <2>3. CASE R \in Irqs /\ i = BodyEnd(R) /\ insvc' = {}
    <3>1. ~(i + 1 <= BodyEnd(R))
      BY <1>1, <2>3
    <3>2. Pending(ip') = {}
      BY <1>3, <3>1 DEF Pending
    <3> QED
      BY <2>3, <3>2
  <2> QED
    BY <2>1, <2>2, <2>3
<1> HIDE DEF j
<1>10. ip'[1] \in Traps
  BY <1>3
<1> QED
  BY <1>6, <1>8, <1>9, <1>10, TrapStays

LEMMA TrapOps ==
  ASSUME NEW R \in Traps, NEW i \in 1 .. End(R)
  PROVE  /\ Code[R][i][1] \in {"cli", "const", "push", "kernelsegs", "call", "eoi", "pop", "drop",
                               "iretq"}
         /\ Code[R][i][1] = "cli" => AtCli(R, i)
         /\ Code[R][i][1] = "const" => AtConst(R, i)
         /\ Code[R][i][1] = "push" => AtPush(R, i)
         /\ Code[R][i][1] \in {"kernelsegs", "call", "eoi"} => AtBody(R, i)
         /\ Code[R][i][1] = "pop" => AtPop(R, i)
         /\ Code[R][i][1] = "drop" => AtDrop(R, i)
         /\ Code[R][i][1] = "iretq" => AtIretq(R, i)
<1>1. /\ AtCli(R, i) => Code[R][i][1] = "cli"
      /\ AtConst(R, i) => Code[R][i][1] = "const"
      /\ AtIretq(R, i) => Code[R][i][1] = "iretq"
  BY DEF AtCli, AtConst, AtIretq
<1>2. AtPush(R, i) => Code[R][i][1] = "push"
  BY DEF AtPush
<1>3. AtBody(R, i) => Code[R][i][1] \in {"kernelsegs", "call", "eoi"}
  BY DEF AtBody
<1>4. AtPop(R, i) => Code[R][i][1] = "pop"
  BY DEF AtPop
<1>5. AtDrop(R, i) => Code[R][i][1] = "drop"
  BY DEF AtDrop
<1> QED
  BY <1>1, <1>2, <1>3, <1>4, <1>5, TrapCode

\* What may be on the stack before an instruction of a trap routine, in
\* numbers.
LEMMA TrapHeights ==
  ASSUME NEW R \in Traps, NEW i \in 1 .. End(R), NEW h \in Nat, NEW l, l = h + Words(R, i)
  PROVE  /\ l \in Nat /\ h + 1 <= l /\ h + Under(R) \in Nat /\ Saved(R, i) \in Nat /\ i \in Nat
         /\ PreEnd(R) < i /\ i <= PopEnd(R) + 1 => l = h + Under(R) + Saved(R, i)
         /\ R \in Common /\ PreEnd(R) < i /\ i <= PopEnd(R) => h + 3 <= l
<1>1. /\ Words(R, i) \in Nat /\ Words(R, i) >= 1 /\ Saved(R, i) \in Nat
      /\ PreEnd(R) < i /\ i <= PopEnd(R) + 1 => Words(R, i) = Under(R) + Saved(R, i)
  BY WordsFacts
<1>2. Under(R) \in Nat /\ (R \in Common => Under(R) = 3) /\ PopEnd(R) \in Nat /\ i \in Nat
  BY Ends
<1> QED
  BY <1>1, <1>2

\* The same in the form in which the steps below need it: h is the height
\* that was interrupted, l the one reached.
LEMMA CliPart ==
  ASSUME NEW R \in Traps, NEW i \in 1 .. End(R), AtCli(R, i)
  PROVE  /\ i < End(R) /\ i # BodyEnd(R) /\ ~(PreEnd(R) <= i)
         /\ Saved(R, i) = 0 /\ Saved(R, i + 1) = 0 /\ Words(R, i + 1) = Words(R, i)
<1>1. i < PreEnd(R) /\ Words(R, i + 1) = Words(R, i) /\ i \in Nat
  BY DEF AtCli
<1>2. i < End(R) /\ i # BodyEnd(R) /\ ~(PreEnd(R) <= i) /\ i <= PreEnd(R) /\ i + 1 <= PreEnd(R)
  BY <1>1, Ends
<1> QED
  BY <1>1, <1>2 DEF Saved

LEMMA ConstPart ==
  ASSUME NEW R \in Traps, NEW i \in 1 .. End(R), AtConst(R, i)
  PROVE  /\ i < End(R) /\ i # BodyEnd(R)
         /\ Saved(R, i) = 0 /\ Saved(R, i + 1) = 0 /\ Words(R, i + 1) = Words(R, i) + 1
         /\ PreEnd(R) <= i => Words(R, i) = 2 /\ Code[R][i][2] = Number(R)
<1>1. /\ i <= PreEnd(R) /\ Words(R, i + 1) = Words(R, i) + 1 /\ i \in Nat
      /\ i = PreEnd(R) => Words(R, i) = 2 /\ Code[R][i][2] = Number(R)
  BY DEF AtConst
<1>2. /\ i < End(R) /\ i # BodyEnd(R) /\ (PreEnd(R) <= i => i = PreEnd(R))
      /\ i + 1 <= PushEnd(R) /\ (~(i + 1 <= PreEnd(R)) => i = PreEnd(R)) /\ PreEnd(R) \in Nat
  BY <1>1, Ends
<1>3. Saved(R, i) = 0 /\ Saved(R, i + 1) = 0
  BY <1>1, <1>2 DEF Saved
<1> QED
  BY <1>1, <1>2, <1>3

LEMMA PushPart ==
  ASSUME NEW R \in Traps, NEW i \in 1 .. End(R), AtPush(R, i),
         NEW h \in Nat, NEW l, l = h + Words(R, i)
  PROVE  /\ i < End(R) /\ i # BodyEnd(R) /\ PreEnd(R) < i /\ i <= PopEnd(R)
         /\ l \in Nat /\ h + 1 <= l /\ (R \in Common => h + 3 <= l) /\ Saved(R, i) \in Nat
         /\ h + Under(R) \in Nat /\ l = h + Under(R) + Saved(R, i)
         /\ l + 1 = h + Words(R, i + 1)
<1>1. /\ PreEnd(R) < i /\ i <= PushEnd(R) /\ Saved(R, i + 1) = Saved(R, i) + 1 /\ i \in Nat
  BY DEF AtPush
<1>2. /\ i < End(R) /\ i # BodyEnd(R) /\ i <= PopEnd(R) /\ i <= PopEnd(R) + 1
      /\ i + 1 \in 1 .. End(R) /\ PreEnd(R) < i + 1 /\ i + 1 <= PopEnd(R) + 1
  BY <1>1, Ends
<1>3. /\ l \in Nat /\ h + 1 <= l /\ (R \in Common => h + 3 <= l) /\ Saved(R, i) \in Nat
      /\ h + Under(R) \in Nat /\ l = h + Under(R) + Saved(R, i)
  BY <1>1, <1>2, TrapHeights
<1>4. Words(R, i + 1) = Under(R) + Saved(R, i + 1) /\ Under(R) \in Nat
  BY <1>2, WordsFacts, Ends
<1> QED
  BY <1>1, <1>2, <1>3, <1>4

LEMMA TrapCli ==
  ASSUME Inv, Cli, ip[1] \in Traps
  PROVE  Inv'
<1> DEFINE R == ip[1]
           i == ip[2]
           h == Caller.height
           st == stack[onstk]
           u == stack'[onstk]
<1>1. /\ phase = "run" /\ ip # TaskCode /\ Code[R][i][1] = "cli" /\ Advance /\ ifl' = FALSE
      /\ regs' = regs /\ stack' = stack /\ onstk' = onstk /\ cur' = cur /\ phase' = phase
      /\ thread_sp' = thread_sp /\ insvc' = insvc /\ ctx' = ctx
  BY DEF Cli, At, Op
<1>2. /\ R \in Traps /\ i \in 1 .. End(R) /\ Len(st) = h + Words(R, i) /\ h \in Nat /\ IsRegs(regs)
      /\ Kept(st, h + Under(R), Saves(R), Saved(R, i), Regs, Caller.regs, regs)
  BY <1>1, TrapTop
<1>3. AtCli(R, i)
  BY <1>1, <1>2, TrapOps
<1>4. u = st /\ IsSeq(u) /\ stack' = [stack EXCEPT ![onstk] = stack'[onstk]]
  BY <1>1, StackSame
<1> HIDE DEF R, i, h, st, u
<1>5. /\ i < End(R) /\ i # BodyEnd(R) /\ Saved(R, i) = 0 /\ Saved(R, i + 1) = 0
      /\ Words(R, i + 1) = Words(R, i) /\ ~(PreEnd(R) <= i)
  BY <1>2, <1>3, CliPart
<1>6. Kept(u, h + Under(R), Saves(R), Saved(R, i + 1), Regs, Caller.regs, regs')
  BY <1>1, <1>2, <1>4, <1>5
<1>7. Len(u) = h + Words(R, i + 1) /\ \A j \in 1 .. h + 1 : u[j] = st[j]
  BY <1>2, <1>4, <1>5
<1> QED
  BY <1>1, <1>2, <1>4, <1>5, <1>6, <1>7, TrapAdvance DEF R, i, h, st, u

LEMMA TrapPushConstant ==
  ASSUME Inv, PushConstant, ip[1] \in Traps
  PROVE  Inv'
<1> DEFINE R == ip[1]
           i == ip[2]
           h == Caller.height
           st == stack[onstk]
           u == stack'[onstk]
           w == Const(Op[2])
<1>1. /\ phase = "run" /\ ip # TaskCode /\ Code[R][i][1] = "const" /\ Op = Code[R][i] /\ Advance
      /\ PushOn(<<w>>) /\ ifl' = ifl
      /\ regs' = regs /\ onstk' = onstk /\ cur' = cur /\ phase' = phase
      /\ thread_sp' = thread_sp /\ insvc' = insvc /\ ctx' = ctx
  BY DEF PushConstant, At, Op
<1>2. /\ R \in Traps /\ i \in 1 .. End(R) /\ Len(st) = h + Words(R, i) /\ h \in Nat
      /\ IsRegs(regs) /\ ifl = FALSE
      /\ Kept(st, h + Under(R), Saves(R), Saved(R, i), Regs, Caller.regs, regs)
  BY <1>1, TrapTop
<1>3. AtConst(R, i)
  BY <1>1, <1>2, TrapOps
<1> HIDE DEF w
<1>4. IsPush(u, st, w) /\ stack' = [stack EXCEPT ![onstk] = stack'[onstk]]
  BY <1>1, StackPush
<1> HIDE DEF R, i, h, st, u
<1>5. /\ i < End(R) /\ i # BodyEnd(R) /\ Saved(R, i) = 0 /\ Saved(R, i + 1) = 0
      /\ Words(R, i + 1) = Words(R, i) + 1
      /\ PreEnd(R) <= i => Words(R, i) = 2 /\ w = Const(Number(R))
  BY <1>1, <1>2, <1>3, ConstPart DEF w
<1>6. Kept(u, h + Under(R), Saves(R), Saved(R, i + 1), Regs, Caller.regs, regs')
  BY <1>1, <1>2, <1>5, KeptNone
<1>7. /\ Len(u) = h + Words(R, i + 1) /\ IsSeq(u)
      /\ \A j \in 1 .. h + 1 : u[j] = st[j]
      /\ PreEnd(R) <= i => u[h + 3] = Const(Number(R))
  <2>1. Len(st) \in Nat /\ h + 1 <= Len(st) /\ Words(R, i) \in Nat
    BY <1>2, TrapHeights, WordsFacts
  <2>2. /\ IsSeq(u) /\ Len(u) = Len(st) + 1 /\ (\A j \in 1 .. Len(st) : u[j] = st[j])
        /\ u[Len(st) + 1] = w
    BY <1>4 DEF IsPush
  <2>3. PreEnd(R) <= i => Len(st) + 1 = h + 3
    BY <1>2, <1>5
  <2> QED
    BY <1>2, <1>5, <2>1, <2>2, <2>3, SMTT(30)
<1> QED
  BY <1>1, <1>2, <1>4, <1>5, <1>6, <1>7, TrapAdvance DEF R, i, h, st, u

LEMMA TrapPush ==
  ASSUME Inv, Push, ip[1] \in Traps
  PROVE  Inv'
<1> DEFINE R == ip[1]
           i == ip[2]
           h == Caller.height
           st == stack[onstk]
           u == stack'[onstk]
           n == Saved(R, i)
           w == regs[Op[2]]
<1>1. /\ phase = "run" /\ ip # TaskCode /\ Code[R][i][1] = "push" /\ Op = Code[R][i] /\ Advance
      /\ PushOn(<<w>>) /\ ifl' = ifl
      /\ regs' = IF Op[2] \in Segments THEN [regs EXCEPT !["rax"] = regs[Op[2]]] ELSE regs
      /\ onstk' = onstk /\ cur' = cur /\ phase' = phase
      /\ thread_sp' = thread_sp /\ insvc' = insvc /\ ctx' = ctx
  BY DEF Push, At, Op
<1>2. /\ R \in Traps /\ i \in 1 .. End(R) /\ Len(st) = h + Words(R, i) /\ h \in Nat
      /\ IsRegs(regs) /\ ifl = FALSE
      /\ Kept(st, h + Under(R), Saves(R), n, Regs, Caller.regs, regs)
      /\ R \in Common /\ PreEnd(R) < i /\ i <= PopEnd(R) => st[h + 3] = Const(Number(R))
  BY <1>1, TrapTop
<1>3. AtPush(R, i)
  BY <1>1, <1>2, TrapOps
<1>4. IsRegs(regs') /\ \A r \in Regs : regs'[r] = regs[r] \/ r = "rax"
  BY <1>1, <1>2 DEF IsRegs
<1> HIDE DEF w
<1>5. IsPush(u, st, w) /\ stack' = [stack EXCEPT ![onstk] = stack'[onstk]]
  BY <1>1, StackPush
<1> HIDE DEF R, i, h, st, u, n
<1>6. /\ w = regs[Saves(R)[n + 1]] /\ PreEnd(R) < i /\ i <= PushEnd(R) /\ n + 1 \in 1 .. NRegs(R)
      /\ Saved(R, i + 1) = n + 1
  BY <1>1, <1>3 DEF AtPush, w, n
<1>7. /\ i < End(R) /\ i # BodyEnd(R) /\ PreEnd(R) < i /\ i <= PopEnd(R)
      /\ Len(st) \in Nat /\ h + 1 <= Len(st) /\ (R \in Common => h + 3 <= Len(st)) /\ n \in Nat
      /\ h + Under(R) \in Nat /\ Len(st) = h + Under(R) + n
      /\ Len(st) + 1 = h + Words(R, i + 1)
  BY <1>2, <1>3, PushPart DEF n
<1>8. Kept(u, h + Under(R), Saves(R), n + 1, Regs, Caller.regs, regs')
  <2>1. /\ \A m \in 1 .. NRegs(R) : Saves(R)[m] \in Regs
        /\ (\A m, k \in 1 .. NRegs(R) : Saves(R)[m] = Saves(R)[k] => m = k)
        /\ Saves(R)[1] = "rax" /\ NRegs(R) \in Nat
    BY <1>2, SavesFacts
  <2>2. Saves(R)[n + 1] \in Regs /\ \A m \in 1 .. n : Saves(R)[m] # Saves(R)[n + 1]
    <3>1. \A m \in 1 .. n : m \in 1 .. NRegs(R) /\ m # n + 1
      BY <1>6, <1>7, <2>1
    <3> QED
      BY <1>6, <2>1, <3>1
  <2>3. \A r \in Regs : regs'[r] = regs[r] \/ \E m \in 1 .. n + 1 : r = Saves(R)[m]
    <3>1. 1 \in 1 .. n + 1
      BY <1>7
    <3> QED
      BY <1>4, <2>1, <3>1
  <2>4. IsPush(u, st, regs[Saves(R)[n + 1]])
    BY <1>5, <1>6
  <2> DEFINE new2 == regs'
  <2> HIDE DEF new2
  <2>5. \A r \in Regs : new2[r] = regs[r] \/ \E m \in 1 .. n + 1 : r = Saves(R)[m]
    BY <2>3 DEF new2
  <2> DEFINE b == h + Under(R)
             s == Saves(R)
             old == Caller.regs
  <2>6. /\ b \in Nat /\ Len(st) = b + n /\ Kept(st, b, s, n, Regs, old, regs) /\ n \in Nat
        /\ IsPush(u, st, regs[s[n + 1]]) /\ s[n + 1] \in Regs
        /\ (\A m \in 1 .. n : s[m] # s[n + 1])
        /\ \A r \in Regs : new2[r] = regs[r] \/ \E m \in 1 .. n + 1 : r = s[m]
    BY <1>2, <1>7, <2>2, <2>4, <2>5
  <2> HIDE DEF b, s, old
  <2>7. Kept(u, b, s, n + 1, Regs, old, new2)
    BY <2>6, KeptPush, Zenon
  <2> QED
    BY <2>7 DEF new2, b, s, old
<1>9. /\ Len(u) = h + Words(R, i + 1) /\ IsSeq(u)
      /\ \A j \in 1 .. h + 1 : u[j] = st[j]
      /\ R \in Common => u[h + 3] = Const(Number(R))
  <2>1. IsSeq(u) /\ Len(u) = Len(st) + 1 /\ (\A j \in 1 .. Len(st) : u[j] = st[j])
    BY <1>5 DEF IsPush
  <2>2. R \in Common => h + 3 \in 1 .. Len(st)
    BY <1>2, <1>7
  <2> QED
    BY <1>2, <1>6, <1>7, <2>1, <2>2
<1>10. Kept(u, h + Under(R), Saves(R), Saved(R, i + 1), Regs, Caller.regs, regs')
  BY <1>6, <1>8
<1>11. /\ phase = "run" /\ ip # TaskCode /\ R \in Traps /\ i < End(R) /\ i # BodyEnd(R)
       /\ Advance /\ ifl' = FALSE /\ onstk' = onstk /\ cur' = cur /\ phase' = phase
       /\ thread_sp' = thread_sp /\ insvc' = insvc /\ ctx' = ctx
       /\ stack' = [stack EXCEPT ![onstk] = stack'[onstk]] /\ IsRegs(regs')
  BY <1>1, <1>2, <1>4, <1>5, <1>7
<1> QED
  BY <1>9, <1>10, <1>11, TrapAdvance DEF R, i, h, st, u

LEMMA BodyPart ==
  ASSUME NEW R \in Traps, NEW i \in 1 .. End(R), AtBody(R, i),
         NEW h \in Nat, NEW l, l = h + Words(R, i)
  PROVE  /\ i < End(R) /\ PreEnd(R) < i /\ i <= PopEnd(R)
         /\ l \in Nat /\ h + 1 <= l /\ (R \in Common => l - 19 = h + 3) /\ NRegs(R) \in Nat
         /\ h + Under(R) \in Nat /\ l = h + Under(R) + NRegs(R) /\ l = h + Words(R, i + 1)
<1>1. /\ PushEnd(R) < i /\ i <= BodyEnd(R) /\ Saved(R, i) = NRegs(R)
      /\ Saved(R, i + 1) = NRegs(R) /\ i \in Nat
  BY DEF AtBody
<1>2. /\ i < End(R) /\ i <= PopEnd(R) /\ i <= PopEnd(R) + 1 /\ PreEnd(R) < i
      /\ i + 1 \in 1 .. End(R) /\ PreEnd(R) < i + 1 /\ i + 1 <= PopEnd(R) + 1
  BY <1>1, Ends
<1>3. l \in Nat /\ h + 1 <= l /\ h + Under(R) \in Nat /\ l = h + Under(R) + NRegs(R)
  BY <1>1, <1>2, TrapHeights
<1>4. Words(R, i + 1) = Under(R) + NRegs(R) /\ Under(R) \in Nat /\ NRegs(R) \in Nat
  BY <1>1, <1>2, WordsFacts, Ends
<1>5. R \in Common => Under(R) = 3 /\ NRegs(R) = 19
  BY DEF Under, NRegs
<1> QED
  BY <1>1, <1>2, <1>3, <1>4, <1>5

PopNumbers(R, i, h, l) ==
  /\ i < End(R) /\ i # BodyEnd(R) /\ PreEnd(R) < i /\ i <= PopEnd(R)
  /\ l \in Nat /\ h + 1 <= l - 1 /\ (R \in Common => h + 3 <= l - 1)
  /\ Saved(R, i) \in Nat /\ Saved(R, i) >= 1
  /\ h + Under(R) \in Nat /\ l = h + Under(R) + Saved(R, i)
  /\ l - 1 = h + Words(R, i + 1)

LEMMA PopPart ==
  ASSUME NEW R \in Traps, NEW i \in 1 .. End(R), AtPop(R, i),
         NEW h \in Nat, NEW l, l = h + Words(R, i)
  PROVE  PopNumbers(R, i, h, l)
<1>1. /\ BodyEnd(R) < i /\ i <= PopEnd(R) /\ Saved(R, i + 1) = Saved(R, i) - 1 /\ i \in Nat
      /\ Saved(R, i) \in 1 .. NRegs(R)
  BY DEF AtPop
<1>2. /\ i < End(R) /\ i # BodyEnd(R) /\ i <= PopEnd(R) + 1 /\ PreEnd(R) < i
      /\ i + 1 \in 1 .. End(R) /\ PreEnd(R) < i + 1 /\ i + 1 <= PopEnd(R) + 1
  BY <1>1, Ends
<1>3. /\ l \in Nat /\ Saved(R, i) \in Nat
      /\ h + Under(R) \in Nat /\ l = h + Under(R) + Saved(R, i)
  BY <1>1, <1>2, TrapHeights
<1>4. /\ Words(R, i + 1) = Under(R) + Saved(R, i + 1) /\ Under(R) \in Nat /\ Under(R) >= 1
      /\ R \in Common => Under(R) = 3
  BY <1>2, WordsFacts, Ends
<1>5. Saved(R, i) >= 1
  BY <1>1
<1>6. l - 1 = h + Words(R, i + 1)
  BY <1>1, <1>3, <1>4
<1> QED
  BY <1>1, <1>2, <1>3, <1>4, <1>5, <1>6 DEF PopNumbers

LEMMA DropPart ==
  ASSUME NEW R \in Traps, NEW i \in 1 .. End(R), AtDrop(R, i),
         NEW h \in Nat, NEW l, l = h + Words(R, i)
  PROVE  /\ i < End(R) /\ i # BodyEnd(R) /\ ~(i < PopEnd(R)) /\ l \in Nat
         /\ Saved(R, i) = 0 /\ Saved(R, i + 1) = 0
         /\ Under(R) - 1 \in 0 .. l /\ l - (Under(R) - 1) = h + 1 /\ Words(R, i + 1) = 1
<1>1. i = PopEnd(R) + 1 /\ i < End(R) /\ Words(R, i + 1) = 1 /\ i \in Nat
  BY DEF AtDrop
<1>2. /\ i # BodyEnd(R) /\ PopEnd(R) < i /\ PopEnd(R) < i + 1 /\ i <= PopEnd(R) + 1
      /\ i + 1 \in 1 .. End(R) /\ PreEnd(R) < i /\ ~(i < PopEnd(R))
  BY <1>1, Ends
<1>3. Saved(R, i) = 0 /\ Saved(R, i + 1) = 0
  BY <1>2, WordsFacts
<1>4. l = h + Under(R) + Saved(R, i)
  BY <1>2, TrapHeights
<1>5. Under(R) \in 1 .. 3
  BY Ends
<1> QED
  BY <1>1, <1>2, <1>3, <1>4, <1>5

\* What a trap routine does between saving and restoring the registers.
LEMMA TrapBody ==
  ASSUME Inv, phase = "run", ip # TaskCode, ip[1] \in Traps, AtBody(ip[1], ip[2]),
         stack' = stack, Advance, ifl' = ifl, IsRegs(regs'),
         \A r \in Regs : regs'[r] = regs[r] \/ \E m \in 1 .. NRegs(ip[1]) : r = Saves(ip[1])[m],
         phase' = phase, ctx' = ctx, onstk' = onstk, cur' = cur, thread_sp' = thread_sp,
         \/ insvc' = insvc /\ ip[2] # BodyEnd(ip[1])
         \/ insvc' = insvc /\ ip[1] \notin Irqs
         \/ ip[1] \in Irqs /\ ip[2] = BodyEnd(ip[1]) /\ insvc' = {}
  PROVE  Inv'
<1> DEFINE R == ip[1]
           i == ip[2]
           h == Caller.height
           st == stack[onstk]
           u == stack'[onstk]
           n == NRegs(R)
<1>1. /\ R \in Traps /\ i \in 1 .. End(R) /\ Len(st) = h + Words(R, i) /\ h \in Nat /\ ifl = FALSE
      /\ Kept(st, h + Under(R), Saves(R), Saved(R, i), Regs, Caller.regs, regs)
      /\ R \in Common /\ PreEnd(R) < i /\ i <= PopEnd(R) => st[h + 3] = Const(Number(R))
  BY TrapTop
<1>2. u = st /\ IsSeq(u) /\ stack' = [stack EXCEPT ![onstk] = stack'[onstk]]
  BY StackSame
<1>3. AtBody(R, i) /\ \A r \in Regs : regs'[r] = regs[r] \/ \E m \in 1 .. n : r = Saves(R)[m]
  OBVIOUS
<1> HIDE DEF R, i, h, st, u, n
<1>4. Saved(R, i) = n /\ Saved(R, i + 1) = n
  BY <1>3 DEF AtBody, n
<1>5. /\ i < End(R) /\ PreEnd(R) < i /\ i <= PopEnd(R) /\ n \in Nat
      /\ Len(st) \in Nat /\ h + Under(R) \in Nat /\ Len(st) = h + Words(R, i + 1)
  BY <1>1, <1>3, BodyPart DEF n
<1>6. Kept(u, h + Under(R), Saves(R), Saved(R, i + 1), Regs, Caller.regs, regs')
  <2> DEFINE b == h + Under(R)
             s == Saves(R)
             old == Caller.regs
             new2 == regs'
  <2>1. /\ Kept(u, b, s, n, Regs, old, regs)
        /\ \A r \in Regs : new2[r] = regs[r] \/ \E m \in 1 .. n : r = s[m]
    BY <1>1, <1>2, <1>3, <1>4
  <2> HIDE DEF b, s, old, new2
  <2>2. Kept(u, b, s, n, Regs, old, new2)
    BY <2>1, KeptRegs, Zenon
  <2> QED
    BY <1>4, <2>2 DEF b, s, old, new2
<1>7. /\ Len(u) = h + Words(R, i + 1)
      /\ (\A j \in 1 .. h + 1 : u[j] = st[j])
      /\ R \in Common => u[h + 3] = Const(Number(R))
  BY <1>1, <1>2, <1>5
<1>8. i < End(R) /\ ifl' = FALSE
  BY <1>1, <1>5
<1> QED
  BY <1>2, <1>6, <1>7, <1>8, TrapAdvance DEF R, i, h, st, u

LEMMA TrapKernelSegs ==
  ASSUME Inv, Assign, ip[1] \in Traps
  PROVE  Inv'
<1> DEFINE R == ip[1]
           i == ip[2]
<1>1. /\ phase = "run" /\ ip # TaskCode /\ Op = Code[R][i] /\ Advance /\ ifl' = ifl
      /\ stack' = stack /\ onstk' = onstk /\ cur' = cur /\ phase' = phase
      /\ thread_sp' = thread_sp /\ insvc' = insvc /\ ctx' = ctx
      /\ Op[1] \in {"mov", "load", "kernelsegs", "enosys"}
  BY DEF Assign, At, Op
<1>2. R \in Traps /\ i \in 1 .. End(R)
  BY <1>1, TrapTop
<1>3. Op[1] = "kernelsegs"
  BY <1>1, <1>2, TrapOps
<1>4. regs' = [r \in Regs |-> IF r \in Segments \cup {"rax"} THEN Const("0x10") ELSE regs[r]]
  BY <1>3 DEF Assign, At
<1>5. AtBody(R, i)
  BY <1>1, <1>2, <1>3, TrapOps
<1>6. R \in Common /\ i < BodyEnd(R)
  BY <1>1, <1>3, <1>5 DEF AtBody
<1>7. IsRegs(regs') /\ \A r \in Regs : regs'[r] = regs[r] \/ r \in Segments \cup {"rax"}
  BY <1>4 DEF IsRegs
<1> HIDE DEF R, i
<1>8. \A r \in Regs : regs'[r] = regs[r] \/ \E m \in 1 .. NRegs(R) : r = Saves(R)[m]
  <2>1. /\ Saves(R)[1] = "rax" /\ NRegs(R) \in 1 .. 19
        /\ \A r \in Segments : \E m \in 1 .. NRegs(R) : r = Saves(R)[m]
    BY <1>2, <1>6, SavesFacts
  <2>2. 1 \in 1 .. NRegs(R)
    BY <2>1
  <2> QED
    BY <1>7, <2>1, <2>2
<1>9. i # BodyEnd(R)
  BY <1>2, <1>6, Ends
<1> QED
  BY <1>1, <1>2, <1>5, <1>7, <1>8, <1>9, TrapBody DEF R, i

\* C code leaves anything in the scratch registers, all of which are saved.
LEMMA ScratchSaved ==
  ASSUME NEW R \in Traps, NEW old, NEW new,
         new = [r \in Regs |-> IF r \in Scratch THEN Junk ELSE old[r]]
  PROVE  /\ IsRegs(new)
         /\ \A r \in Regs : new[r] = old[r] \/ \E m \in 1 .. NRegs(R) : r = Saves(R)[m]
<1>1. IsRegs(new) /\ \A r \in Regs : new[r] = old[r] \/ r \in Scratch
  BY DEF IsRegs
<1>2. \A r \in Scratch : \E m \in 1 .. NRegs(R) : r = Saves(R)[m]
  BY SavesFacts
<1> QED
  BY <1>1, <1>2

\* A step after which the kernel does not run: panic, or no known address.
LEMMA KernelStops ==
  ASSUME Inv, phase' # "run", stack' = stack, onstk' = onstk, cur' = cur, thread_sp' = thread_sp,
         ctx' = ctx
  PROVE  Inv'
<1>1. Stacks' /\ Sleeping'
  <2>1. stack' = [stack EXCEPT ![onstk] = stack'[onstk]] /\ IsSeq(stack'[onstk])
    BY StackSame
  <2>2. cur' \in Tasks
    BY DEF Inv, Stacks
  <2> QED
    BY <2>1, <2>2, StacksStay
<1> QED
  BY <1>1 DEF Inv

LEMMA TrapCall ==
  ASSUME Inv, Call, ip[1] \in Traps
  PROVE  Inv'
<1> DEFINE R == ip[1]
           i == ip[2]
           st == stack[onstk]
           h == Caller.height
<1>1. /\ phase = "run" /\ ip # TaskCode /\ Op = Code[R][i] /\ ifl' = ifl /\ Op[1] = "call"
      /\ stack' = stack /\ onstk' = onstk /\ cur' = cur
      /\ thread_sp' = thread_sp /\ ctx' = ctx
      /\ insvc' = IF Op[2] = "irq_handler" THEN insvc \ {TrapNumber - 32} ELSE insvc
      /\ regs' = [r \in Regs |-> IF r \in Scratch THEN Junk ELSE regs[r]]
      /\ IF handle_exception_panics THEN phase' = "panic" /\ ip' = ip
         ELSE Advance /\ phase' = phase
  BY DEF Call, At, Op
<1>2. CASE handle_exception_panics
  <2>1. phase' # "run"
    BY <1>1, <1>2
  <2> QED
    BY <1>1, <2>1, KernelStops
<1>3. CASE ~handle_exception_panics
  <2>1. Advance /\ phase' = phase
    BY <1>1, <1>3
  <2>2. /\ R \in Traps /\ i \in 1 .. End(R) /\ h \in Nat /\ Len(st) = h + Words(R, i)
        /\ R \in Common /\ PreEnd(R) < i /\ i <= PopEnd(R) => st[h + 3] = Const(Number(R))
    BY <1>1, TrapTop
  <2>3. AtBody(R, i)
    BY <1>1, <2>2, TrapOps
  <2>4. /\ Op[2] = Handler(R)
        /\ IF R \in Devices THEN i < BodyEnd(R) ELSE i = BodyEnd(R)
    BY <1>1, <2>3 DEF AtBody
  <2>5. /\ IsRegs(regs')
        /\ \A r \in Regs : regs'[r] = regs[r] \/ \E m \in 1 .. NRegs(R) : r = Saves(R)[m]
    <3> DEFINE new == regs'
    <3>1. new = [r \in Regs |-> IF r \in Scratch THEN Junk ELSE regs[r]]
      BY <1>1
    <3> HIDE DEF new, R
    <3>2. IsRegs(new) /\ \A r \in Regs : new[r] = regs[r] \/ \E m \in 1 .. NRegs(R) : r = Saves(R)[m]
      BY <2>2, <3>1, ScratchSaved
    <3> QED
      BY <3>2 DEF new
  <2>6. CASE R \in Devices
    <3>1. Op[2] # "irq_handler"
      BY <2>4, <2>6 DEF Handler, Devices, Common
    <3>2. insvc' = insvc /\ i # BodyEnd(R)
      <4> HIDE DEF R, i
      <4> QED
        BY <1>1, <2>2, <2>4, <2>6, <3>1, Ends
    <3> QED
      BY <1>1, <2>1, <2>3, <2>5, <3>2, TrapBody
  <2>7. CASE R \notin Irqs
    <3>1. Op[2] # "irq_handler"
      BY <2>2, <2>4, <2>7 DEF Handler, Irqs, Traps, Common
    <3>2. insvc' = insvc
      BY <1>1, <3>1
    <3> QED
      BY <1>1, <2>1, <2>3, <2>5, <2>7, <3>2, TrapBody
  <2>8. CASE R \in Irqs /\ R \notin Devices
    <3>1. Op[2] = "irq_handler" /\ R \in Common /\ Number(R) - 32 = Line(R) /\ Line(R) \in Nat
      BY <2>4, <2>8 DEF Handler, Irqs, Common, Number, Line
    <3>2. i = BodyEnd(R) /\ PreEnd(R) < i /\ i <= PopEnd(R) /\ Len(st) - 19 = h + 3
      <4> DEFINE l == Len(st)
      <4>1. l = h + Words(R, i)
        BY <2>2
      <4> HIDE DEF R, i, h, l
      <4>2. i = BodyEnd(R) /\ PreEnd(R) < i /\ i <= PopEnd(R) /\ l - 19 = h + 3
        BY <2>2, <2>3, <2>4, <2>8, <3>1, <4>1, BodyPart
      <4> QED
        BY <4>2 DEF l
    <3>3. TrapNumber = Number(R)
      <4>1. st[Len(st) - 19] = Const(Number(R))
        BY <2>2, <3>1, <3>2
      <4> QED
        BY <4>1 DEF TrapNumber, Const
    <3>4. insvc = {Line(R)}
      <4>1. insvc = Pending(ip)
        BY <1>1, <2>8, ServiceNow
      <4>2. i <= BodyEnd(R)
        BY <2>2, <3>2
      <4> QED
        BY <2>8, <4>1, <4>2 DEF Pending
    <3>5. insvc' = {}
      BY <1>1, <3>1, <3>3, <3>4
    <3> QED
      BY <1>1, <2>1, <2>3, <2>5, <2>8, <3>2, <3>5, TrapBody
  <2> QED
    BY <2>6, <2>7, <2>8
<1> QED
  BY <1>2, <1>3

LEMMA TrapEoi ==
  ASSUME Inv, Eoi, ip[1] \in Traps
  PROVE  Inv'
<1> DEFINE R == ip[1]
           i == ip[2]
<1>1. /\ phase = "run" /\ ip # TaskCode /\ Op = Code[R][i] /\ ifl' = ifl /\ Op[1] = "eoi"
      /\ stack' = stack /\ onstk' = onstk /\ cur' = cur /\ Advance /\ phase' = phase
      /\ thread_sp' = thread_sp /\ ctx' = ctx
      /\ insvc' = {l \in insvc : \E k \in insvc : k < l}
      /\ regs' = [regs EXCEPT !["rax"] = Const("0x20")]
  BY DEF Eoi, At, Op
<1>2. R \in Traps /\ i \in 1 .. End(R) /\ IsRegs(regs)
  BY <1>1, TrapTop
<1>3. AtBody(R, i)
  BY <1>1, <1>2, TrapOps
<1>4. R \in Devices /\ i = BodyEnd(R)
  BY <1>1, <1>3 DEF AtBody
<1>5. IsRegs(regs') /\ \A r \in Regs : regs'[r] = regs[r] \/ r = "rax"
  BY <1>1, <1>2 DEF IsRegs
<1>6. \A r \in Regs : regs'[r] = regs[r] \/ \E m \in 1 .. NRegs(R) : r = Saves(R)[m]
  <2> HIDE DEF R
  <2>1. Saves(R)[1] = "rax" /\ NRegs(R) \in 1 .. 19
    BY <1>2, SavesFacts
  <2>2. 1 \in 1 .. NRegs(R)
    BY <2>1
  <2> QED
    BY <1>5, <2>1, <2>2
<1>7. R \in Irqs /\ Line(R) \in Nat
  BY <1>4 DEF Irqs, Line
<1>8. insvc = {Line(R)}
  <2>1. insvc = Pending(ip)
    BY <1>1, <1>7, ServiceNow
  <2>2. i <= BodyEnd(R)
    BY <1>2, <1>4
  <2> QED
    BY <1>7, <2>1, <2>2 DEF Pending
<1>9. insvc' = {}
  BY <1>1, <1>7, <1>8
<1> QED
  BY <1>1, <1>3, <1>4, <1>5, <1>6, <1>7, <1>9, TrapBody

LEMMA TrapPop ==
  ASSUME Inv, Pop, ip[1] \in Traps
  PROVE  Inv'
<1> DEFINE R == ip[1]
           i == ip[2]
           h == Caller.height
           st == stack[onstk]
           u == stack'[onstk]
           n == Saved(R, i)
<1>1. /\ phase = "run" /\ ip # TaskCode /\ Op = Code[R][i] /\ Op[1] = "pop" /\ Advance
      /\ DropTop(1) /\ ifl' = ifl /\ onstk' = onstk /\ cur' = cur /\ phase' = phase
      /\ thread_sp' = thread_sp /\ insvc' = insvc /\ ctx' = ctx
      /\ regs' = [r \in Regs |-> IF r = Op[2] \/ (r = "rax" /\ Op[2] \in Segments)
                                 THEN Top ELSE regs[r]]
  BY DEF Pop, At, Op
<1>2. /\ R \in Traps /\ i \in 1 .. End(R) /\ Len(st) = h + Words(R, i) /\ h \in Nat /\ ifl = FALSE
      /\ Kept(st, h + Under(R), Saves(R), n, Regs, Caller.regs, regs)
      /\ R \in Common /\ PreEnd(R) < i /\ i <= PopEnd(R) => st[h + 3] = Const(Number(R))
  BY <1>1, TrapTop
<1>3. AtPop(R, i)
  BY <1>1, <1>2, TrapOps
<1>4. Top = st[Len(st)]
  BY DEF Top, Last
<1> HIDE DEF R, i, h, n
<1>5. /\ i < End(R) /\ i # BodyEnd(R) /\ PreEnd(R) < i /\ i <= PopEnd(R)
      /\ Len(st) \in Nat /\ h + 1 <= Len(st) - 1 /\ (R \in Common => h + 3 <= Len(st) - 1)
      /\ n \in Nat /\ n >= 1
      /\ h + Under(R) \in Nat /\ Len(st) = h + Under(R) + n
      /\ Len(st) - 1 = h + Words(R, i + 1)
  <2> DEFINE l == Len(st)
  <2>1. R \in Traps /\ i \in 1 .. End(R) /\ h \in Nat /\ l = h + Words(R, i) /\ AtPop(R, i)
    BY <1>2, <1>3
  <2> HIDE DEF l
  <2>2. PopNumbers(R, i, h, l)
    BY <2>1, PopPart, Zenon
  <2> QED
    BY <2>2, Zenon DEF PopNumbers, l, n
<1>6. IsDrop(u, st, 1) /\ stack' = [stack EXCEPT ![onstk] = stack'[onstk]]
  <2>1. 1 \in 0 .. Len(stack[onstk])
    BY <1>2, <1>5
  <2> QED
    BY <1>1, <2>1, StackDrop
<1> HIDE DEF st, u
<1>7. Op[2] = Saves(R)[n] /\ n \in 1 .. NRegs(R) /\ Saved(R, i + 1) = n - 1
  BY <1>1, <1>3 DEF AtPop, n
<1>8. Kept(u, h + Under(R), Saves(R), n - 1, Regs, Caller.regs, regs')
  <2> DEFINE b == h + Under(R)
             s == Saves(R)
             old == Caller.regs
             new2 == regs'
  <2>1. s[n] \in Regs /\ s[1] = "rax"
    BY <1>2, <1>7, SavesFacts
  <2>2. new2[s[n]] = st[Len(st)]
    BY <1>1, <1>4, <1>7, <2>1
  <2>3. s[n] \in Segments => 1 \in 1 .. n - 1
    <3>1. "rax" \notin Segments
      BY RegSets
    <3>2. s[n] \in Segments => n # 1
      BY <2>1, <3>1
    <3> QED
      BY <1>5, <3>2
  <2>4. \A r \in Regs \ {s[n]} : new2[r] = regs[r] \/ \E m \in 1 .. n - 1 : r = s[m]
    BY <1>1, <1>7, <2>1, <2>3
  <2>5. /\ b \in Nat /\ n \in Nat /\ n >= 1 /\ Kept(st, b, s, n, Regs, old, regs)
        /\ Len(st) = b + n /\ IsDrop(u, st, 1)
    BY <1>2, <1>5, <1>6
  <2> HIDE DEF b, s, old, new2
  <2>6. Kept(u, b, s, n - 1, Regs, old, new2)
    BY <2>2, <2>4, <2>5, KeptPop, Zenon
  <2> QED
    BY <2>6 DEF b, s, old, new2
<1>9. /\ Len(u) = h + Words(R, i + 1) /\ IsSeq(u)
      /\ \A j \in 1 .. h + 1 : u[j] = st[j]
      /\ R \in Common => u[h + 3] = Const(Number(R))
  <2>1. IsSeq(u) /\ Len(u) = Len(st) - 1 /\ (\A j \in 1 .. Len(u) : u[j] = st[j])
    BY <1>6 DEF IsDrop
  <2>2. R \in Common => h + 3 \in 1 .. Len(u)
    BY <1>2, <1>5, <2>1
  <2> QED
    BY <1>2, <1>5, <2>1, <2>2
<1>10. Kept(u, h + Under(R), Saves(R), Saved(R, i + 1), Regs, Caller.regs, regs')
  BY <1>7, <1>8
<1>11. /\ phase = "run" /\ ip # TaskCode /\ R \in Traps /\ i < End(R) /\ i # BodyEnd(R)
       /\ Advance /\ ifl' = FALSE /\ onstk' = onstk /\ cur' = cur /\ phase' = phase
       /\ thread_sp' = thread_sp /\ insvc' = insvc /\ ctx' = ctx
       /\ stack' = [stack EXCEPT ![onstk] = stack'[onstk]] /\ IsRegs(regs')
  BY <1>1, <1>2, <1>5, <1>6 DEF IsRegs
<1> QED
  BY <1>9, <1>10, <1>11, TrapAdvance DEF R, i, h, st, u

LEMMA TrapDrop ==
  ASSUME Inv, Drop, ip[1] \in Traps
  PROVE  Inv'
<1> DEFINE R == ip[1]
           i == ip[2]
           h == Caller.height
           st == stack[onstk]
           u == stack'[onstk]
           d == Under(R) - 1
<1>1. /\ phase = "run" /\ ip # TaskCode /\ Op = Code[R][i] /\ Op[1] = "drop" /\ Advance
      /\ DropTop(Op[2]) /\ ifl' = ifl /\ regs' = regs /\ onstk' = onstk /\ cur' = cur
      /\ phase' = phase /\ thread_sp' = thread_sp /\ insvc' = insvc /\ ctx' = ctx
  BY DEF Drop, At, Op
<1>2. /\ R \in Traps /\ i \in 1 .. End(R) /\ Len(st) = h + Words(R, i) /\ h \in Nat /\ ifl = FALSE
      /\ Kept(st, h + Under(R), Saves(R), Saved(R, i), Regs, Caller.regs, regs) /\ IsRegs(regs)
  BY <1>1, TrapTop
<1>3. AtDrop(R, i)
  BY <1>1, <1>2, TrapOps
<1>4. Op[2] = d
  BY <1>1, <1>3 DEF AtDrop
<1> HIDE DEF R, i, h
<1>5. /\ i < End(R) /\ i # BodyEnd(R) /\ ~(i < PopEnd(R)) /\ Len(st) \in Nat
      /\ Saved(R, i) = 0 /\ Saved(R, i + 1) = 0
      /\ d \in 0 .. Len(st) /\ Len(st) - d = h + 1 /\ Words(R, i + 1) = 1
  <2> DEFINE l == Len(st)
  <2>1. l = h + Words(R, i)
    BY <1>2
  <2> HIDE DEF l
  <2>2. /\ i < End(R) /\ i # BodyEnd(R) /\ ~(i < PopEnd(R)) /\ l \in Nat
        /\ Saved(R, i) = 0 /\ Saved(R, i + 1) = 0
        /\ d \in 0 .. l /\ l - d = h + 1 /\ Words(R, i + 1) = 1
    BY <1>2, <1>3, <2>1, DropPart
  <2> QED
    BY <2>2 DEF l
<1> HIDE DEF d
<1>6. IsDrop(u, st, d) /\ stack' = [stack EXCEPT ![onstk] = stack'[onstk]]
  BY <1>1, <1>4, <1>5, StackDrop
<1> HIDE DEF st, u
<1>7. Kept(u, h + Under(R), Saves(R), Saved(R, i + 1), Regs, Caller.regs, regs')
  BY <1>1, <1>2, <1>5, KeptNone
<1>8. /\ Len(u) = h + Words(R, i + 1) /\ IsSeq(u) /\ \A j \in 1 .. h + 1 : u[j] = st[j]
  BY <1>2, <1>5, <1>6 DEF IsDrop
<1>9. /\ phase = "run" /\ ip # TaskCode /\ R \in Traps /\ i < End(R) /\ i # BodyEnd(R)
      /\ Advance /\ ifl' = FALSE /\ onstk' = onstk /\ cur' = cur /\ phase' = phase
      /\ thread_sp' = thread_sp /\ insvc' = insvc /\ ctx' = ctx
      /\ stack' = [stack EXCEPT ![onstk] = stack'[onstk]] /\ IsRegs(regs') /\ ~(i < PopEnd(R))
  BY <1>1, <1>2, <1>5, <1>6
<1> QED
  BY <1>7, <1>8, <1>9, TrapAdvance DEF R, i, h, st, u

\* What iretq finds: everything as it was interrupted, and the frame.
LEMMA AtReturn ==
  ASSUME Inv, Iretq, ip[1] \in Traps
  PROVE  /\ Top = <<"frame", Caller.ip, Caller.ifl>> /\ regs = Caller.regs
         /\ onstk = Caller.onstk /\ Len(stack[onstk]) = Caller.height + 1 /\ Caller.height \in Nat
         /\ Pending(ip) = {} /\ phase = "run" /\ ip # TaskCode
<1> DEFINE R == ip[1]
           i == ip[2]
           h == Caller.height
           st == stack[onstk]
<1>1. phase = "run" /\ ip # TaskCode /\ Code[R][i][1] = "iretq"
  BY DEF Iretq, At, Op
<1>2. /\ R \in Traps /\ i \in 1 .. End(R) /\ Len(st) = h + Words(R, i) /\ h \in Nat
      /\ Kept(st, h + Under(R), Saves(R), Saved(R, i), Regs, Caller.regs, regs)
      /\ IsRegs(regs) /\ IsRegs(Caller.regs) /\ onstk = Caller.onstk
      /\ st[h + 1] = <<"frame", Caller.ip, Caller.ifl>>
  BY <1>1, TrapTop
<1>3. AtIretq(R, i)
  BY <1>1, <1>2, TrapOps
<1>4. i = End(R) /\ Words(R, i) = 1 /\ Saved(R, i) = 0
  BY <1>3 DEF AtIretq
<1>5. Top = <<"frame", Caller.ip, Caller.ifl>> /\ Len(st) = h + 1
  BY <1>2, <1>4 DEF Top, Last
<1>6. regs = Caller.regs
  <2>1. \A r \in Regs : regs[r] = Caller.regs[r]
    BY <1>2, <1>4, KeptNone
  <2> QED
    BY <1>2, <2>1 DEF IsRegs
<1>7. Pending(ip) = {}
  <2>1. ~(i <= BodyEnd(R))
    <3> HIDE DEF R, i
    <3> QED
      BY <1>2, <1>4, Ends, SMTT(30)
  <2> QED
    BY <2>1 DEF Pending
<1> QED
  BY <1>1, <1>2, <1>5, <1>6, <1>7

\* A level that is gone.
LEMMA Returns ==
  ASSUME Inv, phase = "run", ip # TaskCode, ip[1] \in Traps, phase' = "run",
         Ctx' = Front(Ctx), ctx' = [ctx EXCEPT ![onstk] = ctx'[onstk]], Context' = Caller,
         IsDrop(stack'[onstk], stack[onstk], 1),
         Len(stack'[onstk]) = Caller.height,
         stack' = [stack EXCEPT ![onstk] = stack'[onstk]], Pending(ip) = {},
         onstk' = onstk, cur' = cur, thread_sp' = thread_sp, insvc' = insvc
  PROVE  Inv'
<1> DEFINE u == stack'[onstk]
           st == stack[onstk]
<1>1. /\ Len(Ctx) \in Nat /\ Len(Ctx) >= 1 /\ IsSeq(Ctx) /\ cur \in Tasks
      /\ Nested(Levels, st) /\ IsLevel(Caller)
      /\ Len(Levels) = Len(Ctx) + 1 /\ (\A k \in 1 .. Len(Ctx) : Levels[k] = Ctx[k])
      /\ Levels[Len(Ctx) + 1] = Context
  BY RoutineRuns, LevelsFacts
<1>2. /\ IsSeq(Front(Ctx)) /\ Append(Front(Ctx), Last(Ctx)) = Ctx
      /\ Last(Ctx) = Ctx[Len(Ctx)]
  BY <1>1, FrontFacts
<1>3. Levels' = Ctx
  BY <1>2 DEF Levels, Caller
<1>4. Stacks' /\ Sleeping'
  <2>1. IsSeq(stack'[onstk]) /\ IsSeq(ctx'[onstk]) /\ cur' \in Tasks
    BY <1>1, <1>2 DEF IsDrop, Ctx
  <2> QED
    BY <2>1, StacksStay
<1>6. Nested(Ctx, u)
  <2>1. \A i \in 1 .. Ctx[Len(Ctx)].height : u[i] = st[i]
    BY DEF IsDrop, Caller
  <2>2. \A k \in 1 .. Len(Ctx) : Ctx[k] = Levels[k]
    BY <1>1
  <2>3. Len(Ctx) <= Len(Levels)
    BY <1>1
  <2> DEFINE L == Levels
             M == Ctx
  <2> HIDE DEF L, M, u, st
  <2>4. /\ Nested(L, st) /\ IsSeq(M) /\ Len(M) >= 1 /\ Len(M) <= Len(L)
        /\ (\A k \in 1 .. Len(M) : M[k] = L[k])
        /\ \A i \in 1 .. M[Len(M)].height : u[i] = st[i]
    BY <1>1, <2>1, <2>2, <2>3 DEF L, M
  <2>5. Nested(M, u)
    BY <2>4, NestedOuter
  <2> QED
    BY <2>5 DEF M
<1>7. ~ Leaving(Context)
  BY DEF Leaving, Context, Traps, Common, Devices
<1>8. Turn'
  <2>1. Turn
    BY DEF Inv, Running
  <2>2. ASSUME NEW k \in 1 .. Len(Ctx) + 1 PROVE k \in 1 .. Len(Ctx) \/ k = Len(Ctx) + 1
    BY <1>1
  <2>3. \A k \in 1 .. Len(Ctx) : k \in 1 .. Len(Ctx) + 1
    BY <1>1
  <2> QED
    BY <1>1, <1>3, <1>7, <2>1, <2>2, <2>3, TurnSame
<1>9. Service'
  <2>1. insvc = InService(Ctx)
    BY ServiceNow
  <2> QED
    BY <1>3, <2>1 DEF Service
<1>10. Nested(Levels', stack'[onstk'])
  BY <1>3, <1>6
<1> QED
  BY <1>4, <1>8, <1>9, <1>10 DEF Inv, Running

LEMMA TrapIretq ==
  ASSUME Inv, Iretq, ip[1] \in Traps
  PROVE  /\ Inv' /\ phase' = "run" /\ regs' = Caller.regs /\ ip' = Caller.ip /\ ifl' = Caller.ifl
         /\ onstk = Caller.onstk /\ Len(stack'[onstk]) = Caller.height
<1>1. /\ Top = <<"frame", Caller.ip, Caller.ifl>> /\ regs = Caller.regs
      /\ onstk = Caller.onstk /\ Len(stack[onstk]) = Caller.height + 1 /\ Caller.height \in Nat
      /\ Pending(ip) = {} /\ phase = "run" /\ ip # TaskCode
  BY AtReturn
<1>2. Top[1] = "frame" /\ Top[2] = Caller.ip /\ Top[3] = Caller.ifl
  BY <1>1
<1>3. /\ ip' = Top[2] /\ ifl' = Top[3] /\ DropTop(1) /\ Unnest /\ phase' = phase
      /\ regs' = regs /\ onstk' = onstk /\ cur' = cur /\ thread_sp' = thread_sp
      /\ insvc' = insvc
  BY <1>2 DEF Iretq
<1>4. /\ stack' = [stack EXCEPT ![onstk] = stack'[onstk]]
      /\ IsDrop(stack'[onstk], stack[onstk], 1)
  <2>1. 1 \in 0 .. Len(stack[onstk])
    BY <1>1
  <2> QED
    BY <1>3, <2>1, StackDrop
<1>5. Len(stack'[onstk]) = Caller.height
  BY <1>1, <1>4 DEF IsDrop
<1>6. Context' = Caller
  <2>1. IsLevel(Caller)
    BY <1>1, RoutineRuns
  <2>2. Context' = [regs |-> Caller.regs, ip |-> Caller.ip, ifl |-> Caller.ifl,
                    height |-> Caller.height, onstk |-> Caller.onstk]
    BY <1>1, <1>2, <1>3, <1>5 DEF Context
  <2> QED
    BY <2>1, <2>2 DEF IsLevel
<1>7. phase' = "run"
  BY <1>1, <1>3
<1>8. Inv'
  <2>1. Ctx' = Front(Ctx) /\ ctx' = [ctx EXCEPT ![onstk] = ctx'[onstk]]
    BY <1>3, CtxPop
  <2> QED
    BY <1>1, <1>3, <1>4, <1>5, <1>6, <1>7, <2>1, Returns
<1> QED
  BY <1>1, <1>2, <1>3, <1>5, <1>7, <1>8

-------------------------------------------------------------------------------
(* Entries *)

\* One more level: what an entry has to establish.
LEMMA Enters ==
  ASSUME Inv, phase = "run", phase' = "run", Nest, IsRegs(regs'),
         stack' = [stack EXCEPT ![onstk] = stack'[onstk]], IsSeq(stack'[onstk]),
         onstk' = onstk, thread_sp' = thread_sp, cur' \in Tasks,
         Len(stack[onstk]) <= Len(stack'[onstk]),
         \A i \in 1 .. Len(stack[onstk]) : stack'[onstk][i] = stack[onstk][i],
         Activation(Context, Context', stack'[onstk]),
         insvc' = insvc \cup Pending(ip'),
         \/ cur' = cur /\ ~ Leaving(Context')
         \/ /\ Leaving(Context') /\ Goes(Context)'
            /\ \A k \in 1 .. Len(Levels) : ~ Leaving(Levels[k])
  PROVE  Inv'
<1> DEFINE u == stack'[onstk]
           st == stack[onstk]
           x == Context'
           L == Levels
<1>1. /\ IsSeq(Ctx) /\ Nested(L, st) /\ Len(L) = Len(Ctx) + 1 /\ Len(Ctx) \in Nat
      /\ L[Len(Ctx) + 1] = Context /\ insvc = InService(L) /\ IsSeq(L)
      /\ Len(st) \in Nat
  <2>1. IsSeq(Ctx) /\ IsSeq(st)
    BY DEF Inv, Stacks, Ctx
  <2>2. Len(st) \in Nat
    BY <2>1 DEF IsSeq
  <2> QED
    BY <2>1, <2>2, LevelsFacts DEF Inv, Running, Service
<1>2. Levels' = Append(L, x) /\ ctx' = [ctx EXCEPT ![onstk] = ctx'[onstk]]
  BY CtxPush DEF Levels
<1>3. IsSeq(ctx'[onstk])
  <2>1. ctx'[onstk] = L
    BY CtxPush DEF Ctx, Levels
  <2> QED
    BY <1>1, <2>1
<1>4. Stacks' /\ Sleeping'
  BY <1>2, <1>3, StacksStay
<1>5. IsLevel(x) /\ x.height = Len(u) /\ x.ip = ip'
  <2>1. Len(u) \in Nat
    BY DEF IsSeq
  <2> QED
    BY <2>1 DEF IsLevel, Context
<1>6. L[Len(L)].height = Len(st)
  BY <1>1, ContextFacts
<1>7. Len(st) <= x.height /\ Activation(L[Len(L)], x, u) /\ \A i \in 1 .. Len(st) : u[i] = st[i]
  BY <1>1, <1>5
<1> HIDE DEF u, x, st, L
<1>8. Nested(L, u)
  <2>1. Len(L) >= 1 /\ Len(L) <= Len(L)
    BY <1>1
  <2>2. \A i \in 1 .. L[Len(L)].height : u[i] = st[i]
    BY <1>6, <1>7
  <2> QED
    BY <1>1, <2>1, <2>2, NestedOuter
<1>9. Nested(Append(L, x), u)
  <2>1. L[Len(L)].height <= x.height
    BY <1>6, <1>7
  <2> QED
    BY <1>5, <1>7, <1>8, <2>1, NestedInner
<1>10. Service'
  <2>1. Len(L) >= 1
    BY <1>1
  <2>2. InService(Append(L, x)) = InService(L) \cup Pending(x.ip)
    BY <1>1, <2>1, InServiceMore
  <2>3. InService(Levels') = insvc'
    BY <1>1, <1>2, <1>5, <2>2
  <2> QED
    BY <2>3 DEF Service
<1>11. Turn'
  <2> DEFINE P == Append(L, x)
  <2>1. /\ Len(P) = Len(L) + 1 /\ P[Len(L) + 1] = x /\ \A k \in 1 .. Len(L) : P[k] = L[k]
    BY <1>1, AppendFacts
  <2>2. Levels' = P
    BY <1>2
  <2> HIDE DEF P
  <2>3. Len(L) \in Nat
    BY <1>1
  <2>4. ASSUME NEW k \in 1 .. Len(L) + 1 PROVE k \in 1 .. Len(L) \/ k = Len(L) + 1
    BY <2>3
  <2>5. (\A k \in 1 .. Len(L) : k \in 1 .. Len(L) + 1) /\ Len(L) + 1 \in 1 .. Len(L) + 1
    BY <2>3
  <2>6. CASE cur' = cur /\ ~ Leaving(x)
    <3>1. Turn
      BY DEF Inv, Running
    <3> QED
      BY <2>1, <2>2, <2>4, <2>5, <2>6, <3>1, TurnSame DEF L
  <2>7. CASE /\ Leaving(x) /\ Goes(Context)'
             /\ \A k \in 1 .. Len(L) : ~ Leaving(L[k])
    <3>1. Levels' = Append(L, Context') /\ Leaving(Context')
      BY <1>2, <2>7 DEF x
    <3> QED
      BY <1>1, <2>7, <3>1, TurnTop
  <2> QED
    BY <2>6, <2>7 DEF x, L
<1>12. Nested(Levels', stack'[onstk'])
  BY <1>2, <1>9 DEF u
<1> QED
  BY <1>4, <1>10, <1>11, <1>12 DEF Inv, Running

\* The words the CPU pushes.
LEMMA TrapWords ==
  ASSUME NEW f, NEW code, NEW st, IsSeq(code), IsSeq(st)
  PROVE  LET u == st \o (<<f>> \o code)
         IN  /\ IsSeq(u) /\ Len(u) = Len(st) + (1 + Len(code))
             /\ \A i \in 1 .. Len(st) : u[i] = st[i]
             /\ u[Len(st) + 1] = f
<1> DEFINE t == <<f>>
           n == Len(code)
           m == Len(st)
           w == t \o code
           u == st \o w
<1>1. t[1] = f
  OBVIOUS
<1>2. IsSeq(t) /\ Len(t) = 1
  BY Literals, Zenon
<1>3. n \in Nat /\ m \in Nat
  BY DEF IsSeq
<1> HIDE DEF t, n, m
<1>4. IsCat(w, t, 1, code, n)
  BY <1>2, CatLens, Zenon DEF n
<1> HIDE DEF w
<1>5. IsSeq(w) /\ Len(w) = 1 + n /\ w[1] = f
  BY <1>1, <1>4 DEF IsCat
<1>6. IsCat(u, st, m, w, 1 + n)
  BY <1>5, CatLens, Zenon DEF m
<1> HIDE DEF u
<1>7. /\ IsSeq(u) /\ Len(u) = m + (1 + n) /\ (\A i \in 1 .. m : u[i] = st[i]) /\ u[m + 1] = f
  BY <1>3, <1>5, <1>6 DEF IsCat
<1> QED
  BY <1>7 DEF u, w, t, n, m

LEMMA FlagValue ==
  ASSUME Inv, phase = "run", ifl
  PROVE  ifl = TRUE
<1>1. CASE ip = TaskCode
  <2>1. TaskLevel(Context)
    BY <1>1, TaskRuns
  <2> QED
    BY <2>1, ContextFacts DEF TaskLevel
<1>2. CASE ip # TaskCode
  <2>1. Activation(Caller, Context, stack[onstk])
    BY <1>2, RoutineRuns
  <2>2. Context.ifl = TRUE \/ Context.ifl = FALSE
    BY <2>1 DEF Activation, Trapped, Called, Switched
  <2> QED
    BY <2>2, ContextFacts
<1> QED
  BY <1>1, <1>2

LEMMA TrapEnters ==
  ASSUME Inv, NEW entry \in Traps, NEW code, Trap(entry, code), IsSeq(code),
         1 + Len(code) = Words(entry, 1), entry \in Irqs => ifl,
         insvc' = insvc \cup Pending(<<entry, 1>>)
  PROVE  Inv'
<1> DEFINE st == stack[onstk]
           u == stack'[onstk]
           f == <<"frame", ip, ifl>>
<1>1. /\ phase = "run" /\ phase' = phase /\ Nest /\ ip' = <<entry, 1>>
      /\ ifl' = FALSE /\ regs' = regs /\ onstk' = onstk /\ cur' = cur /\ thread_sp' = thread_sp
      /\ PushOn(<<f>> \o code)
  BY DEF Trap, Nest
<1>2. /\ onstk \in Tasks /\ stack = [t \in Tasks |-> stack[t]] /\ IsSeq(st) /\ cur \in Tasks
      /\ Len(st) \in Nat
  BY DEF Inv, Stacks, IsSeq
<1>3. IsLevel(Context) /\ IsRegs(regs)
  <2>1. IsLevel(Context)
    BY <1>1, TaskRuns, RoutineRuns
  <2> QED
    BY <2>1, ContextFacts DEF IsLevel
<1>4. entry \in Irqs => Context.ifl = TRUE
  BY <1>1, FlagValue, ContextFacts
<1>5. stack' = [stack EXCEPT ![onstk] = st \o (<<f>> \o code)]
  BY <1>1 DEF PushOn
<1> HIDE DEF f
<1>6. u = st \o (<<f>> \o code) /\ stack' = [stack EXCEPT ![onstk] = stack'[onstk]]
  <2> DEFINE v == st \o (<<f>> \o code)
  <2> HIDE DEF v
  <2>1. stack' = [stack EXCEPT ![onstk] = v]
    BY <1>5 DEF v
  <2>2. u = v
    BY <1>2, <2>1
  <2>3. stack' = [stack EXCEPT ![onstk] = stack'[onstk]]
    BY <2>1, <2>2
  <2> QED
    BY <2>2, <2>3 DEF v
<1> HIDE DEF st, u
<1>7. /\ IsSeq(u) /\ Len(u) = Len(st) + (1 + Len(code)) /\ (\A i \in 1 .. Len(st) : u[i] = st[i])
      /\ u[Len(st) + 1] = f
  BY <1>2, <1>6, TrapWords
<1>8. Words(entry, 1) \in Nat /\ 1 \in 1 .. End(entry) /\ Saved(entry, 1) = 0
      /\ (entry \in Common => ~(PreEnd(entry) < 1))
  <2>1. 1 \in 1 .. End(entry) /\ (entry \in Common => ~(PreEnd(entry) < 1))
    BY Ends
  <2>2. Saved(entry, 1) = 0
    BY Ends DEF Saved
  <2> QED
    BY <2>1, <2>2, WordsFacts
<1>9. Trapped(Context, Context', u)
  <2> DEFINE a == Context'
             c == Context
  <2>1. /\ a.ip = <<entry, 1>> /\ a.ifl = FALSE /\ a.onstk = onstk /\ a.height = Len(u)
        /\ a.regs = regs
    BY <1>1 DEF Context, u
  <2>2. /\ c.ip = ip /\ c.ifl = ifl /\ c.height = Len(st) /\ c.onstk = onstk /\ c.regs = regs
        /\ (entry \in Irqs => c.ifl = TRUE)
    BY <1>4, ContextFacts DEF st
  <2> HIDE DEF a, c
  <2>3. a.ip[1] = entry /\ a.ip[2] = 1 /\ a.height = c.height + Words(entry, 1)
    BY <1>7, <2>1, <2>2
  <2>4. Kept(u, c.height + Under(entry), Saves(entry), Saved(entry, 1), Regs, c.regs, a.regs)
    BY <1>8, <2>1, <2>2, KeptNone
  <2>5. u[c.height + 1] = <<"frame", c.ip, c.ifl>>
    BY <1>7, <2>2 DEF f
  <2>6. Trapped(c, a, u)
    BY <1>8, <2>1, <2>2, <2>3, <2>4, <2>5 DEF Trapped
  <2> QED
    BY <2>6 DEF a, c
<1>11. cur' = cur /\ ~ Leaving(Context')
  BY <1>1 DEF Leaving, Context, Traps, Common, Devices
<1>12. /\ Activation(Context, Context', stack'[onstk]) /\ IsSeq(stack'[onstk])
       /\ Len(stack[onstk]) <= Len(stack'[onstk])
       /\ \A i \in 1 .. Len(stack[onstk]) : stack'[onstk][i] = stack[onstk][i]
  <2>1. Len(st) <= Len(u)
    BY <1>2, <1>7, <1>8 DEF st
  <2> QED
    BY <1>7, <1>9, <2>1 DEF Activation, u, st
<1>13. phase' = "run" /\ IsRegs(regs') /\ cur' \in Tasks /\ insvc' = insvc \cup Pending(ip')
  BY <1>1, <1>2, <1>3
<1> QED
  BY <1>1, <1>6, <1>11, <1>12, <1>13, Enters

LEMMA StepPageFault ==
  ASSUME Inv, PageFault
  PROVE  Inv'
<1> DEFINE code == <<Const("error")>>
<1>1. IsSeq(code) /\ Len(code) = 1
  BY Literals, Zenon
<1>2. PICK entry \in {"isr14", "page_fault"} : Trap(entry, code)
  BY DEF PageFault
<1>3. entry \in Traps /\ entry \notin Irqs /\ Pending(<<entry, 1>>) = {}
  BY DEF Traps, Irqs, Common, Devices, Pending
<1>4. Words(entry, 1) = 2
  BY DEF Words, Saved, PreEnd, Under, PushEnd, NRegs, BodyEnd, BodyLen, PopEnd, Common
<1>5. insvc' = insvc \cup Pending(<<entry, 1>>)
  BY <1>3 DEF PageFault
<1>6. 1 + Len(code) = Words(entry, 1) /\ (entry \in Irqs => ifl)
  BY <1>1, <1>3, <1>4
<1> HIDE DEF code
<1> QED
  BY <1>1, <1>2, <1>3, <1>5, <1>6, TrapEnters, Zenon

LEMMA StepException ==
  ASSUME Inv, Exception
  PROVE  Inv'
<1> DEFINE code == << >>
           entry == "isr0"
<1>1. IsSeq(code) /\ Len(code) = 0
  BY Literals, Zenon
<1>2. Trap(entry, code) /\ insvc' = insvc
  BY DEF Exception
<1>3. entry \in Traps /\ entry \notin Irqs /\ Pending(<<entry, 1>>) = {}
  BY DEF Traps, Irqs, Common, Devices, Pending
<1>4. Words(entry, 1) = 1
  BY DEF Words, PreEnd, Under, Common
<1>5. insvc' = insvc \cup Pending(<<entry, 1>>)
  BY <1>2, <1>3
<1> HIDE DEF code, entry
<1> QED
  BY <1>1, <1>2, <1>3, <1>4, <1>5, TrapEnters

LEMMA StepInterrupt ==
  ASSUME Inv, NEW line \in {0, 1, 7}, Interrupt(line)
  PROVE  Inv'
<1> DEFINE code == << >>
<1>1. IsSeq(code) /\ Len(code) = 0
  BY Literals, Zenon
<1>2. PICK entry \in Irqs : Trap(entry, code) /\ Line(entry) = line
  <2>1. CASE line = 0
    <3>1. \E entry \in {"timer", "irq0"} : Trap(entry, code)
      BY <2>1 DEF Interrupt
    <3> QED
      BY <2>1, <3>1 DEF Irqs, Devices, Line
  <2>2. CASE line = 1
    <3>1. \E entry \in {"keyboard", "irq1"} : Trap(entry, code)
      BY <2>2 DEF Interrupt
    <3> QED
      BY <2>2, <3>1 DEF Irqs, Devices, Line
  <2>3. CASE line = 7
    <3>1. \E entry \in {"irq7"} : Trap(entry, code)
      BY <2>3 DEF Interrupt
    <3> QED
      BY <2>3, <3>1 DEF Irqs, Devices, Line
  <2> QED
    BY <2>1, <2>2, <2>3
<1>3. entry \in Traps
  BY DEF Traps, Irqs, Common
<1>4. Words(entry, 1) = 1
  BY DEF Words, Saved, PreEnd, Under, PushEnd, NRegs, BodyEnd, BodyLen, PopEnd, Common, Irqs,
         Devices
<1>5. Pending(<<entry, 1>>) = {line}
  <2>1. 1 <= BodyEnd(entry)
    BY <1>3, Ends
  <2> QED
    BY <1>2, <2>1 DEF Pending
<1>6. insvc' = insvc \cup Pending(<<entry, 1>>) /\ ifl
  BY <1>5 DEF Interrupt
<1> HIDE DEF code
<1> QED
  BY <1>1, <1>2, <1>3, <1>4, <1>6, TrapEnters

-------------------------------------------------------------------------------
(* System calls and switches: the routines that only a task enters *)

\* A system call or a switch that runs was called by a task, or in a system call.
LEMMA SecondTop ==
  ASSUME Inv, phase = "run", ip # TaskCode, ip[1] \notin Traps
  PROVE  /\ Len(Ctx) \in Nat /\ Len(Ctx) >= 1 /\ IsSeq(Ctx) /\ Nested(Ctx, stack[onstk])
         /\ IsLevel(Caller) /\ IsLevel(Context) /\ IsRegs(regs) /\ IsSeq(stack[onstk])
         /\ Caller.height \in Nat /\ Len(stack[onstk]) \in Nat /\ onstk \in Tasks /\ cur \in Tasks
         /\ Activation(Caller, Context, stack[onstk])
         /\ Caller = Ctx[Len(Ctx)] /\ Caller.ip \in {TaskCode, DoSyscall}
         /\ insvc = {} /\ InService(Ctx) = {} /\ \A k \in 1 .. Len(Ctx) : ~ Leaving(Ctx[k])
         /\ IF Leaving(Context) THEN Goes(Context) ELSE cur = onstk
<1>1. /\ Len(Ctx) \in Nat /\ Len(Ctx) >= 1 /\ IsSeq(Ctx) /\ Nested(Ctx, stack[onstk])
      /\ IsLevel(Caller) /\ IsLevel(Context) /\ IsSeq(stack[onstk])
      /\ Len(stack[onstk]) \in Nat /\ onstk \in Tasks /\ cur \in Tasks
      /\ Activation(Caller, Context, stack[onstk])
      /\ Caller = Ctx[Len(Ctx)] /\ Caller.ip \in {TaskCode, DoSyscall}
  BY RoutineRuns DEF Caller
<1>2. IsRegs(regs) /\ Caller.height \in Nat
  BY <1>1, ContextFacts DEF IsLevel
<1>3. InService(Ctx) = {} /\ \A k \in 1 .. Len(Ctx) : ~ Leaving(Ctx[k])
  <2> DEFINE M == Ctx
             c == Caller
             st == stack[onstk]
  <2>1. Nested(M, st) /\ c = M[Len(M)] /\ c.ip \in {TaskCode, DoSyscall}
    BY <1>1
  <2> HIDE DEF M, c, st
  <2>2. InService(M) = {} /\ \A k \in 1 .. Len(M) : ~ Leaving(M[k])
    BY <2>1, QuietLevels
  <2> QED
    BY <2>2 DEF M
<1>4. insvc = {}
  <2>1. Pending(ip) = {}
    BY DEF Pending, Irqs, Traps, Common
  <2> QED
    BY <1>3, <2>1, ServiceNow
<1>5. IF Leaving(Context) THEN Goes(Context) ELSE cur = onstk
  <2>1. /\ Turn /\ Len(Levels) = Len(Ctx) + 1 /\ Levels[Len(Ctx) + 1] = Context
        /\ \A k \in 1 .. Len(Ctx) : Levels[k] = Ctx[k]
    BY <1>1, LevelsFacts DEF Inv, Running
  <2>2. Len(Ctx) + 1 \in 1 .. Len(Ctx) + 1
        /\ \A k \in 1 .. Len(Ctx) + 1 : k \in 1 .. Len(Ctx) \/ k = Len(Ctx) + 1
    BY <1>1
  <2>3. CASE Leaving(Context)
    BY <2>1, <2>2, <2>3 DEF Turn
  <2>4. CASE ~ Leaving(Context)
    <3>1. \A k \in 1 .. Len(Levels) : ~ Leaving(Levels[k])
      BY <1>3, <2>1, <2>2, <2>4
    <3> QED
      BY <2>1, <2>4, <3>1 DEF Turn
  <2> QED
    BY <2>3, <2>4
<1> QED
  BY <1>1, <1>2, <1>3, <1>4, <1>5

\* A level above quiet ones: what is left to show for it.
LEMMA OnQuiet ==
  ASSUME NEW M, IsSeq(M), Len(M) >= 1, Levels' = Append(M, Context'), InService(M) = {},
         \A k \in 1 .. Len(M) : ~ Leaving(M[k]), ip'[1] \notin Traps, insvc' = {},
         IF Leaving(Context') THEN Goes(Context)' ELSE cur' = onstk'
  PROVE  Turn' /\ Service'
<1>1. Turn'
  BY TurnTop
<1>2. Service'
  <2> DEFINE x == Context'
  <2>1. x.ip = ip' /\ Levels' = Append(M, x)
    BY DEF Context
  <2>2. Pending(ip') = {}
    BY DEF Pending, Irqs, Traps, Common
  <2> HIDE DEF x
  <2>3. InService(Levels') = {}
    BY <2>1, <2>2, InServiceMore
  <2> QED
    BY <2>3 DEF Service
<1> QED
  BY <1>1, <1>2

\* What their instructions have to leave.
LEMMA SecondStays ==
  ASSUME Inv, phase = "run", ip # TaskCode, ip[1] \notin Traps, phase' = "run", ctx' = ctx,
         onstk' = onstk, IsRegs(regs'), Caller.height <= Len(stack'[onstk]),
         \A i \in 1 .. Caller.height : stack'[onstk][i] = stack[onstk][i],
         Activation(Caller, Context', stack'[onstk]), ip'[1] \notin Traps,
         Stacks', Sleeping', insvc' = insvc,
         IF Leaving(Context') THEN Goes(Context)' ELSE cur' = onstk'
  PROVE  Inv'
<1>1. /\ Len(Ctx) >= 1 /\ IsSeq(Ctx) /\ insvc = {} /\ InService(Ctx) = {}
      /\ \A k \in 1 .. Len(Ctx) : ~ Leaving(Ctx[k])
  BY SecondTop
<1>2. IsSeq(stack'[onstk'])
  BY DEF Stacks
<1>3. Nested(Levels', stack'[onstk'])
  BY <1>2, Stays
<1>4. Levels' = Append(Ctx, Context')
  BY <1>1, StayLevels
<1>5. Turn' /\ Service'
  BY <1>1, <1>4, OnQuiet
<1> QED
  BY <1>3, <1>5 DEF Inv, Running

\* The task's own registers.
LEMMA OwnFacts ==
  ASSUME NEW t
  PROVE  /\ IsRegs(Own(t))
         /\ \A r \in CalleeSaved \cup Scratch : Own(t)[r] = <<t, r>>
         /\ \A r \in Segments : Own(t)[r] = <<"selector", r>>
<1>1. \A r \in CalleeSaved \cup Scratch : r \in Regs /\ r \notin Segments
  BY RegSets, SwitchFacts
<1>2. \A r \in Segments : r \in Regs
  BY RegSets
<1> QED
  BY <1>1, <1>2 DEF Own, IsRegs

LEMMA SwitchRegFacts ==
  /\ \A m \in 1 .. 6 : SwitchRegs[m] \in Apart /\ SwitchRegs[m] \in Regs /\ SwitchRegs[m] \notin Segments
  /\ \A m \in 1 .. 6 : SwitchRegs[m] \notin Scratch
  /\ \A r \in Apart : r \in Regs /\ r \notin Scratch
  /\ "rdi" \in Scratch /\ "rsi" \in Scratch /\ "rcx" \in Scratch /\ "r11" \in Scratch
  /\ "rax" \in Scratch /\ \A r \in Scratch : r \in Regs /\ r \notin Segments
<1>1. \A m \in 1 .. 6 : SwitchRegs[m] \in CalleeSaved
  BY SwitchFacts
<1>2. \A r \in CalleeSaved : r \in Regs /\ r \notin Segments /\ r \notin Scratch
  BY RegSets, SwitchFacts
<1>3. \A r \in Segments : r \in Regs /\ r \notin Scratch
  BY RegSets
<1>4. \A r \in Scratch : r \in Regs /\ r \notin Segments
  BY RegSets
<1>5. "rdi" \in Scratch /\ "rsi" \in Scratch /\ "rcx" \in Scratch /\ "r11" \in Scratch
      /\ "rax" \in Scratch
  BY RegSets
<1> QED
  BY <1>1, <1>2, <1>3, <1>4, <1>5 DEF Apart

\* A system call that runs.
LEMMA CallTop ==
  ASSUME Inv, phase = "run", ip # TaskCode, ip[1] \in {"syscall", "invalid"}
  PROVE  /\ ip = <<ip[1], ip[2]>> /\ ip[2] \in 1 .. CallLast(ip[1])
         /\ ifl = TRUE \/ (ifl = FALSE /\ ip[1] = "syscall" /\ ip[2] > 23)
         /\ onstk = Caller.onstk /\ cur = onstk /\ cur \in Tasks
         /\ Caller.regs = Own(cur) /\ IsRegs(regs) /\ IsSeq(stack[onstk])
         /\ Len(stack[onstk]) = CallWords(ip[1], ip[2])
         /\ \A m \in 1 .. CallSaved(ip[1], ip[2]) : stack[onstk][m] = Own(cur)[SwitchRegs[m]]
         /\ \A r \in Apart : regs[r] = Own(cur)[r]
         /\ ip[1] = "invalid" \/ ip[2] <= 14 =>
              /\ regs["rcx"] = <<cur, "rip">> /\ regs["r11"] = <<cur, "rflags">>
              /\ \A r \in Scratch \ {"rax", "rcx", "r11"} : regs[r] = Own(cur)[r]
         /\ ip[1] = "syscall" /\ ip[2] > 23 => regs["rcx"] = Junk
         /\ ip[1] \notin Traps /\ Caller.ip = TaskCode /\ Caller.height = 0 /\ Len(Ctx) = 1
<1>1. ip[1] \notin Traps /\ ip[1] # "switch_to"
  BY DEF Traps, Common, Devices
<1>2. /\ IsRegs(regs) /\ IsSeq(stack[onstk]) /\ Nested(Ctx, stack[onstk])
      /\ Activation(Caller, Context, stack[onstk]) /\ Caller = Ctx[Len(Ctx)]
      /\ IF Leaving(Context) THEN Goes(Context) ELSE cur = onstk
  BY <1>1, SecondTop
<1>3. Called(Caller, Context, stack[onstk])
  BY <1>2, ActivationFacts, ContextFacts
<1>4. Caller.ip = TaskCode /\ onstk = Caller.onstk
  BY <1>3, ContextFacts DEF Called
<1>5. TaskLevel(Caller) /\ Len(Ctx) = 1
  <2> DEFINE M == Ctx
             c == Caller
             st == stack[onstk]
  <2>1. Nested(M, st) /\ c = M[Len(M)] /\ c.ip = TaskCode
    BY <1>2, <1>4
  <2> HIDE DEF M, c, st
  <2>2. Len(M) = 1 /\ TaskLevel(c)
    BY <2>1, QuietLevels
  <2> QED
    BY <2>2 DEF M, c
<1>6. cur = onstk
  BY <1>1, <1>2, ContextFacts DEF Leaving
<1>7. Caller.regs = Own(cur) /\ Caller.onstk \in Tasks /\ Caller.height = 0
  BY <1>4, <1>5, <1>6 DEF TaskLevel
<1> DEFINE R == ip[1]
           i == ip[2]
<1>8. /\ ip = <<R, i>> /\ i \in 1 .. CallLast(R)
      /\ ifl = TRUE \/ (ifl = FALSE /\ R = "syscall" /\ i > 23)
      /\ Len(stack[onstk]) = CallWords(R, i)
      /\ \A m \in 1 .. CallSaved(R, i) : stack[onstk][m] = Own(cur)[SwitchRegs[m]]
      /\ \A r \in Apart : regs[r] = Own(cur)[r]
      /\ R = "invalid" \/ i <= 14 =>
           /\ regs["rcx"] = <<cur, "rip">> /\ regs["r11"] = <<cur, "rflags">>
           /\ \A r \in Scratch \ {"rax", "rcx", "r11"} : regs[r] = Own(cur)[r]
      /\ R = "syscall" /\ i > 23 => regs["rcx"] = Junk
  <2> DEFINE c == Caller
             a == Context
             st == stack[onstk]
             o == Own(cur)
  <2>1. /\ Called(c, a, st) /\ a.ip = ip /\ a.ifl = ifl /\ a.height = Len(st) /\ a.regs = regs
        /\ c.regs = o /\ c.onstk = cur
    BY <1>3, <1>4, <1>6, <1>7, ContextFacts
  <2> HIDE DEF c, a, st, o
  <2>2. /\ ip = <<R, i>> /\ i \in 1 .. CallLast(R)
        /\ ifl = TRUE \/ (ifl = FALSE /\ R = "syscall" /\ i > 23)
        /\ Len(st) = CallWords(R, i)
        /\ \A m \in 1 .. CallSaved(R, i) : st[m] = o[SwitchRegs[m]]
        /\ \A r \in Apart : regs[r] = o[r]
        /\ R = "invalid" \/ i <= 14 =>
             /\ regs["rcx"] = <<cur, "rip">> /\ regs["r11"] = <<cur, "rflags">>
             /\ \A r \in Scratch \ {"rax", "rcx", "r11"} : regs[r] = o[r]
        /\ R = "syscall" /\ i > 23 => regs["rcx"] = Junk
    BY <2>1, Zenon DEF Called
  <2> QED
    BY <2>2 DEF st, o
<1> QED
  BY <1>1, <1>2, <1>4, <1>5, <1>6, <1>7, <1>8

\* What an instruction of a system call has to leave.
LEMMA CallAdvance ==
  ASSUME Inv, phase = "run", ip # TaskCode, ip[1] \in {"syscall", "invalid"},
         stack' = [stack EXCEPT ![onstk] = stack'[onstk]], IsSeq(stack'[onstk]),
         NEW R \in {"syscall", "invalid"}, NEW i \in 1 .. CallLast(R),
         ip' = <<R, i>>, Len(stack'[onstk]) = CallWords(R, i), IsRegs(regs'),
         \A m \in 1 .. CallSaved(R, i) : stack'[onstk][m] = Own(cur)[SwitchRegs[m]],
         \A r \in Apart : regs'[r] = regs[r],
         R = "invalid" \/ i <= 14 => \A r \in Scratch \ {"rax"} : regs'[r] = regs[r],
         R = "invalid" \/ i <= 14 => ip[1] = "invalid" \/ ip[2] <= 14,
         ip[1] = "syscall" /\ ip[2] > 23 => R = "syscall" /\ i > 23,
         R = "syscall" /\ i > 23 => regs'["rcx"] = Junk,
         ifl' = ifl, phase' = phase, ctx' = ctx, onstk' = onstk, cur' = cur,
         thread_sp' = thread_sp, insvc' = insvc
  PROVE  Inv'
<1>1. /\ onstk = Caller.onstk /\ cur = onstk /\ Caller.regs = Own(cur)
      /\ ip[1] \notin Traps /\ Caller.ip = TaskCode /\ Caller.height = 0 /\ cur \in Tasks
      /\ ip[1] = "invalid" \/ ip[2] <= 14 =>
           /\ regs["rcx"] = <<cur, "rip">> /\ regs["r11"] = <<cur, "rflags">>
           /\ \A r \in Scratch \ {"rax", "rcx", "r11"} : regs[r] = Own(cur)[r]
      /\ ifl = TRUE \/ (ifl = FALSE /\ ip[1] = "syscall" /\ ip[2] > 23)
      /\ \A r \in Apart : regs[r] = Own(cur)[r]
  BY CallTop
<1>2. ip'[1] = R /\ ip'[2] = i /\ ip'[1] \notin Traps /\ ip'[1] # "switch_to"
  BY DEF Traps, Common, Devices
<1>3. Stacks' /\ Sleeping'
  BY <1>1, StacksStay
<1>4. ifl' = TRUE \/ (ifl' = FALSE /\ R = "syscall" /\ i > 23)
  BY <1>1
<1>5. Called(Caller, Context', stack'[onstk])
  <2> DEFINE a == Context'
             u == stack'[onstk]
             c == Caller
             n == CallSaved(R, i)
  <2>1. /\ a.ip = <<R, i>> /\ a.ip[1] = R /\ a.ip[2] = i /\ a.ifl = ifl' /\ a.onstk = onstk
        /\ a.height = Len(u) /\ a.regs = regs'
    BY <1>1 DEF Context
  <2>2. c.ip = TaskCode /\ c.onstk = onstk /\ c.regs = Own(cur) /\ cur = onstk
    BY <1>1
  <2>3. /\ \A m \in 1 .. n : u[m] = c.regs[SwitchRegs[m]]
        /\ \A r \in Apart : a.regs[r] = c.regs[r]
    BY <1>1, <2>1, <2>2
  <2>4. R = "invalid" \/ i <= 14 =>
          /\ a.regs["rcx"] = <<c.onstk, "rip">> /\ a.regs["r11"] = <<c.onstk, "rflags">>
          /\ \A r \in Scratch \ {"rax", "rcx", "r11"} : a.regs[r] = c.regs[r]
    <3> SUFFICES ASSUME R = "invalid" \/ i <= 14
                 PROVE  /\ regs'["rcx"] = <<cur, "rip">> /\ regs'["r11"] = <<cur, "rflags">>
                        /\ \A r \in Scratch \ {"rax", "rcx", "r11"} : regs'[r] = Own(cur)[r]
      BY <2>1, <2>2
    <3>1. /\ regs["rcx"] = <<cur, "rip">> /\ regs["r11"] = <<cur, "rflags">>
          /\ \A r \in Scratch \ {"rax", "rcx", "r11"} : regs[r] = Own(cur)[r]
      BY <1>1
    <3>2. \A r \in Scratch \ {"rax"} : regs'[r] = regs[r]
      OBVIOUS
    <3>3. "rcx" \in Scratch \ {"rax"} /\ "r11" \in Scratch \ {"rax"}
      BY SwitchRegFacts
    <3> QED
      BY <3>1, <3>2, <3>3
  <2>5. R = "syscall" /\ i > 23 => a.regs["rcx"] = Junk
    BY <2>1
  <2>6. a.height = CallWords(R, i) /\ (a.ifl = TRUE \/ (a.ifl = FALSE /\ R = "syscall" /\ i > 23))
    BY <1>4, <2>1
  <2> HIDE DEF a, u, c, n
  <2>7. Called(c, a, u)
    BY <2>1, <2>2, <2>3, <2>4, <2>5, <2>6, Zenon DEF Called, n
  <2> QED
    BY <2>7 DEF a, c, u
<1>6. Activation(Caller, Context', stack'[onstk])
  BY <1>5 DEF Activation
<1>7. cur' = onstk' /\ phase' = "run" /\ ~ Leaving(Context')
  BY <1>1, <1>2 DEF Leaving, Context
<1>8. /\ Caller.height <= Len(stack'[onstk])
      /\ \A k \in 1 .. Caller.height : stack'[onstk][k] = stack[onstk][k]
  BY <1>1 DEF IsSeq
<1> QED
  BY <1>1, <1>2, <1>3, <1>6, <1>7, <1>8, SecondStays

\* A system call's instructions by their names.
LEMMA CallOps ==
  ASSUME NEW R \in {"syscall", "invalid"}, NEW i \in 1 .. CallLast(R), NEW op, op = Code[R][i]
  PROVE  /\ op[1] \in {"push", "checknr", "mov", "load", "enosys", "call", "drop", "pop", "sysretq"}
         /\ op[1] = "push" => /\ R = "syscall" /\ i <= 13
                              /\ IF i <= 6 THEN op[2] = SwitchRegs[i] ELSE op[2] \in Scratch
         /\ op[1] = "checknr" => R = "syscall" /\ i = 14
         /\ op[1] \in {"mov", "load"} =>
              R = "syscall" /\ 15 <= i /\ i <= 22 /\ op[2] \in Scratch
         /\ op[1] = "enosys" => R = "invalid" /\ i = 1
         /\ op[1] = "call" => R = "syscall" /\ i = 23 /\ op[2] = "do_syscall"
         /\ op[1] = "drop" => /\ op[2] = 7 /\ CallWords(R, i) = 13 /\ CallWords(R, i + 1) = 6
                              /\ i + 1 \in 1 .. CallLast(R) /\ (R = "syscall" => i > 23)
         /\ op[1] = "pop" => /\ CallWords(R, i) \in 1 .. 6 /\ op[2] = SwitchRegs[CallWords(R, i)]
                             /\ CallWords(R, i + 1) = CallWords(R, i) - 1
                             /\ i + 1 \in 1 .. CallLast(R) /\ (R = "syscall" => i > 23)
         /\ op[1] = "sysretq" => CallWords(R, i) = 0 /\ (R = "syscall" => i > 23)
<1>1. CASE R = "syscall"
  <2>1. i \in 1 .. 31
    BY <1>1 DEF CallLast
  <2>2. CallOp(op, i)
    BY <1>1, <2>1, CallCode
  <2> QED
    BY <1>1, <2>1, <2>2 DEF CallOp, CallWords, CallLast
<1>2. CASE R = "invalid"
  <2>1. i \in 1 .. 9
    BY <1>2 DEF CallLast
  <2>2. InvalidOp(op, i)
    BY <1>2, <2>1, InvalidCode
  <2> QED
    BY <1>2, <2>1, <2>2 DEF InvalidOp, CallWords, CallLast
<1> QED
  BY <1>1, <1>2

LEMMA CallAt ==
  ASSUME Inv, phase = "run", ip # TaskCode, ip[1] \in {"syscall", "invalid"}
  PROVE  ip[2] \in 1 .. CallLast(ip[1]) /\ Op = Code[ip[1]][ip[2]]
BY CallTop DEF CallLast, Op

LEMMA CallPush ==
  ASSUME Inv, Push, ip[1] \in {"syscall", "invalid"}
  PROVE  Inv'
<1> DEFINE i == ip[2]
           st == stack[onstk]
           u == stack'[onstk]
           w == regs[Op[2]]
           j == i + 1
           S == "syscall"
<1>1. /\ phase = "run" /\ ip # TaskCode /\ Op[1] = "push" /\ Advance
      /\ PushOn(<<w>>) /\ ifl' = ifl
      /\ regs' = IF Op[2] \in Segments THEN [regs EXCEPT !["rax"] = regs[Op[2]]] ELSE regs
      /\ onstk' = onstk /\ cur' = cur /\ phase' = phase
      /\ thread_sp' = thread_sp /\ insvc' = insvc /\ ctx' = ctx
  BY DEF Push, At
<1>2. /\ ip[1] = S /\ i <= 13 /\ i \in 1 .. 31
      /\ IF i <= 6 THEN Op[2] = SwitchRegs[i] ELSE Op[2] \in Scratch
  <2> DEFINE R == ip[1]
             op == Op
  <2>1. R \in {"syscall", "invalid"} /\ i \in 1 .. CallLast(R) /\ op = Code[R][i] /\ op[1] = "push"
    BY <1>1, CallAt
  <2> HIDE DEF R, i, op
  <2>2. R = "syscall" /\ i <= 13 /\ IF i <= 6 THEN op[2] = SwitchRegs[i] ELSE op[2] \in Scratch
    BY <2>1, CallOps
  <2>3. i \in 1 .. 31
    BY <2>1, <2>2 DEF CallLast
  <2> QED
    BY <2>2, <2>3 DEF R, op
<1>3. /\ \A m \in 1 .. CallSaved(ip[1], i) : st[m] = Own(cur)[SwitchRegs[m]]
      /\ \A r \in Apart : regs[r] = Own(cur)[r]
      /\ IsRegs(regs) /\ Len(st) = CallWords(ip[1], i)
  BY <1>1, CallTop
<1>4. ip' = <<S, j>>
  BY <1>1, <1>2 DEF Advance
<1>5. Op[2] \notin Segments
  BY <1>2, SwitchRegFacts
<1>6. regs' = regs
  BY <1>1, <1>5
<1> HIDE DEF w
<1>7. IsPush(u, st, w) /\ stack' = [stack EXCEPT ![onstk] = stack'[onstk]]
  BY <1>1, StackPush
<1> HIDE DEF i, st, u
<1>8. /\ CallWords(S, i) = i - 1 /\ CallWords(S, j) = i /\ i \in 1 .. 13
      /\ CallSaved(S, i) = (IF i <= 6 THEN i - 1 ELSE 6)
      /\ CallSaved(S, j) = (IF i <= 6 THEN i ELSE 6)
  BY <1>2 DEF CallWords, CallSaved
<1>9. Len(u) = CallWords(S, j) /\ IsSeq(u) /\ \A k \in 1 .. i - 1 : u[k] = st[k]
  BY <1>2, <1>3, <1>7, <1>8 DEF IsPush
<1>10. ASSUME NEW m \in 1 .. CallSaved(S, j) PROVE u[m] = Own(cur)[SwitchRegs[m]]
  <2>1. CASE m \in 1 .. CallSaved(S, i)
    <3>1. m \in 1 .. i - 1 /\ ip[1] = S
      BY <1>2, <1>8, <2>1
    <3> QED
      BY <1>3, <1>9, <2>1, <3>1
  <2>2. CASE m \notin 1 .. CallSaved(S, i)
    <3>1. m = i /\ i <= 6
      BY <1>8, <2>2
    <3>2. Op[2] = SwitchRegs[i] /\ SwitchRegs[i] \in Apart
      BY <1>2, <1>8, <3>1, SwitchRegFacts
    <3>3. w = Own(cur)[SwitchRegs[i]]
      BY <1>3, <3>2 DEF w
    <3>4. u[i] = w
      <4>1. Len(st) + 1 = i
        BY <1>2, <1>3, <1>8
      <4> QED
        BY <1>7, <4>1 DEF IsPush
    <3> QED
      BY <3>1, <3>3, <3>4
  <2> QED
    BY <2>1, <2>2
<1>12. /\ S \in {"syscall", "invalid"} /\ j \in 1 .. CallLast(S)
       /\ (S = "syscall" /\ j > 23 => regs'["rcx"] = Junk) /\ ip[2] <= 14 /\ ~(ip[2] > 23)
  BY <1>2, <1>8 DEF i, CallLast
<1>13. /\ phase = "run" /\ ip # TaskCode /\ IsRegs(regs')
       /\ (\A m \in 1 .. CallSaved(S, j) : stack'[onstk][m] = Own(cur)[SwitchRegs[m]])
       /\ Len(stack'[onstk]) = CallWords(S, j) /\ IsSeq(stack'[onstk])
       /\ \A r \in Scratch \ {"rax"} : regs'[r] = regs[r]
  BY <1>1, <1>3, <1>6, <1>9, <1>10 DEF u
<1> HIDE DEF j, S
<1> QED
  BY <1>1, <1>4, <1>6, <1>7, <1>12, <1>13, CallAdvance

LEMMA CallPop ==
  ASSUME Inv, Pop, ip[1] \in {"syscall", "invalid"}
  PROVE  Inv'
<1> DEFINE R == ip[1]
           i == ip[2]
           st == stack[onstk]
           u == stack'[onstk]
           n == CallWords(R, i)
           j == i + 1
<1>1. /\ phase = "run" /\ ip # TaskCode /\ Op[1] = "pop" /\ Advance
      /\ DropTop(1) /\ ifl' = ifl /\ onstk' = onstk /\ cur' = cur /\ phase' = phase
      /\ thread_sp' = thread_sp /\ insvc' = insvc /\ ctx' = ctx
      /\ regs' = [r \in Regs |-> IF r = Op[2] \/ (r = "rax" /\ Op[2] \in Segments)
                                 THEN Top ELSE regs[r]]
  BY DEF Pop, At
<1>2. /\ R \in {"syscall", "invalid"} /\ i \in 1 .. CallLast(R) /\ n \in 1 .. 6
      /\ Op[2] = SwitchRegs[n] /\ CallWords(R, j) = n - 1 /\ j \in 1 .. CallLast(R)
      /\ (R = "syscall" => i > 23)
  <2> DEFINE op == Op
  <2>1. R \in {"syscall", "invalid"} /\ i \in 1 .. CallLast(R) /\ op = Code[R][i] /\ op[1] = "pop"
    BY <1>1, CallAt
  <2> HIDE DEF R, i, op
  <2> QED
    BY <2>1, CallOps DEF op
<1>3. /\ \A m \in 1 .. CallSaved(R, i) : st[m] = Own(cur)[SwitchRegs[m]]
      /\ \A r \in Apart : regs[r] = Own(cur)[r]
      /\ IsRegs(regs)
      /\ Len(st) = n /\ (R = "syscall" /\ i > 23 => regs["rcx"] = Junk)
  BY <1>1, CallTop
<1>4. ip' = <<R, j>>
  BY <1>1 DEF Advance
<1>5. Top = st[Len(st)]
  BY DEF Top, Last
<1>6. IsDrop(u, st, 1) /\ stack' = [stack EXCEPT ![onstk] = stack'[onstk]]
  <2>1. 1 \in 0 .. Len(stack[onstk])
    BY <1>2, <1>3
  <2> QED
    BY <1>1, <2>1, StackDrop
<1> HIDE DEF R, i, st, u
<1>8. CallSaved(R, i) = n /\ CallSaved(R, j) = n - 1
  BY <1>2 DEF CallSaved
<1> HIDE DEF n
<1>9. /\ \A r \in Regs \ {SwitchRegs[n]} : regs'[r] = regs[r]
      /\ regs'[SwitchRegs[n]] = st[Len(st)] /\ IsRegs(regs')
      /\ \A r \in Scratch : regs'[r] = regs[r]
  <2>1. SwitchRegs[n] \in Regs /\ SwitchRegs[n] \notin Segments /\ SwitchRegs[n] \notin Scratch
    BY <1>2, SwitchRegFacts
  <2>2. \A r \in Scratch : r \in Regs \ {SwitchRegs[n]}
    BY <2>1, SwitchRegFacts
  <2>3. \A r \in Regs \ {SwitchRegs[n]} : regs'[r] = regs[r]
    BY <1>1, <1>2, <2>1
  <2>4. regs'[SwitchRegs[n]] = st[Len(st)] /\ IsRegs(regs')
    BY <1>1, <1>2, <1>5, <2>1 DEF IsRegs
  <2> QED
    BY <2>2, <2>3, <2>4
<1>10. /\ \A m \in 1 .. CallSaved(R, j) : u[m] = Own(cur)[SwitchRegs[m]]
       /\ \A r \in Apart : regs'[r] = regs[r]
  <2>1. \A m \in 1 .. n - 1 : m \in 1 .. n /\ u[m] = st[m]
    BY <1>2, <1>3, <1>6 DEF IsDrop
  <2>2. regs'[SwitchRegs[n]] = regs[SwitchRegs[n]]
    <3>1. n \in 1 .. n /\ SwitchRegs[n] \in Apart /\ Len(st) = n
      BY <1>2, <1>3, SwitchRegFacts
    <3> QED
      BY <1>3, <1>8, <1>9, <3>1
  <2>3. \A r \in Apart : r \in Regs
    BY SwitchRegFacts
  <2> QED
    BY <1>3, <1>8, <1>9, <2>1, <2>2, <2>3
<1>11. Len(u) = CallWords(R, j) /\ IsSeq(u)
  BY <1>2, <1>3, <1>6 DEF IsDrop
<1>12. /\ j \in 1 .. CallLast(R) /\ (R = "syscall" => j > 23)
       /\ (R = "syscall" => ~(j <= 14))
       /\ (R = "syscall" => regs'["rcx"] = Junk)
  <2>1. j \in 1 .. CallLast(R) /\ (R = "syscall" => j > 23 /\ ~(j <= 14))
    BY <1>2 DEF CallLast
  <2>2. R = "syscall" => regs'["rcx"] = Junk
    BY <1>2, <1>3, <1>9, SwitchRegFacts
  <2> QED
    BY <2>1, <2>2
<1>13. /\ (R = "invalid" \/ j <= 14 => \A r \in Scratch \ {"rax"} : regs'[r] = regs[r])
       /\ (R = "invalid" \/ j <= 14 => R = "invalid")
       /\ (R = "syscall" /\ j > 23 => regs'["rcx"] = Junk)
  BY <1>1, <1>2, <1>9, <1>12
<1>14. /\ phase = "run" /\ ip # TaskCode /\ IsRegs(regs') /\ ifl' = ifl /\ phase' = phase
       /\ ctx' = ctx /\ onstk' = onstk /\ cur' = cur /\ thread_sp' = thread_sp
       /\ insvc' = insvc
  BY <1>1, <1>9
<1>15. /\ R = "invalid" \/ j <= 14 => ip[1] = "invalid" \/ ip[2] <= 14
       /\ ip[1] = "syscall" /\ ip[2] > 23 => R = "syscall" /\ j > 23
  BY <1>12, <1>13 DEF R
<1> HIDE DEF j
<1> QED
  BY <1>2, <1>4, <1>6, <1>10, <1>11, <1>12, <1>13, <1>14, <1>15, CallAdvance DEF u

LEMMA CallDrop ==
  ASSUME Inv, Drop, ip[1] \in {"syscall", "invalid"}
  PROVE  Inv'
<1> DEFINE R == ip[1]
           i == ip[2]
           st == stack[onstk]
           u == stack'[onstk]
           j == i + 1
<1>1. /\ phase = "run" /\ ip # TaskCode /\ Op[1] = "drop" /\ Advance
      /\ DropTop(Op[2]) /\ ifl' = ifl /\ onstk' = onstk /\ cur' = cur /\ phase' = phase
      /\ thread_sp' = thread_sp /\ insvc' = insvc /\ ctx' = ctx
      /\ regs' = regs
  BY DEF Drop, At
<1>2. /\ R \in {"syscall", "invalid"} /\ i \in 1 .. CallLast(R) /\ Op[2] = 7
      /\ CallWords(R, i) = 13 /\ CallWords(R, j) = 6 /\ j \in 1 .. CallLast(R)
      /\ (R = "syscall" => i > 23)
  <2> DEFINE op == Op
  <2>1. R \in {"syscall", "invalid"} /\ i \in 1 .. CallLast(R) /\ op = Code[R][i] /\ op[1] = "drop"
    BY <1>1, CallAt
  <2> HIDE DEF R, i, op
  <2> QED
    BY <2>1, CallOps DEF op
<1>3. /\ \A m \in 1 .. CallSaved(R, i) : st[m] = Own(cur)[SwitchRegs[m]]
      /\ IsRegs(regs)
      /\ Len(st) = 13 /\ (R = "syscall" /\ i > 23 => regs["rcx"] = Junk)
  BY <1>1, <1>2, CallTop
<1>4. ip' = <<R, j>>
  BY <1>1 DEF Advance
<1>5. IsDrop(u, st, 7) /\ stack' = [stack EXCEPT ![onstk] = stack'[onstk]]
  <2>1. 7 \in 0 .. Len(stack[onstk])
    BY <1>3
  <2>2. DropTop(7)
    BY <1>1, <1>2
  <2> QED
    BY <2>1, <2>2, StackDrop
<1> HIDE DEF R, i, st, u
<1>7. CallSaved(R, i) = 6 /\ CallSaved(R, j) = 6
  BY <1>2 DEF CallSaved
<1>8. Len(u) = 6 /\ IsSeq(u) /\ \A k \in 1 .. 6 : u[k] = st[k]
  BY <1>3, <1>5 DEF IsDrop
<1>9. \A m \in 1 .. CallSaved(R, j) : u[m] = Own(cur)[SwitchRegs[m]]
  BY <1>3, <1>7, <1>8
<1>10. /\ j \in 1 .. CallLast(R) /\ (R = "syscall" => j > 23 /\ ~(j <= 14))
  BY <1>2 DEF CallLast
<1>11. /\ (R = "invalid" \/ j <= 14 => \A r \in Scratch \ {"rax"} : regs'[r] = regs[r])
       /\ (R = "invalid" \/ j <= 14 => R = "invalid")
       /\ (R = "syscall" /\ j > 23 => regs'["rcx"] = Junk)
  BY <1>1, <1>2, <1>3, <1>10
<1>12. /\ phase = "run" /\ ip # TaskCode /\ IsRegs(regs') /\ ifl' = ifl /\ phase' = phase
       /\ ctx' = ctx /\ onstk' = onstk /\ cur' = cur /\ thread_sp' = thread_sp
       /\ insvc' = insvc /\ Len(u) = CallWords(R, j)
  BY <1>1, <1>2, <1>3, <1>8
<1>13. /\ R = "invalid" \/ j <= 14 => ip[1] = "invalid" \/ ip[2] <= 14
       /\ ip[1] = "syscall" /\ ip[2] > 23 => R = "syscall" /\ j > 23
       /\ \A r \in Apart : regs'[r] = regs[r]
  BY <1>1, <1>10, <1>11 DEF R
<1> HIDE DEF j
<1> QED
  BY <1>2, <1>4, <1>5, <1>8, <1>9, <1>10, <1>11, <1>12, <1>13, CallAdvance DEF u

\* An instruction that writes scratch registers only.
LEMMA CallSame ==
  ASSUME Inv, phase = "run", ip # TaskCode, ip[1] \in {"syscall", "invalid"}, stack' = stack,
         NEW R \in {"syscall", "invalid"}, NEW i \in 1 .. CallLast(R),
         ip' = <<R, i>>, CallWords(R, i) = 13, CallWords(ip[1], ip[2]) = 13, IsRegs(regs'),
         \A r \in Regs \ Scratch : regs'[r] = regs[r],
         R = "invalid" \/ i <= 14 => \A r \in Scratch \ {"rax"} : regs'[r] = regs[r],
         R = "invalid" \/ i <= 14 => ip[1] = "invalid" \/ ip[2] <= 14,
         ip[1] = "syscall" /\ ip[2] > 23 => R = "syscall" /\ i > 23,
         R = "syscall" /\ i > 23 => regs'["rcx"] = Junk,
         ifl' = ifl, phase' = phase, ctx' = ctx, onstk' = onstk, cur' = cur,
         thread_sp' = thread_sp, insvc' = insvc
  PROVE  Inv'
<1> DEFINE u == stack'[onstk]
<1>1. /\ \A m \in 1 .. CallSaved(ip[1], ip[2]) : stack[onstk][m] = Own(cur)[SwitchRegs[m]]
      /\ Len(stack[onstk]) = 13
  BY CallTop
<1>2. CallSaved(ip[1], ip[2]) = 6 /\ CallSaved(R, i) = 6
  BY DEF CallSaved
<1>3. u = stack[onstk] /\ stack' = [stack EXCEPT ![onstk] = stack'[onstk]] /\ IsSeq(stack'[onstk])
  BY StackSame
<1>4. /\ \A m \in 1 .. CallSaved(R, i) : stack'[onstk][m] = Own(cur)[SwitchRegs[m]]
      /\ \A r \in Apart : regs'[r] = regs[r]
  BY <1>1, <1>2, <1>3, SwitchRegFacts
<1>5. Len(stack'[onstk]) = CallWords(R, i)
  BY <1>1, <1>3
<1> QED
  BY <1>3, <1>4, <1>5, CallAdvance

LEMMA StepCheckNr ==
  ASSUME Inv, CheckNr, ip[1] \in {"syscall", "invalid"}
  PROVE  Inv'
<1>1. /\ phase = "run" /\ ip # TaskCode /\ Op[1] = "checknr" /\ stack' = stack
      /\ ifl' = ifl /\ onstk' = onstk /\ cur' = cur /\ phase' = phase
      /\ thread_sp' = thread_sp /\ insvc' = insvc /\ ctx' = ctx
      /\ regs' = regs
      /\ (ip' = <<ip[1], ip[2] + 1>> \/ ip' = <<"invalid", 1>>)
  BY DEF CheckNr, At, Advance
<1>2. ip[1] = "syscall" /\ ip[2] = 14
  <2> DEFINE R == ip[1]
             i == ip[2]
             op == Op
  <2>1. R \in {"syscall", "invalid"} /\ i \in 1 .. CallLast(R) /\ op = Code[R][i] /\ op[1] = "checknr"
    BY <1>1, CallAt
  <2> HIDE DEF R, i, op
  <2>2. R = "syscall" /\ i = 14
    BY <2>1, CallOps
  <2> QED
    BY <2>2 DEF R, i
<1>3. IsRegs(regs) /\ ~(ip[2] > 23)
  BY <1>1, <1>2, CallTop
<1>4. /\ CallWords(ip[1], ip[2]) = 13 /\ CallWords("syscall", 15) = 13
      /\ CallWords("invalid", 1) = 13
  BY <1>2 DEF CallWords
<1>5. CASE ip' = <<"syscall", 15>>
  <2> DEFINE R == "syscall"
             i == 15
  <2>1. R \in {"syscall", "invalid"} /\ i \in 1 .. CallLast(R)
        /\ ~(R = "invalid" \/ i <= 14) /\ ~(R = "syscall" /\ i > 23) /\ ip' = <<R, i>>
        /\ CallWords(R, i) = 13
    BY <1>4, <1>5 DEF CallLast
  <2> HIDE DEF R, i
  <2> QED
    BY <1>1, <1>3, <1>4, <2>1, CallSame
<1>6. CASE ip' = <<"invalid", 1>>
  <2> DEFINE R == "invalid"
             i == 1
  <2>1. R \in {"syscall", "invalid"} /\ i \in 1 .. CallLast(R)
        /\ ip[2] <= 14 /\ ~(R = "syscall" /\ i > 23) /\ ip' = <<R, i>>
        /\ CallWords(R, i) = 13
    BY <1>2, <1>4, <1>6 DEF CallLast
  <2> HIDE DEF R, i
  <2> QED
    BY <1>1, <1>3, <1>4, <2>1, CallSame
<1> QED
  BY <1>1, <1>2, <1>5, <1>6

LEMMA CallAssign ==
  ASSUME Inv, Assign, ip[1] \in {"syscall", "invalid"}
  PROVE  Inv'
<1> DEFINE R == ip[1]
           i == ip[2]
           op == Op
           j == i + 1
<1>1. /\ phase = "run" /\ ip # TaskCode /\ stack' = stack /\ Advance
      /\ ifl' = ifl /\ onstk' = onstk /\ cur' = cur /\ phase' = phase
      /\ thread_sp' = thread_sp /\ insvc' = insvc /\ ctx' = ctx
      /\ op[1] \in {"mov", "load", "kernelsegs", "enosys"}
  BY DEF Assign, At
<1>2. R \in {"syscall", "invalid"} /\ i \in 1 .. CallLast(R) /\ op = Code[R][i] /\ IsRegs(regs)
  BY <1>1, CallAt, CallTop
<1>3. ip' = <<R, j>>
  BY <1>1 DEF Advance
<1>4. \/ op[1] \in {"mov", "load"} /\ R = "syscall" /\ 15 <= i /\ i <= 22 /\ op[2] \in Scratch
      \/ op[1] = "enosys" /\ R = "invalid" /\ i = 1
  <2> HIDE DEF R, i, op
  <2> QED
    BY <1>1, <1>2, CallOps
<1>5. ~(R = "syscall" /\ i > 23)
  <2> HIDE DEF R, i, op
  <2>1. i \in Int
    BY <1>2 DEF CallLast
  <2> QED
    BY <1>4, <2>1
<1>6. /\ IsRegs(regs')
      /\ \A r \in Regs \ Scratch : regs'[r] = regs[r]
      /\ op[1] = "enosys" => \A r \in Scratch \ {"rax"} : regs'[r] = regs[r]
  <2>1. CASE op[1] = "mov"
    <3>1. regs' = [regs EXCEPT ![op[2]] = regs[Op[3]]] /\ op[2] \in Scratch
      BY <1>4, <2>1 DEF Assign, At
    <3> QED
      BY <1>2, <2>1, <3>1 DEF IsRegs
  <2>2. CASE op[1] = "load"
    <3>1. /\ regs' = [regs EXCEPT ![op[2]] = stack[onstk][Len(stack[onstk]) - Op[3]]]
          /\ op[2] \in Scratch
      BY <1>4, <2>2 DEF Assign, At
    <3> QED
      BY <1>2, <2>2, <3>1 DEF IsRegs
  <2>3. CASE op[1] = "enosys"
    <3>1. regs' = [regs EXCEPT !["rax"] = Const("ENOSYS")]
      BY <2>3 DEF Assign, At
    <3> QED
      BY <1>2, <3>1, SwitchRegFacts DEF IsRegs
  <2> QED
    BY <1>4, <2>1, <2>2, <2>3
<1>7. /\ CallWords(R, i) = 13 /\ CallWords(R, j) = 13 /\ ~(R = "syscall" /\ j > 23)
      /\ j \in 1 .. CallLast(R)
      /\ (R = "invalid" \/ j <= 14 => op[1] = "enosys" /\ R = "invalid")
  <2> HIDE DEF R, i, op
  <2>1. CASE R = "invalid" /\ i = 1 /\ op[1] = "enosys"
    BY <2>1 DEF CallWords, CallLast
  <2>2. CASE R = "syscall" /\ 15 <= i /\ i <= 22
    <3>1. i \in Int
      BY <1>2
    <3> QED
      BY <2>2, <3>1 DEF CallWords, CallLast
  <2> QED
    BY <1>4, <2>1, <2>2
<1>8. /\ (R = "invalid" \/ j <= 14 => \A r \in Scratch \ {"rax"} : regs'[r] = regs[r])
      /\ (R = "invalid" \/ j <= 14 => ip[1] = "invalid" \/ ip[2] <= 14)
      /\ CallWords(ip[1], ip[2]) = 13
      /\ (R = "syscall" /\ j > 23 => regs'["rcx"] = Junk)
      /\ (ip[1] = "syscall" /\ ip[2] > 23 => R = "syscall" /\ j > 23)
  BY <1>1, <1>5, <1>6, <1>7
<1> HIDE DEF R, i, op, j
<1> QED
  BY <1>1, <1>2, <1>3, <1>6, <1>7, <1>8, CallSame

LEMMA StepDoSyscall ==
  ASSUME Inv, do_syscall, ip[1] \in {"syscall", "invalid"}
  PROVE  Inv'
<1> DEFINE R == "syscall"
           j == 24
<1>1. /\ phase = "run" /\ ip # TaskCode /\ stack' = stack /\ Advance /\ Op[1] = "call"
      /\ ifl' = ifl /\ onstk' = onstk /\ cur' = cur /\ phase' = phase
      /\ thread_sp' = thread_sp /\ insvc' = insvc /\ ctx' = ctx
      /\ regs' = [r \in Regs |-> IF r \in Scratch THEN Junk ELSE regs[r]]
  BY DEF do_syscall, AtDoSyscall, At
<1>2. ip[1] = "syscall" /\ ip[2] = 23
  <2> DEFINE Q == ip[1]
             i == ip[2]
             op == Op
  <2>1. Q \in {"syscall", "invalid"} /\ i \in 1 .. CallLast(Q) /\ op = Code[Q][i] /\ op[1] = "call"
    BY <1>1, CallAt
  <2> HIDE DEF Q, i, op
  <2>2. Q = "syscall" /\ i = 23
    BY <2>1, CallOps
  <2> QED
    BY <2>2 DEF Q, i
<1>3. ip' = <<R, j>>
  BY <1>1, <1>2 DEF Advance
<1>4. /\ IsRegs(regs') /\ regs'["rcx"] = Junk
      /\ \A r \in Regs \ Scratch : regs'[r] = regs[r]
  <2>1. "rcx" \in Regs /\ "rcx" \in Scratch
    BY SwitchRegFacts
  <2> QED
    BY <1>1, <2>1 DEF IsRegs
<1>5. /\ R \in {"syscall", "invalid"} /\ j \in 1 .. CallLast(R)
      /\ ~(R = "invalid" \/ j <= 14) /\ R = "syscall" /\ j > 23
      /\ CallWords(R, j) = 13 /\ CallWords(ip[1], ip[2]) = 13
  BY <1>2 DEF CallWords, CallLast
<1> HIDE DEF R, j
<1> QED
  BY <1>1, <1>3, <1>4, <1>5, CallSame

-------------------------------------------------------------------------------
(* The task's own code again *)

\* What switch_to leaves on the stack of a task.
LEMMA FrameFacts ==
  ASSUME NEW t, NEW at
  PROVE  /\ IsSeq(SwitchFrame(t, at)) /\ Len(SwitchFrame(t, at)) = 8
         /\ SwitchFrame(t, at)[1] = ReturnWord(t, at, TRUE)
         /\ \A m \in 1 .. 6 : SwitchFrame(t, at)[1 + m] = <<t, SwitchRegs[m]>>
         /\ SwitchFrame(t, at)[8] = <<"flags", FALSE>>
<1> DEFINE w == ReturnWord(t, at, TRUE)
           a == <<w>>
           b == [i \in DOMAIN SwitchRegs |-> <<t, SwitchRegs[i]>>]
           c == << <<"flags", FALSE>> >>
           ab == a \o b
<1>1. IsSeq(a) /\ Len(a) = 1 /\ IsSeq(c) /\ Len(c) = 1
  BY Literals
<1>2. a[1] = w /\ c[1] = <<"flags", FALSE>>
  OBVIOUS
<1>3. IsSeq(b) /\ Len(b) = 6 /\ \A m \in 1 .. 6 : b[m] = <<t, SwitchRegs[m]>>
  <2>1. DOMAIN SwitchRegs = 1 .. 6
    BY SwitchFacts DEF IsSeq
  <2> QED
    BY <2>1 DEF IsSeq
<1> HIDE DEF a, b, c, w
<1>4. IsCat(ab, a, 1, b, 6)
  BY <1>1, <1>3, CatLens
<1>5. IsSeq(ab) /\ Len(ab) = 7 /\ ab[1] = a[1] /\ \A m \in 1 .. 6 : ab[1 + m] = b[m]
  BY <1>4 DEF IsCat
<1> HIDE DEF ab
<1>6. IsCat(ab \o c, ab, 7, c, 1)
  BY <1>1, <1>5, CatLens
<1> DEFINE f == ab \o c
<1> HIDE DEF f
<1>7. /\ IsSeq(f) /\ Len(f) = 8 /\ f[1] = ab[1] /\ f[8] = c[1]
      /\ \A m \in 1 .. 6 : f[1 + m] = ab[1 + m]
  <2>1. IsCat(f, ab, 7, c, 1)
    BY <1>6 DEF f
  <2>2. IsSeq(f) /\ Len(f) = 8 /\ \A i \in 1 .. 7 : f[i] = ab[i]
    BY <2>1 DEF IsCat
  <2>3. f[8] = c[1]
    <3>1. f[7 + 1] = c[1]
      BY <2>1 DEF IsCat
    <3> QED
      BY <3>1
  <2> QED
    BY <2>2, <2>3
<1>8. SwitchFrame(t, at) = f
  BY DEF SwitchFrame, f, ab, a, b, c, w
<1> QED
  BY <1>2, <1>3, <1>5, <1>7, <1>8 DEF w

LEMMA FrameIs ==
  ASSUME NEW f, NEW st, NEW h \in Nat, st[h + 1] = f[1], st[h + 8] = f[8],
         \A m \in 1 .. 6 : st[h + 1 + m] = f[1 + m]
  PROVE  \A i \in 1 .. 8 : st[h + i] = f[i]
<1> TAKE i \in 1 .. 8
<1>1. i = 1 \/ i = 8 \/ (i - 1 \in 1 .. 6 /\ 1 + (i - 1) = i /\ h + 1 + (i - 1) = h + i)
  OBVIOUS
<1>2. CASE i - 1 \in 1 .. 6 /\ 1 + (i - 1) = i /\ h + 1 + (i - 1) = h + i
  <2> DEFINE m == i - 1
  <2>1. m \in 1 .. 6 /\ 1 + m = i /\ h + 1 + m = h + i
    BY <1>2
  <2> HIDE DEF m
  <2> QED
    BY <2>1
<1> QED
  BY <1>1, <1>2

\* Where schedule returns to.
LEMMA ReturnWords ==
  ASSUME NEW t
  PROVE  /\ ReturnWord(t, TaskCode, TRUE) = <<"ret", t, TaskCode, TRUE>>
         /\ ReturnWord(t, DoSyscall, TRUE) = <<"ret", t, <<"syscall", 24>>, FALSE>>
         /\ Resume(TaskCode) = TaskCode /\ Resume(DoSyscall) = <<"syscall", 24>>
         /\ DoSyscall # TaskCode
<1>1. DoSyscall # TaskCode /\ DoSyscall[1] = "syscall" /\ DoSyscall[2] + 1 = 24
  BY DEF DoSyscall, TaskCode
<1>2. Resume(TaskCode) = TaskCode /\ Resume(DoSyscall) = <<"syscall", 24>>
  BY <1>1 DEF Resume
<1> QED
  BY <1>1, <1>2 DEF ReturnWord

\* One level only.
LEMMA NestedTask ==
  ASSUME NEW L, NEW st, IsSeq(L), Len(L) = 1, IsLevel(L[1]), TaskLevel(L[1])
  PROVE  Nested(L, st) /\ InService(L) = {}
<1>1. \A k \in 1 .. Len(L) : L[k] = L[1]
  OBVIOUS
<1>2. L[1].height \in Nat
  BY DEF IsLevel
<1>3. \A j, k \in 1 .. Len(L) : L[j].height <= L[k].height
  BY <1>1, <1>2
<1>4. ~ \E k \in 1 .. Len(L) - 1 : TRUE
  OBVIOUS
<1>5. Nested(L, st)
  BY <1>1, <1>3, <1>4 DEF Nested
<1>6. InService(L) = {}
  BY DEF InService
<1> QED
  BY <1>5, <1>6

LEMMA OneLevel ==
  ASSUME NEW x
  PROVE  IsSeq(Append(<< >>, x)) /\ Len(Append(<< >>, x)) = 1 /\ Append(<< >>, x)[1] = x
<1> DEFINE L == Append(<< >>, x)
<1>1. IsSeq(<< >>) /\ Len(<< >>) = 0
  BY Literals
<1>2. IsSeq(L) /\ Len(L) = Len(<< >>) + 1 /\ L[Len(<< >>) + 1] = x
  BY <1>1, AppendFacts
<1> QED
  BY <1>1, <1>2

\* What the last instruction before a task's own code has to leave.
LEMMA ToTask ==
  ASSUME Ctx' = << >>, IsLevel(Context'), TaskLevel(Context'), cur' = onstk', insvc' = {},
         Stacks', Sleeping'
  PROVE  Inv'
<1> DEFINE x == Context'
           L == Append(<< >>, x)
           st == stack'[onstk']
<1>1. Levels' = L /\ x.ip = TaskCode
  BY DEF Levels, TaskLevel
<1>2. IsSeq(L) /\ Len(L) = 1 /\ L[1] = x /\ IsLevel(x) /\ TaskLevel(x)
  BY OneLevel
<1> HIDE DEF x, st, L
<1>3. Nested(L, st) /\ InService(L) = {}
  BY <1>2, NestedTask
<1>4. Nested(Levels', stack'[onstk']) /\ InService(Levels') = {}
  BY <1>1, <1>3 DEF st
<1>5. \A k \in 1 .. Len(Levels') : ~ Leaving(Levels'[k])
  BY <1>1, <1>2 DEF Leaving, TaskCode
<1>6. Turn'
  BY <1>5 DEF Turn, Leaving
<1>7. Service'
  BY <1>4 DEF Service
<1> QED
  BY <1>4, <1>6, <1>7 DEF Inv, Running

LEMMA NoWords ==
  ASSUME NEW s, IsSeq(s), Len(s) = 0
  PROVE  s = << >>
BY Literals, SeqSame

LEMMA StepInit ==
  ASSUME Init
  PROVE  Inv
<1>1. /\ cur \in Tasks /\ onstk = cur /\ regs = Own(cur) /\ ip = TaskCode /\ ifl = TRUE
      /\ insvc = {}
      /\ stack = [t \in Tasks |-> IF t = cur THEN << >> ELSE SwitchFrame(t, TaskCode)]
      /\ thread_sp = [t \in Tasks |-> Len(stack[t])]
      /\ ctx = [t \in Tasks |-> IF t = cur THEN << >> ELSE <<TaskContext(t)>>]
  BY DEF Init
<1>2. IsSeq(<< >>) /\ Len(<< >>) = 0 /\ \A x : IsSeq(<<x>>) /\ Len(<<x>>) = 1
  BY Literals
<1>3. \A t : IsSeq(SwitchFrame(t, TaskCode)) /\ Len(SwitchFrame(t, TaskCode)) = 8
  BY FrameFacts
<1>4. Stacks
  BY <1>1, <1>2, <1>3 DEF Stacks
<1>5. ASSUME NEW t \in Tasks
      PROVE  /\ TaskLevel(TaskContext(t)) /\ IsLevel(TaskContext(t))
             /\ TaskContext(t).ip = TaskCode /\ TaskContext(t).onstk = t /\ TaskContext(t).height = 0
  BY OwnFacts DEF TaskContext, TaskLevel, IsLevel
<1>6. Sleeping
  <2> SUFFICES ASSUME NEW t \in Tasks \ {onstk}
               PROVE  Nested(ctx[t], stack[t]) /\ Framed(t, ctx[t][Len(ctx[t])])
    BY DEF Sleeping
  <2> DEFINE x == TaskContext(t)
             L == ctx[t]
             st == stack[t]
             f == SwitchFrame(t, TaskCode)
  <2>1. L = <<x>> /\ st = f /\ thread_sp[t] = 8 /\ Len(st) = 8
    BY <1>1, <1>3
  <2>2. IsLevel(x) /\ TaskLevel(x) /\ x.ip = TaskCode /\ x.onstk = t /\ x.height = 0
    BY <1>5
  <2> HIDE DEF x, L, st, f
  <2>3. IsSeq(L) /\ Len(L) = 1 /\ L[1] = x
    BY <1>2, <2>1
  <2>4. Nested(L, st)
    BY <2>2, <2>3, NestedTask
  <2>5. Framed(t, x)
    <3>1. \A i \in 1 .. 8 : stack[t][0 + i] = SwitchFrame(t, TaskCode)[i]
      BY <2>1 DEF st, f
    <3> QED
      BY <2>1, <2>2, <3>1 DEF Framed, st
  <2>6. Framed(t, L[Len(L)])
    BY <2>3, <2>5
  <2> QED
    BY <2>4, <2>6 DEF L, st
<1>7. Running
  <2> DEFINE x == Context
             L == Append(<< >>, x)
             st == stack[onstk]
  <2>1. Ctx = << >> /\ stack[onstk] = << >>
    BY <1>1 DEF Ctx
  <2>2. TaskLevel(x) /\ IsLevel(x) /\ x.ip = TaskCode
    <3>1. Context = TaskContext(cur)
      BY <1>1, <1>2, <2>1 DEF Context, TaskContext
    <3> QED
      BY <1>1, <1>5, <3>1
  <2>3. Levels = L
    BY <2>1 DEF Levels
  <2>4. IsSeq(L) /\ Len(L) = 1 /\ L[1] = x
    BY OneLevel
  <2> HIDE DEF x, L, st
  <2>5. Nested(L, st) /\ InService(L) = {}
    BY <2>2, <2>4, NestedTask
  <2>6. \A k \in 1 .. Len(Levels) : ~ Leaving(Levels[k])
    BY <2>2, <2>3, <2>4 DEF Leaving, TaskCode
  <2>7. Nested(Levels, stack[onstk]) /\ Service
    BY <1>1, <2>3, <2>5 DEF Service, st
  <2> QED
    BY <1>1, <2>6, <2>7 DEF Running, Turn
<1> QED
  BY <1>4, <1>6, <1>7 DEF Inv

LEMMA JunkIsNone ==
  ASSUME NEW x, NEW y
  PROVE  Junk # <<x, y>>
<1>1. Len(Junk) = 1 /\ Len(<<x, y>>) = 2
  BY DEF Junk
<1> QED
  BY <1>1

\* sysretq finds the stack as it was and, after a rejected call, its registers.
LEMMA StepSysretq ==
  ASSUME Inv, Sysretq, ip[1] \in {"syscall", "invalid"}
  PROVE  /\ Inv' /\ \A r \in CalleeSaved : regs[r] = <<cur, r>>
         /\ stack[onstk] = << >> /\ (ip[1] = "invalid" => phase' = "run")
<1>1. /\ phase = "run" /\ ip # TaskCode /\ Op[1] = "sysretq" /\ stack' = stack
      /\ ifl' = ifl /\ onstk' = onstk /\ cur' = cur /\ thread_sp' = thread_sp /\ insvc' = insvc
  BY DEF Sysretq, At
<1>2. CallWords(ip[1], ip[2]) = 0 /\ (ip[1] = "syscall" => ip[2] > 23)
  <2> DEFINE R == ip[1]
             i == ip[2]
             op == Op
  <2>1. R \in {"syscall", "invalid"} /\ i \in 1 .. CallLast(R) /\ op = Code[R][i] /\ op[1] = "sysretq"
    BY <1>1, CallAt
  <2> HIDE DEF R, i, op
  <2>2. CallWords(R, i) = 0 /\ (R = "syscall" => i > 23)
    BY <2>1, CallOps
  <2> QED
    BY <2>2 DEF R, i
<1>3. /\ \A r \in Apart : regs[r] = Own(cur)[r]
      /\ Len(stack[onstk]) = 0 /\ IsSeq(stack[onstk]) /\ cur = onstk /\ cur \in Tasks
      /\ ip[1] = "invalid" => ifl = TRUE
      /\ ip[1] = "invalid" =>
           /\ regs["rcx"] = <<cur, "rip">> /\ regs["r11"] = <<cur, "rflags">>
           /\ \A r \in Scratch \ {"rax", "rcx", "r11"} : regs[r] = Own(cur)[r]
      /\ ip[1] = "syscall" => regs["rcx"] = Junk
      /\ ip[1] \notin Traps /\ Len(Ctx) = 1
  BY <1>1, <1>2, CallTop
<1>4. stack[onstk] = << >>
  BY <1>3, NoWords
<1>6. \A r \in CalleeSaved : regs[r] = <<cur, r>>
  BY <1>3, OwnFacts DEF Apart
<1>7. CASE ip[1] = "syscall"
  <2>1. regs["rcx"] # <<cur, "rip">>
    BY <1>3, <1>7, JunkIsNone
  <2>2. phase' # "run" /\ ctx' = ctx
    BY <2>1 DEF Sysretq
  <2>3. Inv'
    BY <1>1, <2>2, KernelStops
  <2> QED
    BY <1>4, <1>6, <1>7, <2>3
<1>8. CASE ip[1] = "invalid"
  <2>1. /\ ip' = TaskCode /\ Unnest /\ phase' = phase
        /\ regs' = [r \in Regs |-> IF r \in {"rax", "rcx", "r11"} THEN <<cur, r>> ELSE regs[r]]
    BY <1>3, <1>8 DEF Sysretq
  <2>2. Ctx' = << >> /\ ctx' = [ctx EXCEPT ![onstk] = ctx'[onstk]] /\ IsSeq(ctx'[onstk])
    <3>1. IsSeq(Ctx) /\ Len(Ctx) = 1
      BY <1>1, <1>3, SecondTop
    <3>2. IsSeq(Front(Ctx)) /\ Len(Front(Ctx)) = 0
      BY <3>1, FrontFacts
    <3>3. Ctx' = Front(Ctx) /\ ctx' = [ctx EXCEPT ![onstk] = ctx'[onstk]]
      BY <1>1, <2>1, CtxPop
    <3>4. ctx'[onstk] = Ctx'
      BY <1>1 DEF Ctx
    <3> QED
      BY <3>2, <3>3, <3>4, NoWords
  <2>3. regs' = Own(cur)
    <3>1. \A r \in Regs : regs'[r] = Own(cur)[r]
      <4> SUFFICES ASSUME NEW r \in Regs
                   PROVE  regs'[r] = Own(cur)[r]
        OBVIOUS
      <4>1. CASE r \in {"rax", "rcx", "r11"}
        BY <2>1, <4>1, SwitchRegFacts, OwnFacts
      <4>2. CASE r \in Scratch \ {"rax", "rcx", "r11"}
        BY <1>3, <1>8, <2>1, <4>2
      <4>3. CASE r \in Apart /\ r \notin {"rax", "rcx", "r11"}
        BY <1>3, <2>1, <4>3
      <4> QED
        BY <4>1, <4>2, <4>3, RegSets DEF Apart
    <3>2. IsRegs(regs') /\ IsRegs(Own(cur))
      BY <2>1, OwnFacts DEF IsRegs
    <3> QED
      BY <3>1, <3>2 DEF IsRegs
  <2>4. IsLevel(Context') /\ TaskLevel(Context')
    <3>1. Context' = [regs |-> Own(cur), ip |-> TaskCode, ifl |-> TRUE, height |-> 0, onstk |-> cur]
      BY <1>1, <1>3, <1>8, <2>1, <2>3 DEF Context
    <3> QED
      BY <1>3, <3>1, OwnFacts DEF IsLevel, TaskLevel
  <2>5. Stacks' /\ Sleeping'
    <3>1. stack' = [stack EXCEPT ![onstk] = stack'[onstk]] /\ IsSeq(stack'[onstk])
      BY <1>1, StackSame
    <3>2. cur' \in Tasks
      BY <1>1, <1>3
    <3> QED
      BY <1>1, <2>2, <3>1, <3>2, StacksStay
  <2>6. insvc = {}
    BY <1>1, <1>3, SecondTop
  <2>7. Inv'
    BY <1>1, <1>3, <2>1, <2>2, <2>4, <2>5, <2>6, ToTask
  <2> QED
    BY <1>1, <1>4, <1>6, <2>1, <2>7
<1> QED
  BY <1>7, <1>8

-------------------------------------------------------------------------------
(* What a task calls *)

LEMMA StepSyscall ==
  ASSUME Inv, Syscall
  PROVE  Inv'
<1>1. /\ phase = "run" /\ ip = TaskCode /\ Nest /\ ip' = <<"syscall", 1>>
      /\ regs' = [regs EXCEPT !["rcx"] = <<cur, "rip">>, !["r11"] = <<cur, "rflags">>]
      /\ stack' = stack /\ onstk' = onstk /\ cur' = cur /\ ifl' = ifl /\ thread_sp' = thread_sp
      /\ insvc' = insvc /\ phase' = phase
  BY DEF Syscall, Nest
<1>2. /\ TaskLevel(Context) /\ IsLevel(Context) /\ cur = onstk /\ Len(stack[onstk]) = 0
  BY <1>1, TaskRuns
<1>3. ifl = TRUE /\ IsRegs(regs) /\ onstk \in Tasks
  BY <1>2, ContextFacts DEF TaskLevel, IsLevel
<1>4. /\ IsRegs(regs') /\ regs'["rcx"] = <<cur, "rip">> /\ regs'["r11"] = <<cur, "rflags">>
      /\ \A r \in Regs \ {"rcx", "r11"} : regs'[r] = regs[r]
  <2>1. "rcx" \in Regs /\ "r11" \in Regs
    BY SwitchRegFacts
  <2> QED
    BY <1>1, <1>3, <2>1 DEF IsRegs
<1>5. stack' = [stack EXCEPT ![onstk] = stack'[onstk]] /\ IsSeq(stack'[onstk])
  BY <1>1, StackSame
<1>6. Called(Context, Context', stack'[onstk])
  <2> DEFINE a == Context'
             c == Context
             u == stack'[onstk]
             R == "syscall"
             i == 1
  <2>1. /\ a.ip = <<R, i>> /\ a.ip[1] = R /\ a.ip[2] = i /\ a.ifl = TRUE /\ a.onstk = c.onstk
        /\ a.height = 0 /\ a.regs = regs'
    BY <1>1, <1>2, <1>3 DEF Context
  <2>2. c.ip = TaskCode /\ c.onstk = cur /\ c.regs = regs
    BY <1>1, <1>2 DEF Context
  <2>3. /\ R \in {"syscall", "invalid"} /\ i \in 1 .. CallLast(R)
        /\ CallWords(R, i) = 0 /\ CallSaved(R, i) = 0 /\ ~(i > 23)
    BY DEF CallWords, CallSaved, CallLast
  <2>4. \A r \in Apart : a.regs[r] = c.regs[r]
    BY <1>4, <2>1, <2>2, SwitchRegFacts
  <2>5. /\ a.regs["rcx"] = <<c.onstk, "rip">> /\ a.regs["r11"] = <<c.onstk, "rflags">>
        /\ \A r \in Scratch \ {"rax", "rcx", "r11"} : a.regs[r] = c.regs[r]
    BY <1>4, <2>1, <2>2, SwitchRegFacts
  <2> HIDE DEF a, c, u, R, i
  <2>6. \A m \in 1 .. CallSaved(R, i) : u[m] = c.regs[SwitchRegs[m]]
    BY <2>3
  <2>7. Called(c, a, u)
    BY <2>1, <2>2, <2>3, <2>4, <2>5, <2>6 DEF Called
  <2> QED
    BY <2>7 DEF a, c, u
<1>7. Activation(Context, Context', stack'[onstk])
  BY <1>6 DEF Activation
<1>8. ~ Leaving(Context') /\ cur' \in Tasks /\ phase' = "run"
  BY <1>1, <1>2, <1>3 DEF Leaving, Context
<1>9. insvc' = insvc \cup Pending(ip')
  BY <1>1 DEF Pending, Irqs, Devices
<1>10. /\ Len(stack[onstk]) <= Len(stack'[onstk])
       /\ \A i \in 1 .. Len(stack[onstk]) : stack'[onstk][i] = stack[onstk][i]
  BY <1>1, <1>2
<1> QED
  BY <1>1, <1>4, <1>5, <1>7, <1>8, <1>9, <1>10, Enters

-------------------------------------------------------------------------------
(* switch_to *)

\* switch_to while it runs.
LEMMA SwitchTop ==
  ASSUME Inv, phase = "run", ip # TaskCode, ip[1] = "switch_to"
  PROVE  /\ ip = <<"switch_to", ip[2]>> /\ ip[2] \in 1 .. 17 /\ ifl = FALSE
         /\ IsRegs(regs) /\ IsSeq(stack[onstk]) /\ onstk \in Tasks /\ cur \in Tasks
         /\ Caller.height \in Nat /\ Len(stack[onstk]) = Caller.height + SwitchWords(ip[2])
         /\ stack[onstk][Caller.height + 1] = ReturnWord(onstk, Caller.ip, TRUE)
         /\ ip[2] \in 8 .. 10 => stack[onstk][Caller.height + 8] = <<"flags", FALSE>>
         /\ Kept(stack[onstk], Caller.height + 1, SwitchRegs, SwitchSaved(ip[2]), Apart,
                 Own(onstk), regs)
         /\ IF ip[2] <= 9
            THEN /\ cur # onstk
                 /\ regs["rdi"] = <<"task", onstk>> /\ regs["rsi"] = <<"task", cur>>
                 /\ ip[2] = 9 => thread_sp[onstk] = Len(stack[onstk])
            ELSE cur = onstk
         /\ ip[1] \notin Traps /\ insvc = {} /\ Caller.ip \in {TaskCode, DoSyscall}
         /\ Caller.onstk = onstk /\ SwitchOp(Op, ip[2])
<1>1. ip[1] \notin Traps
  BY DEF Traps, Common, Devices
<1>2. /\ IsRegs(regs) /\ IsSeq(stack[onstk]) /\ onstk \in Tasks /\ cur \in Tasks /\ insvc = {}
      /\ Caller.height \in Nat /\ Activation(Caller, Context, stack[onstk])
      /\ IF Leaving(Context) THEN Goes(Context) ELSE cur = onstk
  BY <1>1, SecondTop
<1>3. Switched(Caller, Context, stack[onstk])
  BY <1>2, ActivationFacts, ContextFacts
<1>4. IF ip[2] <= 9
      THEN /\ cur # onstk
           /\ regs["rdi"] = <<"task", onstk>> /\ regs["rsi"] = <<"task", cur>>
           /\ ip[2] = 9 => thread_sp[onstk] = Len(stack[onstk])
      ELSE cur = onstk
  BY <1>2, ContextFacts DEF Leaving, Goes
<1>5. /\ ip = <<"switch_to", ip[2]>> /\ ip[2] \in 1 .. 17 /\ ifl = FALSE
      /\ Caller.ip \in {TaskCode, DoSyscall} /\ Caller.onstk = onstk
      /\ Len(stack[onstk]) = Caller.height + SwitchWords(ip[2])
      /\ stack[onstk][Caller.height + 1] = ReturnWord(onstk, Caller.ip, TRUE)
      /\ ip[2] \in 8 .. 10 => stack[onstk][Caller.height + 8] = <<"flags", FALSE>>
      /\ Kept(stack[onstk], Caller.height + 1, SwitchRegs, SwitchSaved(ip[2]), Apart,
              Own(onstk), regs)
  <2> DEFINE c == Caller
             a == Context
             st == stack[onstk]
  <2>1. /\ Switched(c, a, st) /\ a.ip = ip /\ a.ifl = ifl /\ a.onstk = onstk
        /\ a.height = Len(st) /\ a.regs = regs
    BY <1>3, ContextFacts
  <2> HIDE DEF c, a, st
  <2>2. /\ ip = <<"switch_to", ip[2]>> /\ ip[2] \in 1 .. 17 /\ ifl = FALSE
        /\ c.ip \in {TaskCode, DoSyscall} /\ c.onstk = onstk
        /\ Len(st) = c.height + SwitchWords(ip[2])
        /\ st[c.height + 1] = ReturnWord(onstk, c.ip, TRUE)
        /\ ip[2] \in 8 .. 10 => st[c.height + 8] = <<"flags", FALSE>>
        /\ Kept(st, c.height + 1, SwitchRegs, SwitchSaved(ip[2]), Apart, Own(onstk), regs)
    BY <2>1, Zenon DEF Switched
  <2> QED
    BY <2>2 DEF c, st
<1>6. SwitchOp(Op, ip[2])
  BY <1>5, SwitchCode DEF Op
<1> QED
  BY <1>1, <1>2, <1>4, <1>5, <1>6

\* What an instruction of switch_to has to leave.
LEMMA SwitchAdvance ==
  ASSUME Inv, phase = "run", ip # TaskCode, ip[1] = "switch_to", NEW i \in 1 .. 17,
         ip' = <<"switch_to", i>>, Len(stack'[onstk]) = Caller.height + SwitchWords(i),
         \A k \in 1 .. Caller.height + 1 : stack'[onstk][k] = stack[onstk][k],
         i \in 8 .. 10 => stack'[onstk][Caller.height + 8] = <<"flags", FALSE>>, IsRegs(regs'),
         Kept(stack'[onstk], Caller.height + 1, SwitchRegs, SwitchSaved(i), Apart, Own(onstk), regs'),
         ifl' = FALSE, phase' = phase, ctx' = ctx, cur' = cur, insvc' = insvc, onstk' = onstk,
         Stacks', Sleeping',
         IF i <= 9
         THEN /\ cur # onstk
              /\ regs'["rdi"] = <<"task", onstk>> /\ regs'["rsi"] = <<"task", cur>>
              /\ i = 9 => thread_sp'[onstk] = Len(stack'[onstk])
         ELSE cur = onstk
  PROVE  Inv'
<1>1. /\ ip[1] \notin Traps /\ Caller.ip \in {TaskCode, DoSyscall} /\ Caller.onstk = onstk
      /\ Caller.height \in Nat /\ stack[onstk][Caller.height + 1] = ReturnWord(onstk, Caller.ip, TRUE)
  BY SwitchTop
<1>2. ip'[1] = "switch_to" /\ ip'[2] = i /\ ip'[1] \notin Traps
  BY DEF Traps, Common, Devices
<1>3. /\ Caller.height <= Len(stack'[onstk])
      /\ \A k \in 1 .. Caller.height : stack'[onstk][k] = stack[onstk][k]
      /\ stack'[onstk][Caller.height + 1] = stack[onstk][Caller.height + 1]
  <2> DEFINE h == Caller.height
  <2>1. h \in Nat /\ SwitchWords(i) \in Nat
    BY <1>1 DEF SwitchWords
  <2> HIDE DEF h
  <2>2. h <= h + SwitchWords(i) /\ h + 1 \in 1 .. h + 1 /\ \A k \in 1 .. h : k \in 1 .. h + 1
    BY <2>1
  <2> QED
    BY <2>2 DEF h
<1>4. Switched(Caller, Context', stack'[onstk])
  <2> DEFINE a == Context'
             u == stack'[onstk]
             c == Caller
             old == Own(onstk)
  <2>1. /\ a.ip = <<"switch_to", i>> /\ a.ip[2] = i /\ a.ifl = FALSE /\ a.onstk = onstk
        /\ a.height = Len(u) /\ a.regs = regs'
    BY DEF Context
  <2>2. /\ c.ip \in {TaskCode, DoSyscall} /\ a.height = c.height + SwitchWords(i)
        /\ u[c.height + 1] = ReturnWord(a.onstk, c.ip, TRUE) /\ c.onstk = a.onstk
        /\ (i \in 8 .. 10 => u[c.height + 8] = <<"flags", FALSE>>) /\ old = Own(a.onstk)
    BY <1>1, <1>3, <2>1
  <2>3. Kept(u, c.height + 1, SwitchRegs, SwitchSaved(i), Apart, old, a.regs)
    BY <2>1
  <2> HIDE DEF a, u, c, old
  <2>4. Switched(c, a, u)
    BY <2>1, <2>2, <2>3, Zenon DEF Switched
  <2> QED
    BY <2>4 DEF a, c, u
<1>5. Activation(Caller, Context', stack'[onstk])
  BY <1>4 DEF Activation
<1>6. IF Leaving(Context') THEN Goes(Context)' ELSE cur' = onstk'
  BY <1>2 DEF Leaving, Goes, Context
<1>7. phase' = "run"
  OBVIOUS
<1> QED
  BY <1>1, <1>2, <1>3, <1>5, <1>6, <1>7, SecondStays

\* Its instructions by their names.
LEMMA SwitchOps ==
  ASSUME NEW i \in 1 .. 17, NEW op, SwitchOp(op, i)
  PROVE  /\ op[1] \in {"push", "pushf", "savesp", "loadsp", "popf", "pop", "ret"}
         /\ op[1] = "push" => i \in 1 .. 6 /\ op[2] = SwitchRegs[i]
         /\ op[1] = "pushf" => i = 7
         /\ op[1] = "savesp" => i = 8
         /\ op[1] = "loadsp" => i = 9
         /\ op[1] = "popf" => i = 10
         /\ op[1] = "pop" => i \in 11 .. 16 /\ op[2] = SwitchRegs[17 - i]
         /\ op[1] = "ret" => i = 17
BY DEF SwitchOp

LEMMA SwitchAt ==
  ASSUME Inv, phase = "run", ip # TaskCode, ip[1] = "switch_to"
  PROVE  /\ Op[1] \in {"push", "pushf", "savesp", "loadsp", "popf", "pop", "ret"}
         /\ Op[1] = "push" => ip[2] \in 1 .. 6 /\ Op[2] = SwitchRegs[ip[2]]
         /\ Op[1] = "pushf" => ip[2] = 7
         /\ Op[1] = "savesp" => ip[2] = 8
         /\ Op[1] = "loadsp" => ip[2] = 9
         /\ Op[1] = "popf" => ip[2] = 10
         /\ Op[1] = "pop" => ip[2] \in 11 .. 16 /\ Op[2] = SwitchRegs[17 - ip[2]]
         /\ Op[1] = "ret" => ip[2] = 17
<1> DEFINE i == ip[2]
           op == Op
<1>1. i \in 1 .. 17 /\ SwitchOp(op, i)
  BY SwitchTop
<1> HIDE DEF i, op
<1> QED
  BY <1>1, SwitchOps DEF i, op

\* An instruction that changes only the stack in use, and no registers that
\* switch_to depends on.
LEMMA SwitchOnStack ==
  ASSUME Inv, phase = "run", ip # TaskCode, ip[1] = "switch_to", NEW i \in 2 .. 17, i # 9, i # 10,
         ip[2] = i - 1, Advance, Len(stack'[onstk]) = Caller.height + SwitchWords(i),
         \A k \in 1 .. Caller.height + 1 : stack'[onstk][k] = stack[onstk][k],
         IsSeq(stack'[onstk]), stack' = [stack EXCEPT ![onstk] = stack'[onstk]],
         i = 8 => stack'[onstk][Caller.height + 8] = <<"flags", FALSE>>, IsRegs(regs'),
         Kept(stack'[onstk], Caller.height + 1, SwitchRegs, SwitchSaved(i), Apart, Own(onstk), regs'),
         \A r \in Scratch : regs'[r] = regs[r],
         ifl' = FALSE, phase' = phase, ctx' = ctx, cur' = cur, insvc' = insvc,
         onstk' = onstk, thread_sp' = thread_sp
  PROVE  Inv'
<1>1. /\ cur \in Tasks
      /\ IF ip[2] <= 9
         THEN /\ cur # onstk
              /\ regs["rdi"] = <<"task", onstk>> /\ regs["rsi"] = <<"task", cur>>
         ELSE cur = onstk
  BY SwitchTop
<1>2. ip' = <<"switch_to", i>> /\ i \in 1 .. 17 /\ (i <= 9 <=> ip[2] <= 9)
      /\ (i \in 8 .. 10 => i = 8)
  <2>1. ip' = <<ip[1], ip[2] + 1>>
    BY DEF Advance
  <2>2. ip[2] + 1 = i
    OBVIOUS
  <2> QED
    BY <2>1, <2>2
<1>3. Stacks' /\ Sleeping'
  BY <1>1, StacksStay
<1>4. regs'["rdi"] = regs["rdi"] /\ regs'["rsi"] = regs["rsi"]
  BY SwitchRegFacts
<1>5. /\ IF i <= 9
         THEN /\ cur # onstk
              /\ regs'["rdi"] = <<"task", onstk>> /\ regs'["rsi"] = <<"task", cur>>
              /\ i = 9 => thread_sp'[onstk] = Len(stack'[onstk])
         ELSE cur = onstk
      /\ i \in 8 .. 10 => stack'[onstk][Caller.height + 8] = <<"flags", FALSE>>
  BY <1>1, <1>2, <1>4
<1> QED
  BY <1>2, <1>3, <1>5, SwitchAdvance

LEMMA SwitchPush ==
  ASSUME Inv, Push, ip[1] = "switch_to"
  PROVE  Inv'
<1> DEFINE n == ip[2] - 1
           st == stack[onstk]
           u == stack'[onstk]
           w == regs[Op[2]]
           j == ip[2] + 1
           old == Own(onstk)
           h == Caller.height
           b == h + 1
<1>1. /\ phase = "run" /\ ip # TaskCode /\ Op[1] = "push" /\ Advance
      /\ PushOn(<<w>>) /\ ifl' = ifl
      /\ regs' = IF Op[2] \in Segments THEN [regs EXCEPT !["rax"] = regs[Op[2]]] ELSE regs
      /\ onstk' = onstk /\ cur' = cur /\ phase' = phase
      /\ thread_sp' = thread_sp /\ insvc' = insvc /\ ctx' = ctx
  BY DEF Push, At
<1>2. ip[2] \in 1 .. 6 /\ Op[2] = SwitchRegs[ip[2]]
  BY <1>1, SwitchAt
<1>3. /\ Kept(st, b, SwitchRegs, SwitchSaved(ip[2]), Apart, old, regs) /\ IsRegs(regs)
      /\ h \in Nat /\ Len(st) = h + SwitchWords(ip[2]) /\ ifl = FALSE
  BY <1>1, SwitchTop
<1>4. regs' = regs
  BY <1>1, <1>2, SwitchRegFacts
<1>5. /\ n \in Nat /\ n + 1 = ip[2] /\ n + 1 \in 1 .. 6 /\ SwitchSaved(ip[2]) = n
      /\ SwitchWords(ip[2]) = 1 + n /\ j \in 2 .. 7 /\ ip[2] = j - 1
      /\ SwitchSaved(j) = n + 1 /\ SwitchWords(j) = n + 2
  BY <1>2 DEF SwitchSaved, SwitchWords
<1> HIDE DEF w
<1>6. IsPush(u, st, w) /\ stack' = [stack EXCEPT ![onstk] = stack'[onstk]]
  BY <1>1, StackPush
<1>7. /\ Kept(st, b, SwitchRegs, n, Apart, old, regs) /\ Len(st) = b + n
      /\ IsPush(u, st, regs[SwitchRegs[n + 1]])
  <2>1. Len(st) = b + n
    <3> HIDE DEF n, st, h
    <3> QED
      BY <1>3, <1>5
  <2>2. IsPush(u, st, regs[SwitchRegs[n + 1]])
    BY <1>2, <1>5, <1>6 DEF w
  <2> QED
    BY <1>3, <1>5, <2>1, <2>2, Zenon
<1> HIDE DEF n, st, u, j, old, b, h
<1>8. SwitchRegs[n + 1] \in Apart /\ \A m \in 1 .. n : SwitchRegs[m] # SwitchRegs[n + 1]
  <2>1. \A m \in 1 .. n : m \in 1 .. 6 /\ m # n + 1
    BY <1>5
  <2> QED
    BY <1>5, <2>1, SwitchFacts, SwitchRegFacts
<1>9. b \in Nat /\ n \in Nat
  BY <1>3, <1>5 DEF b
<1>10. Kept(u, b, SwitchRegs, n + 1, Apart, old, regs)
  BY <1>7, <1>8, <1>9, KeptPush, Zenon
<1>11. IsSeq(u) /\ Len(u) = h + (n + 2) /\ \A k \in 1 .. h + 1 : u[k] = st[k]
  <2>1. IsSeq(u) /\ Len(u) = Len(st) + 1 /\ \A k \in 1 .. Len(st) : u[k] = st[k]
    BY <1>7 DEF IsPush
  <2>2. Len(st) = h + 1 + n
    BY <1>7 DEF b
  <2>3. h + 1 + n + 1 = h + (n + 2) /\ \A k \in 1 .. h + 1 : k \in 1 .. h + 1 + n
    BY <1>3, <1>9
  <2> QED
    BY <2>1, <2>2, <2>3
<1>12. /\ Len(stack'[onstk]) = Caller.height + SwitchWords(j)
       /\ \A k \in 1 .. Caller.height + 1 : stack'[onstk][k] = stack[onstk][k]
       /\ IsSeq(stack'[onstk]) /\ j \in 2 .. 17 /\ j # 10 /\ j # 9 /\ j # 8 /\ ifl' = FALSE
       /\ Kept(stack'[onstk], Caller.height + 1, SwitchRegs, SwitchSaved(j), Apart, Own(onstk), regs')
       /\ IsRegs(regs') /\ \A r \in Scratch : regs'[r] = regs[r]
  BY <1>1, <1>3, <1>4, <1>5, <1>10, <1>11 DEF u, st, old, b, h
<1> QED
  BY <1>1, <1>5, <1>6, <1>12, SwitchOnStack

LEMMA StepPushFlags ==
  ASSUME Inv, PushFlags, ip[1] = "switch_to"
  PROVE  Inv'
<1> DEFINE st == stack[onstk]
           u == stack'[onstk]
           w == <<"flags", ifl>>
           old == Own(onstk)
           h == Caller.height
           b == h + 1
           j == 8
<1>1. /\ phase = "run" /\ ip # TaskCode /\ Op[1] = "pushf" /\ Advance
      /\ PushOn(<<w>>) /\ ifl' = ifl /\ regs' = regs
      /\ onstk' = onstk /\ cur' = cur /\ phase' = phase
      /\ thread_sp' = thread_sp /\ insvc' = insvc /\ ctx' = ctx
  BY DEF PushFlags, At
<1>2. ip[2] = 7
  BY <1>1, SwitchAt
<1>3. /\ Kept(st, b, SwitchRegs, SwitchSaved(ip[2]), Apart, old, regs) /\ IsRegs(regs)
      /\ h \in Nat /\ Len(st) = h + SwitchWords(ip[2]) /\ ifl = FALSE
  BY <1>1, SwitchTop
<1>4. /\ SwitchSaved(7) = 6 /\ SwitchWords(7) = 7 /\ SwitchSaved(j) = 6 /\ SwitchWords(j) = 8
      /\ j \in 2 .. 17 /\ j # 10 /\ j # 9 /\ ip[2] = j - 1
  BY <1>2 DEF SwitchSaved, SwitchWords
<1> HIDE DEF w
<1>5. IsPush(u, st, w) /\ stack' = [stack EXCEPT ![onstk] = stack'[onstk]]
  BY <1>1, StackPush
<1>6. Kept(st, b, SwitchRegs, 6, Apart, old, regs) /\ Len(st) = h + 7
  BY <1>2, <1>3, <1>4
<1> HIDE DEF st, u, old, h
<1>7. /\ IsSeq(u) /\ Len(u) = h + 8 /\ u[h + 8] = <<"flags", FALSE>>
      /\ (\A k \in 1 .. b + 6 : u[k] = st[k]) /\ (\A k \in 1 .. h + 1 : u[k] = st[k])
  <2>1. w = <<"flags", FALSE>>
    BY <1>3, Zenon DEF w
  <2>2. IsSeq(u) /\ Len(u) = h + 8 /\ u[h + 8] = w /\ \A k \in 1 .. h + 7 : u[k] = st[k]
    BY <1>3, <1>5, <1>6 DEF IsPush
  <2>3. \A k \in 1 .. h + 1 : k \in 1 .. h + 7
    BY <1>3
  <2>4. b + 6 = h + 7
    BY <1>3
  <2> QED
    BY <2>1, <2>2, <2>3, <2>4
<1>8. b \in Nat /\ 6 \in Nat
  BY <1>3
<1> HIDE DEF b
<1>9. Kept(u, b, SwitchRegs, 6, Apart, old, regs)
  BY <1>6, <1>7, <1>8, KeptChange, Zenon
<1>10. /\ Len(stack'[onstk]) = Caller.height + SwitchWords(j)
       /\ \A k \in 1 .. Caller.height + 1 : stack'[onstk][k] = stack[onstk][k]
       /\ IsSeq(stack'[onstk]) /\ stack'[onstk][Caller.height + 8] = <<"flags", FALSE>> /\ ifl' = FALSE
       /\ Kept(stack'[onstk], Caller.height + 1, SwitchRegs, SwitchSaved(j), Apart, Own(onstk), regs')
       /\ IsRegs(regs') /\ \A r \in Scratch : regs'[r] = regs[r]
  BY <1>1, <1>3, <1>4, <1>7, <1>9 DEF u, st, old, b, h
<1> HIDE DEF j
<1> QED
  BY <1>1, <1>4, <1>5, <1>10, SwitchOnStack

LEMMA SwitchPop ==
  ASSUME Inv, Pop, ip[1] = "switch_to"
  PROVE  Inv'
<1> DEFINE n == 17 - ip[2]
           st == stack[onstk]
           u == stack'[onstk]
           j == ip[2] + 1
           old == Own(onstk)
           new2 == regs'
           h == Caller.height
           b == h + 1
<1>1. /\ phase = "run" /\ ip # TaskCode /\ Op[1] = "pop" /\ Advance
      /\ DropTop(1) /\ ifl' = ifl /\ onstk' = onstk /\ cur' = cur /\ phase' = phase
      /\ thread_sp' = thread_sp /\ insvc' = insvc /\ ctx' = ctx
      /\ regs' = [r \in Regs |-> IF r = Op[2] \/ (r = "rax" /\ Op[2] \in Segments)
                                 THEN Top ELSE regs[r]]
  BY DEF Pop, At
<1>2. ip[2] \in 11 .. 16 /\ Op[2] = SwitchRegs[n]
  BY <1>1, SwitchAt
<1>3. /\ Kept(st, b, SwitchRegs, SwitchSaved(ip[2]), Apart, old, regs) /\ IsRegs(regs)
      /\ h \in Nat /\ Len(st) = h + SwitchWords(ip[2]) /\ ifl = FALSE
  BY <1>1, SwitchTop
<1>4. Top = st[Len(st)]
  BY DEF Top, Last
<1>5. /\ n \in Nat /\ n >= 1 /\ n \in 1 .. 6 /\ SwitchSaved(ip[2]) = n
      /\ SwitchWords(ip[2]) = 1 + n /\ j \in 12 .. 17 /\ ip[2] = j - 1
      /\ SwitchSaved(j) = n - 1 /\ SwitchWords(j) = n
  BY <1>2 DEF SwitchSaved, SwitchWords
<1>6. IsDrop(u, st, 1) /\ stack' = [stack EXCEPT ![onstk] = stack'[onstk]]
  <2>1. 1 \in 0 .. Len(stack[onstk])
    BY <1>3, <1>5
  <2> QED
    BY <1>1, <2>1, StackDrop
<1>7. Kept(st, b, SwitchRegs, n, Apart, old, regs) /\ Len(st) = b + n
  <2>1. Len(st) = b + n
    <3> HIDE DEF n, st, h
    <3> QED
      BY <1>3, <1>5
  <2> QED
    BY <1>3, <1>5, <2>1, Zenon
<1> HIDE DEF n, st, u, j, old, b, h
<1>8. /\ \A r \in Regs \ {SwitchRegs[n]} : regs'[r] = regs[r]
      /\ regs'[SwitchRegs[n]] = st[Len(st)] /\ IsRegs(regs')
      /\ \A r \in Scratch : regs'[r] = regs[r]
  <2>1. SwitchRegs[n] \in Regs /\ SwitchRegs[n] \notin Segments /\ SwitchRegs[n] \notin Scratch
    BY <1>5, SwitchRegFacts
  <2>2. \A r \in Scratch : r \in Regs \ {SwitchRegs[n]}
    BY <2>1, SwitchRegFacts
  <2>3. \A r \in Regs \ {SwitchRegs[n]} : regs'[r] = regs[r]
    BY <1>1, <1>2, <2>1
  <2>4. regs'[SwitchRegs[n]] = st[Len(st)] /\ IsRegs(regs')
    BY <1>1, <1>2, <1>4, <2>1 DEF IsRegs
  <2> QED
    BY <2>2, <2>3, <2>4
<1>9. \A r \in Apart \ {SwitchRegs[n]} : new2[r] = regs[r] \/ \E m \in 1 .. n - 1 : r = SwitchRegs[m]
  BY <1>8, SwitchRegFacts
<1>10. /\ b \in Nat /\ n \in Nat /\ n >= 1 /\ new2[SwitchRegs[n]] = st[Len(st)]
       /\ IsDrop(u, st, 1) /\ Kept(st, b, SwitchRegs, n, Apart, old, regs) /\ Len(st) = b + n
  BY <1>3, <1>5, <1>6, <1>7, <1>8 DEF b
<1> HIDE DEF new2
<1>11. Kept(u, b, SwitchRegs, n - 1, Apart, old, new2)
  BY <1>9, <1>10, KeptPop, Zenon
<1>12. IsSeq(u) /\ Len(u) = h + n /\ \A k \in 1 .. h + 1 : u[k] = st[k]
  BY <1>3, <1>5, <1>6, <1>7 DEF IsDrop, b
<1>13. /\ Len(u) = h + SwitchWords(j) /\ Kept(u, b, SwitchRegs, SwitchSaved(j), Apart, old, new2)
       /\ j \in 2 .. 17 /\ j # 10 /\ j # 9 /\ j # 8 /\ ip[2] = j - 1
  BY <1>5, <1>11, <1>12
<1>14. /\ Len(stack'[onstk]) = Caller.height + SwitchWords(j)
       /\ \A k \in 1 .. Caller.height + 1 : stack'[onstk][k] = stack[onstk][k]
       /\ IsSeq(stack'[onstk]) /\ ifl' = FALSE
       /\ Kept(stack'[onstk], Caller.height + 1, SwitchRegs, SwitchSaved(j), Apart, Own(onstk), regs')
  BY <1>1, <1>3, <1>12, <1>13, Zenon DEF u, st, old, new2, b, h
<1> QED
  BY <1>1, <1>6, <1>8, <1>13, <1>14, SwitchOnStack

\* The stack pointer of the task that is left is saved.
LEMMA StepSaveSp ==
  ASSUME Inv, SaveSp, ip[1] = "switch_to"
  PROVE  Inv'
<1> DEFINE j == 9
<1>1. /\ phase = "run" /\ ip # TaskCode /\ Op[1] = "savesp" /\ Advance
      /\ thread_sp' = [thread_sp EXCEPT ![regs["rdi"][2]] = Len(stack[onstk])]
      /\ stack' = stack /\ ifl' = ifl /\ regs' = regs
      /\ onstk' = onstk /\ cur' = cur /\ phase' = phase
      /\ insvc' = insvc /\ ctx' = ctx
  BY DEF SaveSp, At
<1>2. ip[2] = 8
  BY <1>1, SwitchAt
<1>3. /\ Kept(stack[onstk], Caller.height + 1, SwitchRegs, SwitchSaved(8), Apart, Own(onstk), regs)
      /\ IsRegs(regs) /\ Caller.height \in Nat
      /\ Len(stack[onstk]) = Caller.height + SwitchWords(8) /\ ifl = FALSE
      /\ stack[onstk][Caller.height + 8] = <<"flags", FALSE>> /\ cur # onstk /\ onstk \in Tasks
      /\ regs["rdi"] = <<"task", onstk>> /\ regs["rsi"] = <<"task", cur>>
  <2>1. ip[2] \in 8 .. 10 /\ ip[2] <= 9
    BY <1>2
  <2> QED
    BY <1>1, <1>2, <2>1, SwitchTop, Zenon
<1>4. SwitchSaved(8) = SwitchSaved(j) /\ SwitchWords(8) = 8 /\ SwitchWords(j) = 8
  BY DEF SwitchSaved, SwitchWords
<1>5. /\ thread_sp = [t \in Tasks |-> thread_sp[t]] /\ Stacks /\ Sleeping
  BY DEF Inv, Stacks
<1>6. thread_sp' = [thread_sp EXCEPT ![onstk] = Len(stack[onstk])]
  <2>1. regs["rdi"][2] = onstk
    BY <1>3
  <2> QED
    BY <1>1, <2>1
<1>7. /\ thread_sp' = [t \in Tasks |-> thread_sp'[t]] /\ thread_sp'[onstk] = Len(stack[onstk])
      /\ \A t \in Tasks \ {onstk} : thread_sp'[t] = thread_sp[t]
  BY <1>3, <1>5, <1>6
<1>8. Stacks'
  BY <1>1, <1>5, <1>7 DEF Stacks
<1>9. Sleeping'
  <2> SUFFICES ASSUME NEW t \in Tasks \ {onstk}
               PROVE  (Nested(ctx[t], stack[t]) /\ Framed(t, ctx[t][Len(ctx[t])]))'
    BY <1>1 DEF Sleeping
  <2>1. Nested(ctx[t], stack[t]) /\ Framed(t, ctx[t][Len(ctx[t])])
    BY <1>5 DEF Sleeping
  <2>2. ctx'[t] = ctx[t] /\ stack'[t] = stack[t] /\ thread_sp'[t] = thread_sp[t]
    BY <1>1, <1>7
  <2>3. Nested(ctx[t], stack[t])'
    BY <2>1, <2>2
  <2>4. Framed(t, ctx[t][Len(ctx[t])])'
    BY <2>1, <2>2 DEF Framed
  <2> QED
    BY <2>3, <2>4
<1>10. ip' = <<"switch_to", j>> /\ j \in 1 .. 17
  BY <1>1, <1>2 DEF Advance
<1>11. /\ regs'["rdi"] = <<"task", onstk>> /\ regs'["rsi"] = <<"task", cur>>
       /\ thread_sp'[onstk] = Len(stack'[onstk]) /\ j <= 9 /\ IsRegs(regs') /\ ifl' = FALSE
       /\ Len(stack'[onstk]) = Caller.height + SwitchWords(j)
       /\ stack'[onstk][Caller.height + 8] = <<"flags", FALSE>>
       /\ \A k \in 1 .. Caller.height + 1 : stack'[onstk][k] = stack[onstk][k]
       /\ Kept(stack'[onstk], Caller.height + 1, SwitchRegs, SwitchSaved(j), Apart, Own(onstk), regs')
  BY <1>1, <1>3, <1>4, <1>7
<1> HIDE DEF j
<1> QED
  BY <1>1, <1>3, <1>8, <1>9, <1>10, <1>11, SwitchAdvance

\* The stack of the task that is left is complete, and that of the next task
\* is where its stack pointer says.
LEMMA StepLoadSp ==
  ASSUME Inv, LoadSp, ip[1] = "switch_to"
  PROVE  Inv'
<1> DEFINE M == ctx[cur]
           c == M[Len(M)]
           s == stack[cur]
           st == stack[onstk]
           h == Caller.height
<1>1. /\ phase = "run" /\ ip # TaskCode /\ Op[1] = "loadsp" /\ Advance
      /\ onstk' = regs["rsi"][2]
      /\ stack' = [stack EXCEPT ![regs["rsi"][2]] = SubSeq(@, 1, thread_sp[regs["rsi"][2]])]
      /\ regs' = regs /\ cur' = cur /\ ifl' = ifl /\ thread_sp' = thread_sp /\ phase' = phase
      /\ insvc' = insvc /\ ctx' = ctx
  BY DEF LoadSp, At
<1>2. ip[2] = 9
  BY <1>1, SwitchAt
<1>3. /\ Kept(st, h + 1, SwitchRegs, SwitchSaved(9), Apart, Own(onstk), regs) /\ IsRegs(regs)
      /\ h \in Nat /\ Len(st) = h + SwitchWords(9) /\ ifl = FALSE
      /\ st[h + 1] = ReturnWord(onstk, Caller.ip, TRUE)
      /\ st[h + 8] = <<"flags", FALSE>> /\ cur # onstk /\ onstk \in Tasks /\ cur \in Tasks
      /\ regs["rsi"] = <<"task", cur>> /\ thread_sp[onstk] = Len(st) /\ insvc = {}
      /\ Caller.ip \in {TaskCode, DoSyscall} /\ Caller.onstk = onstk /\ ip[1] \notin Traps
  <2>1. ip[2] \in 8 .. 10 /\ ip[2] <= 9
    BY <1>2
  <2> QED
    BY <1>1, <1>2, <2>1, SwitchTop, Zenon
<1>4. SwitchSaved(9) = 6 /\ SwitchWords(9) = 8 /\ SwitchSaved(10) = 6 /\ SwitchWords(10) = 8
  BY DEF SwitchSaved, SwitchWords
<1>5. Stacks /\ Sleeping /\ stack = [t \in Tasks |-> stack[t]] /\ IsSeq(s)
  BY <1>3 DEF Inv, Stacks
<1>6. Nested(M, s) /\ Framed(cur, c)
  BY <1>3, <1>5 DEF Sleeping
<1>7. /\ c.ip \in {TaskCode, DoSyscall} /\ c.onstk = cur /\ Len(s) = c.height + 8
      /\ thread_sp[cur] = Len(s) /\ \A i \in 1 .. 8 : s[c.height + i] = SwitchFrame(cur, c.ip)[i]
  BY <1>6 DEF Framed
<1>8. onstk' = cur /\ stack' = stack
  <2>1. onstk' = cur /\ stack' = [stack EXCEPT ![cur] = SubSeq(stack[cur], 1, thread_sp[cur])]
    BY <1>1, <1>3
  <2>2. IsSeq(s) /\ thread_sp[cur] = Len(s)
    BY <1>5, <1>7
  <2> HIDE DEF s
  <2>3. SubSeq(s, 1, Len(s)) = s
    <3>1. Len(s) \in Nat
      BY <2>2 DEF IsSeq
    <3>2. Len(s) \in 0 .. Len(s)
      BY <3>1
    <3> DEFINE v == SubSeq(s, 1, Len(s))
    <3>3. IsSeq(v) /\ Len(v) = Len(s) /\ \A i \in 1 .. Len(s) : v[i] = s[i]
      BY <2>2, <3>2, SubFacts
    <3> HIDE DEF v
    <3>4. v = s
      BY <2>2, <3>3, SeqSame
    <3> QED
      BY <3>4 DEF v
  <2>4. stack' = [stack EXCEPT ![cur] = stack[cur]]
    BY <2>1, <2>2, <2>3 DEF s
  <2> QED
    BY <1>3, <1>5, <2>1, <2>4
<1>9. /\ \A m \in 1 .. 6 : st[h + 1 + m] = <<onstk, SwitchRegs[m]>>
      /\ \A r \in Segments : regs[r] = <<"selector", r>>
  <2>1. /\ \A m \in 1 .. 6 : st[h + 1 + m] = Own(onstk)[SwitchRegs[m]]
        /\ \A r \in Apart : regs[r] = Own(onstk)[r] \/ \E m \in 1 .. 6 : r = SwitchRegs[m]
    BY <1>3, <1>4 DEF Kept
  <2>2. \A m \in 1 .. 6 : Own(onstk)[SwitchRegs[m]] = <<onstk, SwitchRegs[m]>>
    BY OwnFacts, SwitchFacts
  <2>3. \A r \in Segments : r \in Apart /\ ~ \E m \in 1 .. 6 : r = SwitchRegs[m]
    BY SwitchRegFacts DEF Apart
  <2> HIDE DEF st, h
  <2> QED
    BY <2>1, <2>2, <2>3, OwnFacts
<1>10. Nested(Ctx, st) /\ Framed(onstk, Caller)
  <2>1. Nested(Ctx, st)
    BY <1>1, <1>3, SecondTop
  <2> DEFINE at == Caller.ip
  <2> HIDE DEF st, h, at
  <2>2. /\ h \in Nat /\ st[h + 1] = ReturnWord(onstk, at, TRUE) /\ st[h + 8] = <<"flags", FALSE>>
        /\ \A m \in 1 .. 6 : st[h + 1 + m] = <<onstk, SwitchRegs[m]>>
    BY <1>3, <1>9, Zenon DEF at
  <2>3. \A i \in 1 .. 8 : st[h + i] = SwitchFrame(onstk, at)[i]
    <3> DEFINE f == SwitchFrame(onstk, at)
    <3>1. st[h + 1] = f[1] /\ st[h + 8] = f[8] /\ \A m \in 1 .. 6 : st[h + 1 + m] = f[1 + m]
      <4>1. /\ f[1] = ReturnWord(onstk, at, TRUE) /\ f[8] = <<"flags", FALSE>>
            /\ \A m \in 1 .. 6 : f[1 + m] = <<onstk, SwitchRegs[m]>>
        BY FrameFacts
      <4> HIDE DEF f
      <4> QED
        BY <2>2, <4>1, Zenon
    <3> HIDE DEF f
    <3>2. \A i \in 1 .. 8 : st[h + i] = f[i]
      BY <2>2, <3>1, FrameIs
    <3> QED
      BY <3>2 DEF f
  <2> QED
    BY <1>3, <1>4, <2>1, <2>3 DEF Framed, st, h, at
<1>11. Sleeping'
  <2> SUFFICES ASSUME NEW t \in Tasks \ {cur}
               PROVE  (Nested(ctx[t], stack[t]) /\ Framed(t, ctx[t][Len(ctx[t])]))'
    BY <1>8 DEF Sleeping
  <2>1. Nested(ctx[t], stack[t]) /\ Framed(t, ctx[t][Len(ctx[t])])
    <3>1. CASE t = onstk
      BY <1>10, <3>1 DEF Ctx, Caller
    <3>2. CASE t # onstk
      BY <1>5, <3>2 DEF Sleeping
    <3> QED
      BY <3>1, <3>2
  <2>2. Nested(ctx[t], stack[t])'
    BY <1>1, <1>8, <2>1
  <2>3. Framed(t, ctx[t][Len(ctx[t])])'
    BY <1>1, <1>8, <2>1 DEF Framed
  <2> QED
    BY <2>2, <2>3
<1>12. Stacks'
  BY <1>1, <1>3, <1>5, <1>8 DEF Stacks
<1>13. /\ \A k \in 1 .. Len(M) : ~ Leaving(M[k])
       /\ InService(M) = {} /\ c.height \in Nat /\ IsSeq(M) /\ Len(M) >= 1
  <2>1. Nested(M, s) /\ c.ip \in {TaskCode, DoSyscall} /\ c = M[Len(M)]
    BY <1>6, <1>7
  <2> HIDE DEF M, c, s
  <2>2. (\A k \in 1 .. Len(M) : ~ Leaving(M[k])) /\ InService(M) = {} /\ IsLevel(c)
    BY <2>1, QuietLevels
  <2> QED
    BY <2>1, <2>2 DEF Nested, IsLevel
<1>14. /\ s[c.height + 1] = ReturnWord(cur, c.ip, TRUE) /\ s[c.height + 8] = <<"flags", FALSE>>
       /\ \A m \in 1 .. 6 : s[c.height + 1 + m] = <<cur, SwitchRegs[m]>>
  <2> DEFINE at == c.ip
             g == c.height
             f == SwitchFrame(cur, at)
             w == ReturnWord(cur, at, TRUE)
  <2>1. f[1] = w /\ f[8] = <<"flags", FALSE>> /\ \A m \in 1 .. 6 : f[1 + m] = <<cur, SwitchRegs[m]>>
    BY FrameFacts
  <2>2. g \in Nat /\ \A i \in 1 .. 8 : s[g + i] = f[i]
    BY <1>7, <1>13
  <2> HIDE DEF at, g, f, s, w
  <2>3. s[g + 1] = w /\ s[g + 8] = <<"flags", FALSE>>
    <3>1. 1 \in 1 .. 8 /\ 8 \in 1 .. 8
      OBVIOUS
    <3> QED
      BY <2>1, <2>2, <3>1, Zenon
  <2>4. \A m \in 1 .. 6 : s[g + 1 + m] = <<cur, SwitchRegs[m]>>
    <3> TAKE m \in 1 .. 6
    <3>1. 1 + m \in 1 .. 8 /\ g + (1 + m) = g + 1 + m
      BY <2>2
    <3> QED
      BY <2>1, <2>2, <3>1
  <2> QED
    BY <2>3, <2>4 DEF at, g, w
<1>15. Kept(s, c.height + 1, SwitchRegs, 6, Apart, Own(cur), regs)
  <2> DEFINE b == c.height + 1
  <2>1. \A m \in 1 .. 6 : s[b + m] = <<cur, SwitchRegs[m]>>
    BY <1>14
  <2> HIDE DEF b, s
  <2>2. \A m \in 1 .. 6 : s[b + m] = Own(cur)[SwitchRegs[m]]
    <3>1. \A m \in 1 .. 6 : Own(cur)[SwitchRegs[m]] = <<cur, SwitchRegs[m]>>
      BY OwnFacts, SwitchFacts
    <3> QED
      BY <2>1, <3>1
  <2>3. \A r \in Apart : regs[r] = Own(cur)[r] \/ \E m \in 1 .. 6 : r = SwitchRegs[m]
    BY <1>9, OwnFacts, SwitchFacts DEF Apart
  <2> QED
    BY <2>2, <2>3 DEF Kept, b
<1>16. ip' = <<"switch_to", 10>>
  BY <1>1, <1>2 DEF Advance
<1>17. Switched(c, Context', s) /\ IsLevel(Context') /\ c.height <= Context'.height
       /\ ~ Leaving(Context')
  <2> DEFINE a == Context'
             old == Own(cur)
             i == 10
  <2>1. /\ a.ip = <<"switch_to", i>> /\ a.ip[2] = i /\ a.ifl = FALSE /\ a.onstk = cur
        /\ a.height = Len(s) /\ a.regs = regs
    BY <1>1, <1>3, <1>8, <1>16 DEF Context
  <2>2. /\ c.ip \in {TaskCode, DoSyscall} /\ a.height = c.height + SwitchWords(i)
        /\ s[c.height + 1] = ReturnWord(a.onstk, c.ip, TRUE) /\ c.onstk = a.onstk
        /\ s[c.height + 8] = <<"flags", FALSE>> /\ old = Own(a.onstk)
        /\ i \in 1 .. 17
    <3>1. a.height = c.height + SwitchWords(i) /\ i \in 1 .. 17
      BY <1>4, <1>7, <2>1
    <3> QED
      BY <1>7, <1>14, <2>1, <3>1, Zenon
  <2>3. Kept(s, c.height + 1, SwitchRegs, SwitchSaved(i), Apart, old, a.regs)
    BY <1>4, <1>15, <2>1
  <2>4. IsLevel(a)
    <3>1. Len(s) \in Nat
      BY <1>5 DEF IsSeq
    <3> QED
      BY <1>1, <1>3, <1>8, <3>1 DEF IsLevel, Context
  <2>5. ~ Leaving(a)
    BY <2>1 DEF Leaving
  <2>6. c.height <= a.height
    BY <1>7, <1>13, <2>1
  <2> HIDE DEF a, s, c, old, i
  <2>7. Switched(c, a, s)
    BY <2>1, <2>2, <2>3, Zenon DEF Switched
  <2> QED
    BY <2>4, <2>5, <2>6, <2>7 DEF a
<1>18. Nested(Append(M, Context'), s)
  <2> DEFINE a == Context'
  <2>1. /\ Nested(M, s) /\ IsLevel(a) /\ M[Len(M)].height <= a.height
        /\ Activation(M[Len(M)], a, s)
    BY <1>6, <1>17 DEF Activation
  <2> HIDE DEF a, M, s
  <2>2. Nested(Append(M, a), s)
    BY <2>1, NestedInner
  <2> QED
    BY <2>2 DEF a
<1>19. Levels' = Append(M, Context') /\ stack'[onstk'] = s
  BY <1>1, <1>8 DEF Levels, Ctx
<1>20. ip'[1] \notin Traps /\ insvc' = {} /\ cur' = onstk'
  BY <1>1, <1>3, <1>8, <1>16 DEF Traps, Common, Devices
<1>21. Turn' /\ Service'
  <2> HIDE DEF M
  <2> QED
    BY <1>13, <1>17, <1>19, <1>20, OnQuiet
<1>22. Nested(Levels', stack'[onstk'])
  BY <1>18, <1>19
<1> QED
  BY <1>11, <1>12, <1>21, <1>22 DEF Inv, Running

LEMMA StepPopFlags ==
  ASSUME Inv, PopFlags, ip[1] = "switch_to"
  PROVE  Inv'
<1> DEFINE st == stack[onstk]
           u == stack'[onstk]
           old == Own(onstk)
           h == Caller.height
           b == h + 1
           j == 11
<1>1. /\ phase = "run" /\ ip # TaskCode /\ Op[1] = "popf" /\ regs' = regs
      /\ onstk' = onstk /\ cur' = cur /\ thread_sp' = thread_sp
      /\ insvc' = insvc /\ ctx' = ctx
  BY DEF PopFlags, At
<1>2. ip[2] = 10
  BY <1>1, SwitchAt
<1>3. /\ Kept(st, b, SwitchRegs, SwitchSaved(10), Apart, old, regs) /\ IsRegs(regs)
      /\ h \in Nat /\ Len(st) = h + SwitchWords(10) /\ st[h + 8] = <<"flags", FALSE>>
  <2>1. ip[2] \in 8 .. 10
    BY <1>2
  <2> QED
    BY <1>1, <1>2, <2>1, SwitchTop, Zenon
<1>4. /\ SwitchSaved(10) = 6 /\ SwitchWords(10) = 8 /\ SwitchSaved(j) = 6 /\ SwitchWords(j) = 7
      /\ j \in 2 .. 17 /\ j # 10 /\ j # 9 /\ j # 8 /\ ip[2] = j - 1
  BY <1>2 DEF SwitchSaved, SwitchWords
<1>5. Top = <<"flags", FALSE>>
  BY <1>3, <1>4 DEF Top, Last
<1>6. Top[1] = "flags" /\ Top[2] = FALSE
  BY <1>5, Zenon
<1>7. ifl' = FALSE /\ Advance /\ DropTop(1) /\ phase' = phase
  BY <1>6 DEF PopFlags
<1>8. IsDrop(u, st, 1) /\ stack' = [stack EXCEPT ![onstk] = stack'[onstk]]
  <2>1. 1 \in 0 .. Len(stack[onstk])
    BY <1>3, <1>4
  <2> QED
    BY <1>7, <2>1, StackDrop
<1>9. Kept(st, b, SwitchRegs, 6, Apart, old, regs) /\ Len(st) = h + 8
  BY <1>3, <1>4
<1> HIDE DEF st, u, old, h
<1>10. /\ IsSeq(u) /\ Len(u) = h + 7
       /\ (\A k \in 1 .. b + 6 : u[k] = st[k]) /\ (\A k \in 1 .. h + 1 : u[k] = st[k])
  <2>1. IsSeq(u) /\ Len(u) = h + 7 /\ \A k \in 1 .. h + 7 : u[k] = st[k]
    BY <1>3, <1>8, <1>9 DEF IsDrop
  <2>2. b + 6 = h + 7 /\ \A k \in 1 .. h + 1 : k \in 1 .. h + 7
    BY <1>3
  <2> QED
    BY <2>1, <2>2
<1>11. b \in Nat /\ 6 \in Nat
  BY <1>3
<1> HIDE DEF b
<1>12. Kept(u, b, SwitchRegs, 6, Apart, old, regs)
  BY <1>9, <1>10, <1>11, KeptChange, Zenon
<1>13. /\ Len(stack'[onstk]) = Caller.height + SwitchWords(j)
       /\ \A k \in 1 .. Caller.height + 1 : stack'[onstk][k] = stack[onstk][k]
       /\ IsSeq(stack'[onstk])
       /\ Kept(stack'[onstk], Caller.height + 1, SwitchRegs, SwitchSaved(j), Apart, Own(onstk), regs')
       /\ IsRegs(regs') /\ \A r \in Scratch : regs'[r] = regs[r]
  BY <1>1, <1>3, <1>4, <1>10, <1>12 DEF u, st, old, b, h
<1> HIDE DEF j
<1> QED
  BY <1>1, <1>4, <1>7, <1>8, <1>13, SwitchOnStack

LEMMA StepRet ==
  ASSUME Inv, Ret, ip[1] = "switch_to"
  PROVE  /\ Inv' /\ phase' = "run" /\ cur = onstk /\ Caller.onstk = onstk
         /\ ip' = Resume(Caller.ip) /\ ifl' = (Caller.ifl /\ Caller.ip = TaskCode)
         /\ \A r \in CalleeSaved : regs'[r] = Caller.regs[r]
         /\ Len(stack'[onstk]) = Caller.height
<1> DEFINE st == stack[onstk]
           u == stack'[onstk]
           h == Caller.height
           w == ReturnWord(onstk, Caller.ip, TRUE)
<1>1. /\ phase = "run" /\ ip # TaskCode /\ Op[1] = "ret"
      /\ onstk' = onstk /\ cur' = cur /\ thread_sp' = thread_sp
      /\ insvc' = insvc
  BY DEF Ret, At
<1>2. ip[2] = 17
  BY <1>1, SwitchAt
<1>3. /\ Kept(st, h + 1, SwitchRegs, SwitchSaved(17), Apart, Own(onstk), regs) /\ IsRegs(regs)
      /\ h \in Nat /\ Len(st) = h + SwitchWords(17) /\ st[h + 1] = w
      /\ cur = onstk /\ cur \in Tasks /\ insvc = {}
      /\ Caller.ip \in {TaskCode, DoSyscall} /\ Caller.onstk = onstk /\ ip[1] \notin Traps
  <2>1. ~(ip[2] <= 9)
    BY <1>2
  <2> QED
    BY <1>1, <1>2, <2>1, SwitchTop, Zenon
<1>4. SwitchSaved(17) = 0 /\ SwitchWords(17) = 1
  BY DEF SwitchSaved, SwitchWords
<1>5. IsSeq(Ctx) /\ Nested(Ctx, st) /\ Len(Ctx) >= 1 /\ Len(Ctx) \in Nat
  BY <1>1, <1>3, SecondTop
<1>6. /\ Caller.ip = TaskCode => Len(Ctx) = 1 /\ h = 0
      /\ Caller.ip = DoSyscall => /\ Len(Ctx) = 2 /\ TaskLevel(Ctx[1]) /\ Called(Ctx[1], Caller, st)
                                  /\ h = 13
      /\ \A r \in Apart : Caller.regs[r] = Own(onstk)[r]
      /\ Caller.ifl = TRUE /\ InService(Ctx) = {} /\ \A k \in 1 .. Len(Ctx) : ~ Leaving(Ctx[k])
  <2> DEFINE M == Ctx
             c == Caller
  <2>1. Nested(M, st) /\ c = M[Len(M)] /\ c.ip \in {TaskCode, DoSyscall} /\ c.onstk = onstk
    BY <1>3, <1>5 DEF Caller
  <2> HIDE DEF M, c, st
  <2>2. /\ \A k \in 1 .. Len(M) : ~ Leaving(M[k])
        /\ InService(M) = {} /\ (c.ip = TaskCode => Len(M) = 1)
        /\ c.ip = DoSyscall => Len(M) = 2 /\ TaskLevel(M[1]) /\ Called(M[1], c, st)
        /\ \A r \in Apart : c.regs[r] = Own(c.onstk)[r]
        /\ c.ifl = TRUE /\ c.height = (IF c.ip = TaskCode THEN 0 ELSE 13)
    BY <2>1, QuietLevels
  <2>3. DoSyscall # TaskCode
    BY ReturnWords
  <2> QED
    BY <2>1, <2>2, <2>3 DEF M, c
<1>7. Top = w
  BY <1>3, <1>4 DEF Top, Last
<1>8. \/ Caller.ip = TaskCode /\ w = <<"ret", onstk, TaskCode, TRUE>>
      \/ Caller.ip = DoSyscall /\ w = <<"ret", onstk, <<"syscall", 24>>, FALSE>>
  BY <1>3, ReturnWords
<1>9. Top[1] = "ret"
  <2>1. w[1] = "ret"
    BY DEF ReturnWord
  <2> HIDE DEF w
  <2> QED
    BY <1>7, <2>1
<1>10. /\ ip' = Top[3] /\ ifl' = Top[4] /\ DropTop(1) /\ phase' = phase /\ Unnest
       /\ regs' = [r \in Regs |-> IF r \notin Scratch THEN regs[r]
                                  ELSE IF Top[3] = TaskCode THEN <<Top[2], r>> ELSE Junk]
  BY <1>9 DEF Ret
<1>11. /\ Ctx' = Front(Ctx) /\ ctx' = [ctx EXCEPT ![onstk] = ctx'[onstk]]
       /\ IsSeq(Front(Ctx)) /\ Len(Front(Ctx)) = Len(Ctx) - 1 /\ IsSeq(ctx'[onstk])
       /\ \A k \in 1 .. Len(Ctx) - 1 : Front(Ctx)[k] = Ctx[k]
  <2>1. Ctx' = Front(Ctx) /\ ctx' = [ctx EXCEPT ![onstk] = ctx'[onstk]]
    BY <1>1, <1>10, CtxPop
  <2>2. ctx'[onstk] = Ctx'
    BY <1>1 DEF Ctx
  <2>3. Len(Ctx) > 0
    BY <1>5
  <2> QED
    BY <1>5, <2>1, <2>2, <2>3, FrontFacts
<1>12. IsDrop(u, st, 1) /\ stack' = [stack EXCEPT ![onstk] = stack'[onstk]]
  <2>1. 1 \in 0 .. Len(stack[onstk])
    BY <1>3, <1>4
  <2> QED
    BY <1>10, <2>1, StackDrop
<1>13. IsSeq(u) /\ Len(u) = h /\ \A k \in 1 .. h : u[k] = st[k]
  <2> HIDE DEF st, u, h
  <2> QED
    BY <1>3, <1>4, <1>12 DEF IsDrop
<1>14. Stacks' /\ Sleeping'
  BY <1>1, <1>3, <1>11, <1>12, <1>13, StacksStay
<1>15. /\ IsRegs(regs') /\ \A r \in Apart : regs'[r] = Own(onstk)[r]
  <2>1. \A r \in Apart : regs[r] = Own(onstk)[r]
    <3> DEFINE b == h + 1
               o == Own(onstk)
    <3>1. Kept(st, b, SwitchRegs, 0, Apart, o, regs)
      BY <1>3, <1>4
    <3> HIDE DEF st, b, o
    <3>2. \A r \in Apart : regs[r] = o[r]
      BY <3>1, KeptNone
    <3> QED
      BY <3>2 DEF o
  <2>2. \A r \in Apart : r \in Regs /\ r \notin Scratch
    BY SwitchRegFacts
  <2>3. \A r \in Apart : regs'[r] = regs[r]
    BY <1>10, <2>2
  <2>4. IsRegs(regs')
    BY <1>10 DEF IsRegs
  <2> QED
    BY <2>1, <2>3, <2>4
<1>16. \A r \in CalleeSaved : regs'[r] = Caller.regs[r]
  BY <1>6, <1>15 DEF Apart
<1>17. CASE Caller.ip = TaskCode
  <2>1. Top = <<"ret", onstk, TaskCode, TRUE>>
    BY <1>7, <1>17, ReturnWords
  <2>2. /\ ip' = TaskCode /\ ifl' = TRUE
        /\ regs' = [r \in Regs |-> IF r \notin Scratch THEN regs[r] ELSE <<onstk, r>>]
    BY <1>10, <2>1
  <2>3. Ctx' = << >> /\ Len(u) = 0
    BY <1>6, <1>11, <1>13, <1>17, NoWords
  <2>4. regs' = Own(onstk)
    <3>1. \A r \in Regs : regs'[r] = Own(onstk)[r]
      <4> SUFFICES ASSUME NEW r \in Regs
                   PROVE  regs'[r] = Own(onstk)[r]
        OBVIOUS
      <4>1. CASE r \in Scratch
        BY <2>2, <4>1, OwnFacts
      <4>2. CASE r \in Apart
        BY <1>15, <4>2
      <4> QED
        BY <4>1, <4>2, RegSets DEF Apart
    <3>2. IsRegs(regs') /\ IsRegs(Own(onstk))
      BY <1>15, OwnFacts
    <3> QED
      BY <3>1, <3>2 DEF IsRegs
  <2>5. IsLevel(Context') /\ TaskLevel(Context')
    <3>1. Context' = [regs |-> Own(onstk), ip |-> TaskCode, ifl |-> TRUE, height |-> 0,
                      onstk |-> onstk]
      BY <1>1, <2>2, <2>3, <2>4 DEF Context
    <3>2. onstk \in Tasks
      BY <1>3
    <3> QED
      BY <3>1, <3>2, OwnFacts DEF IsLevel, TaskLevel
  <2>6. Inv'
    BY <1>1, <1>3, <1>14, <2>3, <2>5, ToTask
  <2>7. ip' = Resume(Caller.ip) /\ ifl' = (Caller.ifl /\ Caller.ip = TaskCode)
    BY <1>6, <1>17, <2>2, ReturnWords
  <2> QED
    BY <1>1, <1>3, <1>10, <1>13, <1>16, <2>6, <2>7
<1>18. CASE Caller.ip = DoSyscall
  <2> DEFINE M == Front(Ctx)
             a == Context'
             l == Ctx[1]
             R == "syscall"
             i == 24
  <2>1. Top = <<"ret", onstk, <<R, i>>, FALSE>>
    BY <1>7, <1>18, ReturnWords
  <2>2. <<R, i>> # TaskCode
    BY DEF TaskCode
  <2>3. ip' = <<R, i>> /\ ifl' = FALSE /\ regs'["rcx"] = Junk
    <3>1. "rcx" \in Regs /\ "rcx" \in Scratch
      BY SwitchRegFacts
    <3>2. ip' = <<R, i>> /\ ifl' = FALSE /\ Top[3] # TaskCode
      BY <1>10, <2>1, <2>2
    <3> QED
      BY <1>10, <3>1, <3>2
  <2>4. /\ Len(Ctx) = 2 /\ TaskLevel(l) /\ Called(l, Caller, st) /\ h = 13
        /\ IsSeq(M) /\ Len(M) = 1 /\ M[1] = l /\ Len(M) >= 1 /\ Len(M) <= Len(Ctx)
        /\ \A k \in 1 .. Len(M) : M[k] = Ctx[k]
    BY <1>6, <1>11, <1>18
  <2>5. /\ l.onstk = onstk /\ l.height = 0 /\ l.ip = TaskCode /\ l.regs = Own(onstk)
        /\ \A m \in 1 .. 6 : st[m] = l.regs[SwitchRegs[m]]
    <3> DEFINE c == Caller
    <3>1. Called(l, c, st) /\ TaskLevel(l) /\ c.ip = <<"syscall", 23>> /\ c.onstk = onstk
      BY <1>3, <1>18, <2>4 DEF DoSyscall
    <3> HIDE DEF c, l, st
    <3>2. CallSaved("syscall", 23) = 6
      BY DEF CallSaved, CallWords
    <3>3. c.onstk = l.onstk /\ \A m \in 1 .. CallSaved("syscall", 23) : st[m] = l.regs[SwitchRegs[m]]
      BY <3>1 DEF Called
    <3> QED
      BY <3>1, <3>2, <3>3 DEF TaskLevel
  <2>6. Called(l, a, u)
    <3>1. /\ a.ip = <<R, i>> /\ a.ip[1] = R /\ a.ip[2] = i /\ a.ifl = FALSE /\ a.onstk = onstk
          /\ a.height = Len(u) /\ a.regs = regs'
      BY <1>1, <2>3 DEF Context
    <3>2. /\ R \in {"syscall", "invalid"} /\ R = "syscall" /\ i \in 1 .. CallLast(R) /\ i > 23
          /\ ~(R = "invalid" \/ i <= 14) /\ CallWords(R, i) = 13 /\ CallSaved(R, i) = 6
      BY DEF CallLast, CallWords, CallSaved
    <3>3. \A m \in 1 .. 6 : u[m] = l.regs[SwitchRegs[m]]
      <4>1. \A m \in 1 .. 6 : m \in 1 .. 13
        OBVIOUS
      <4> QED
        BY <1>13, <2>4, <2>5, <4>1
    <3>4. \A r \in Apart : a.regs[r] = l.regs[r]
      BY <1>15, <2>5, <3>1
    <3>5. a.height = 13 /\ a.regs["rcx"] = Junk /\ l.ip = TaskCode /\ a.onstk = l.onstk
      BY <1>13, <2>3, <2>4, <2>5, <3>1
    <3> HIDE DEF a, l, u, R, i
    <3> QED
      BY <3>1, <3>2, <3>3, <3>4, <3>5 DEF Called
  <2>7. IsLevel(a) /\ ~ Leaving(a)
    <3>1. Len(u) \in Nat
      BY <1>3, <1>13
    <3>2. IsLevel(a)
      BY <1>1, <1>15, <3>1 DEF IsLevel, Context
    <3>3. a.ip[1] = "syscall"
      BY <2>3 DEF Context
    <3> QED
      BY <3>2, <3>3 DEF Leaving
  <2>8. Nested(Append(M, a), u) /\ InService(M) = {} /\ \A k \in 1 .. Len(M) : ~ Leaving(M[k])
    <3> DEFINE L == Ctx
    <3>1. /\ Nested(L, st) /\ IsSeq(M) /\ Len(M) >= 1 /\ Len(M) <= Len(L) /\ Len(M) = 1 /\ M[1] = l
          /\ (\A k \in 1 .. Len(M) : M[k] = L[k]) /\ l.height = 0 /\ a.height \in Nat
          /\ \A k \in 1 .. Len(L) : ~ Leaving(L[k])
      BY <1>5, <1>6, <2>4, <2>5, <2>7 DEF IsLevel
    <3> HIDE DEF L, M, l, a, u, st
    <3>2. Nested(M, u)
      <4>1. \A k \in 1 .. M[Len(M)].height : u[k] = st[k]
        BY <3>1
      <4> QED
        BY <3>1, <4>1, NestedOuter
    <3>3. Activation(M[Len(M)], a, u) /\ M[Len(M)].height <= a.height
      BY <2>6, <3>1 DEF Activation
    <3>4. Nested(Append(M, a), u)
      BY <2>7, <3>2, <3>3, NestedInner
    <3>5. InService(M) = {}
      BY <3>1 DEF InService
    <3>6. \A k \in 1 .. Len(M) : ~ Leaving(M[k])
      <4>1. Len(L) \in Nat
        BY <3>1 DEF Nested, IsSeq
      <4>2. \A k \in 1 .. Len(M) : k \in 1 .. Len(L)
        BY <3>1, <4>1
      <4> QED
        BY <3>1, <4>2
    <3> QED
      BY <3>4, <3>5, <3>6
  <2>9. Levels' = Append(M, Context') /\ stack'[onstk'] = u
    BY <1>1, <1>11 DEF Levels
  <2>10. ip'[1] \notin Traps /\ insvc' = {} /\ cur' = onstk'
    BY <1>1, <1>3, <2>3 DEF Traps, Common, Devices
  <2>11. Turn' /\ Service'
    <3>1. IsSeq(M) /\ Len(M) >= 1 /\ ~ Leaving(Context')
      BY <2>4, <2>7
    <3> HIDE DEF M
    <3> QED
      BY <2>8, <2>9, <2>10, <3>1, OnQuiet
  <2>12. Inv'
    BY <1>14, <2>8, <2>9, <2>11 DEF Inv, Running
  <2>13. ip' = Resume(Caller.ip) /\ ifl' = (Caller.ifl /\ Caller.ip = TaskCode)
    BY <1>6, <1>18, <2>3, ReturnWords
  <2> QED
    BY <1>1, <1>3, <1>10, <1>13, <1>16, <2>12, <2>13
<1> QED
  BY <1>3, <1>17, <1>18

-------------------------------------------------------------------------------
(* Every step *)

\* The kernel's code is in one of the routines.
LEMMA RoutineKinds ==
  ASSUME Inv, phase = "run", ip # TaskCode
  PROVE  ip[1] \in Traps \/ ip[1] \in {"syscall", "invalid"} \/ ip[1] = "switch_to"
<1>1. Activation(Caller, Context, stack[onstk])
  BY RoutineRuns
<1>2. CASE Trapped(Caller, Context, stack[onstk])
  BY <1>2, ContextFacts DEF Trapped
<1>3. CASE Called(Caller, Context, stack[onstk])
  BY <1>3, ContextFacts DEF Called
<1>4. CASE Switched(Caller, Context, stack[onstk])
  <2>1. ip = <<"switch_to", ip[2]>>
    BY <1>4, ContextFacts DEF Switched
  <2> QED
    BY <2>1
<1> QED
  BY <1>1, <1>2, <1>3, <1>4 DEF Activation

LEMMA TrapCalls ==
  ASSUME NEW R \in Traps, NEW i \in 1 .. End(R), Code[R][i][1] = "call"
  PROVE  Code[R][i][2] # "do_syscall"
<1>1. AtBody(R, i)
  BY TrapOps
<1>2. Code[R][i] = <<"call", Handler(R)>>
  BY <1>1 DEF AtBody
<1>3. Handler(R) # "do_syscall"
  BY DEF Handler
<1> QED
  BY <1>2, <1>3

\* The instructions of each kind of routine.
LEMMA OpKinds ==
  ASSUME Inv, phase = "run", ip # TaskCode
  PROVE  \/ /\ ip[1] \in Traps
            /\ Op[1] \in {"cli", "const", "push", "kernelsegs", "call", "eoi", "pop", "drop", "iretq"}
            /\ Op[1] = "call" => Op[2] # "do_syscall"
         \/ /\ ip[1] \in {"syscall", "invalid"}
            /\ Op[1] \in {"push", "checknr", "mov", "load", "enosys", "call", "drop", "pop", "sysretq"}
            /\ Op[1] = "call" => Op[2] = "do_syscall"
         \/ /\ ip[1] = "switch_to"
            /\ Op[1] \in {"push", "pushf", "savesp", "loadsp", "popf", "pop", "ret"}
<1> DEFINE R == ip[1]
           i == ip[2]
           op == Op
<1>1. CASE R \in Traps
  <2>1. i \in 1 .. End(R) /\ op = Code[R][i]
    BY <1>1, TrapTop DEF Op
  <2> HIDE DEF R, i, op
  <2>2. /\ op[1] \in {"cli", "const", "push", "kernelsegs", "call", "eoi", "pop", "drop", "iretq"}
        /\ op[1] = "call" => op[2] # "do_syscall"
    BY <1>1, <2>1, TrapOps, TrapCalls
  <2> QED
    BY <1>1, <2>2 DEF R, op
<1>2. CASE R \in {"syscall", "invalid"}
  <2>1. i \in 1 .. CallLast(R) /\ op = Code[R][i]
    BY <1>2, CallAt
  <2> HIDE DEF R, i, op
  <2>2. /\ op[1] \in {"push", "checknr", "mov", "load", "enosys", "call", "drop", "pop", "sysretq"}
        /\ op[1] = "call" => op[2] = "do_syscall"
    BY <1>2, <2>1, CallOps
  <2> QED
    BY <1>2, <2>2 DEF R, op
<1>3. CASE R = "switch_to"
  BY <1>3, SwitchAt
<1> QED
  BY <1>1, <1>2, <1>3, RoutineKinds

\* do_syscall is called in one place.
LEMMA DoSyscallAt ==
  ASSUME Inv, AtDoSyscall
  PROVE  ip = DoSyscall /\ ip # TaskCode /\ phase = "run"
<1>1. phase = "run" /\ ip # TaskCode /\ Op[1] = "call" /\ Op[2] = "do_syscall"
  BY DEF AtDoSyscall, At
<1>2. ip[1] \in {"syscall", "invalid"}
  BY <1>1, OpKinds
<1> DEFINE R == ip[1]
           i == ip[2]
           op == Op
<1>3. R \in {"syscall", "invalid"} /\ i \in 1 .. CallLast(R) /\ op = Code[R][i] /\ op[1] = "call"
  BY <1>1, <1>2, CallAt
<1>4. ip = <<R, i>>
  BY <1>1, <1>2, CallTop
<1> HIDE DEF R, i, op
<1>5. R = "syscall" /\ i = 23
  BY <1>3, CallOps
<1> QED
  BY <1>1, <1>4, <1>5 DEF DoSyscall

\* Where schedule is called a task runs on its own stack, interrupts on.
LEMMA Callers ==
  ASSUME Inv, phase = "run", ip \in {TaskCode, DoSyscall}
  PROVE  /\ IsLevel(Context) /\ cur = onstk /\ onstk \in Tasks /\ ifl = TRUE
         /\ \A r \in Apart : regs[r] = Own(onstk)[r]
         /\ \A k \in 1 .. Len(Levels) : ~ Leaving(Levels[k])
<1> DEFINE L == Levels
           c == Context
           st == stack[onstk]
<1>1. Nested(L, st) /\ c = L[Len(L)] /\ c.ip \in {TaskCode, DoSyscall}
  <2>1. IsSeq(Ctx) /\ Nested(Levels, stack[onstk])
    BY DEF Inv, Running, Stacks, Ctx
  <2> QED
    BY <2>1, LevelsFacts, ContextFacts
<1> HIDE DEF L, c, st
<1>2. /\ \A k \in 1 .. Len(L) : ~ Leaving(L[k])
      /\ \A r \in Apart : c.regs[r] = Own(c.onstk)[r]
      /\ c.ifl = TRUE /\ c.onstk \in Tasks /\ IsLevel(c)
  BY <1>1, QuietLevels
<1>3. cur = onstk
  BY <1>2 DEF Inv, Running, Turn, L
<1> QED
  BY <1>2, <1>3, ContextFacts DEF L, c

\* schedule calls switch_to.
LEMMA StepCallSwitchTo ==
  ASSUME Inv, NEW next \in Tasks, CallSwitchTo(next)
  PROVE  Inv'
<1> DEFINE w == ReturnWord(cur, ip, ifl)
           h == Len(stack[onstk])
           u == stack'[onstk]
<1>1. /\ phase = "run" /\ Nest /\ ip' = <<"switch_to", 1>>
      /\ regs' = [r \in Regs |-> CASE r = "rdi" -> <<"task", cur>> [] r = "rsi" -> <<"task", next>>
                                   [] r \in Scratch \ {"rdi", "rsi"} -> Junk [] OTHER -> regs[r]]
      /\ PushOn(<<w>>) /\ onstk' = onstk /\ cur' = next /\ ifl' = FALSE /\ thread_sp' = thread_sp
      /\ insvc' = insvc /\ phase' = phase /\ next # cur
  BY DEF CallSwitchTo, Nest
<1>2. ip \in {TaskCode, DoSyscall}
  BY DoSyscallAt DEF CallSwitchTo
<1>3. /\ IsLevel(Context) /\ cur = onstk /\ onstk \in Tasks /\ ifl = TRUE
      /\ \A r \in Apart : regs[r] = Own(onstk)[r]
      /\ \A k \in 1 .. Len(Levels) : ~ Leaving(Levels[k])
  BY <1>1, <1>2, Callers
<1>4. /\ IsRegs(regs') /\ regs'["rdi"] = <<"task", cur>> /\ regs'["rsi"] = <<"task", next>>
      /\ \A r \in Apart : regs'[r] = regs[r]
  <2>1. "rdi" \in Regs /\ "rsi" \in Regs /\ "rsi" # "rdi"
    BY SwitchRegFacts
  <2>2. \A r \in Apart : r \in Regs /\ r # "rdi" /\ r # "rsi" /\ r \notin Scratch \ {"rdi", "rsi"}
    BY SwitchRegFacts
  <2>3. \A r \in Apart : regs'[r] = regs[r]
    BY <1>1, <2>2
  <2>4. regs'["rdi"] = <<"task", cur>> /\ regs'["rsi"] = <<"task", next>>
    BY <1>1, <2>1
  <2>5. IsRegs(regs')
    BY <1>1 DEF IsRegs
  <2> QED
    BY <2>3, <2>4, <2>5
<1>5. w = ReturnWord(onstk, ip, TRUE) /\ h \in Nat
  BY <1>3 DEF Inv, Stacks, IsSeq
<1> HIDE DEF w
<1>6. stack' = [stack EXCEPT ![onstk] = stack'[onstk]] /\ IsPush(u, stack[onstk], w)
  BY <1>1, StackPush
<1>7. /\ IsSeq(u) /\ Len(u) = h + 1 /\ u[h + 1] = w
      /\ \A k \in 1 .. h : u[k] = stack[onstk][k]
  BY <1>6 DEF IsPush
<1>8. Switched(Context, Context', u)
  <2> DEFINE a == Context'
             c == Context
             i == 1
             old == Own(onstk)
  <2>1. /\ a.ip = <<"switch_to", i>> /\ a.ip[2] = i /\ a.ifl = FALSE /\ a.onstk = onstk
        /\ a.height = h + 1 /\ a.regs = regs'
    BY <1>1, <1>7 DEF Context
  <2>2. c.ip = ip /\ c.onstk = onstk /\ c.height = h
    BY ContextFacts
  <2>3. i \in 1 .. 17 /\ SwitchWords(i) = 1 /\ SwitchSaved(i) = 0 /\ i \notin 8 .. 10
    BY DEF SwitchWords, SwitchSaved
  <2>4. \A r \in Apart : a.regs[r] = old[r]
    BY <1>3, <1>4, <2>1
  <2>5. u[c.height + 1] = ReturnWord(a.onstk, c.ip, TRUE) /\ old = Own(a.onstk)
    BY <1>5, <1>7, <2>1, <2>2
  <2>6. c.ip \in {TaskCode, DoSyscall}
    BY <1>2, <2>2
  <2> HIDE DEF a, c, u, i, old, h
  <2>7. Kept(u, c.height + 1, SwitchRegs, SwitchSaved(i), Apart, old, a.regs)
    BY <2>3, <2>4, KeptNone
  <2>8. a.height = c.height + SwitchWords(i) /\ a.onstk = c.onstk
    BY <2>1, <2>2, <2>3
  <2>9. Switched(c, a, u)
    BY <2>1, <2>3, <2>5, <2>6, <2>7, <2>8, Zenon DEF Switched
  <2> QED
    BY <2>9 DEF a, c
<1>9. Activation(Context, Context', u)
  BY <1>8 DEF Activation
<1>10. Leaving(Context') /\ Goes(Context)'
  BY <1>1, <1>3, <1>4 DEF Leaving, Goes, Context
<1>11. insvc' = insvc \cup Pending(ip') /\ cur' \in Tasks /\ phase' = "run"
  BY <1>1 DEF Pending, Irqs, Devices
<1>12. Len(stack[onstk]) <= Len(stack'[onstk])
  BY <1>5, <1>7
<1> QED
  BY <1>1, <1>3, <1>4, <1>6, <1>7, <1>9, <1>10, <1>11, <1>12, Enters

\* Nothing changes.
LEMMA NoStep ==
  ASSUME Inv, UNCHANGED vars
  PROVE  Inv'
<1>1. /\ regs' = regs /\ stack' = stack /\ onstk' = onstk /\ cur' = cur /\ ip' = ip /\ ifl' = ifl
      /\ thread_sp' = thread_sp /\ insvc' = insvc
      /\ phase' = phase /\ ctx' = ctx
  BY DEF vars
<1>2. Context' = Context /\ Levels' = Levels
  BY <1>1 DEF Levels, Context, Ctx
<1>3. Turn' <=> Turn
  BY <1>1, <1>2 DEF Turn, Goes
<1>4. Service' <=> Service
  BY <1>1, <1>2 DEF Service
<1>5. Running' <=> Running
  BY <1>1, <1>2, <1>3, <1>4 DEF Running
<1>6. Stacks' <=> Stacks
  BY <1>1 DEF Stacks
<1>7. Sleeping' <=> Sleeping
  BY <1>1 DEF Sleeping, Framed
<1> QED
  BY <1>1, <1>5, <1>6, <1>7 DEF Inv

LEMMA NextInv ==
  ASSUME Inv, [Next]_vars
  PROVE  Inv'
<1>1. CASE PageFault
  BY <1>1, StepPageFault
<1>2. CASE Exception
  BY <1>2, StepException
<1>3. CASE Syscall
  BY <1>3, StepSyscall
<1>4. CASE \E line \in {0, 1, 7} : Interrupt(line)
  BY <1>4, StepInterrupt
<1>5. CASE \E t \in Tasks : CallSwitchTo(t)
  BY <1>5, StepCallSwitchTo
<1>6. CASE Push
  <2>1. phase = "run" /\ ip # TaskCode
    BY <1>6 DEF Push, At
  <2> QED
    BY <1>6, <2>1, RoutineKinds, TrapPush, CallPush, SwitchPush
<1>7. CASE Pop
  <2>1. phase = "run" /\ ip # TaskCode
    BY <1>7 DEF Pop, At
  <2> QED
    BY <1>7, <2>1, RoutineKinds, TrapPop, CallPop, SwitchPop
<1>8. CASE PushConstant
  <2>1. phase = "run" /\ ip # TaskCode /\ Op[1] = "const"
    BY <1>8 DEF PushConstant, At
  <2>2. ip[1] \in Traps
    BY <2>1, OpKinds
  <2> QED
    BY <1>8, <2>2, TrapPushConstant
<1>9. CASE Drop
  <2>1. phase = "run" /\ ip # TaskCode /\ Op[1] = "drop"
    BY <1>9 DEF Drop, At
  <2>2. ip[1] \in Traps \/ ip[1] \in {"syscall", "invalid"}
    BY <2>1, OpKinds
  <2> QED
    BY <1>9, <2>2, TrapDrop, CallDrop
<1>10. CASE Cli
  <2>1. phase = "run" /\ ip # TaskCode /\ Op[1] = "cli"
    BY <1>10 DEF Cli, At
  <2>2. ip[1] \in Traps
    BY <2>1, OpKinds
  <2> QED
    BY <1>10, <2>2, TrapCli
<1>11. CASE Assign
  <2>1. phase = "run" /\ ip # TaskCode /\ Op[1] \in {"mov", "load", "kernelsegs", "enosys"}
    BY <1>11 DEF Assign, At
  <2>2. ip[1] \in Traps \/ ip[1] \in {"syscall", "invalid"}
    BY <2>1, OpKinds
  <2> QED
    BY <1>11, <2>2, TrapKernelSegs, CallAssign
<1>12. CASE Call
  <2>1. phase = "run" /\ ip # TaskCode /\ Op[1] = "call" /\ Op[2] # "do_syscall"
    BY <1>12 DEF Call, At
  <2>2. ip[1] \in Traps
    BY <2>1, OpKinds
  <2> QED
    BY <1>12, <2>2, TrapCall
<1>13. CASE do_syscall
  <2>1. phase = "run" /\ ip # TaskCode /\ Op[1] = "call" /\ Op[2] = "do_syscall"
    BY <1>13 DEF do_syscall, AtDoSyscall, At
  <2>2. ip[1] \in {"syscall", "invalid"}
    BY <2>1, OpKinds
  <2> QED
    BY <1>13, <2>2, StepDoSyscall
<1>14. CASE Eoi
  <2>1. phase = "run" /\ ip # TaskCode /\ Op[1] = "eoi"
    BY <1>14 DEF Eoi, At
  <2>2. ip[1] \in Traps
    BY <2>1, OpKinds
  <2> QED
    BY <1>14, <2>2, TrapEoi
<1>15. CASE Iretq
  <2>1. phase = "run" /\ ip # TaskCode /\ Op[1] = "iretq"
    BY <1>15 DEF Iretq, At
  <2>2. ip[1] \in Traps
    BY <2>1, OpKinds
  <2> QED
    BY <1>15, <2>2, TrapIretq
<1>16. CASE CheckNr
  <2>1. phase = "run" /\ ip # TaskCode /\ Op[1] = "checknr"
    BY <1>16 DEF CheckNr, At
  <2>2. ip[1] \in {"syscall", "invalid"}
    BY <2>1, OpKinds
  <2> QED
    BY <1>16, <2>2, StepCheckNr
<1>17. CASE Sysretq
  <2>1. phase = "run" /\ ip # TaskCode /\ Op[1] = "sysretq"
    BY <1>17 DEF Sysretq, At
  <2>2. ip[1] \in {"syscall", "invalid"}
    BY <2>1, OpKinds
  <2> QED
    BY <1>17, <2>2, StepSysretq
<1>18. CASE PushFlags
  <2>1. phase = "run" /\ ip # TaskCode /\ Op[1] = "pushf"
    BY <1>18 DEF PushFlags, At
  <2>2. ip[1] = "switch_to"
    BY <2>1, OpKinds
  <2> QED
    BY <1>18, <2>2, StepPushFlags
<1>19. CASE PopFlags
  <2>1. phase = "run" /\ ip # TaskCode /\ Op[1] = "popf"
    BY <1>19 DEF PopFlags, At
  <2>2. ip[1] = "switch_to"
    BY <2>1, OpKinds
  <2> QED
    BY <1>19, <2>2, StepPopFlags
<1>20. CASE SaveSp
  <2>1. phase = "run" /\ ip # TaskCode /\ Op[1] = "savesp"
    BY <1>20 DEF SaveSp, At
  <2>2. ip[1] = "switch_to"
    BY <2>1, OpKinds
  <2> QED
    BY <1>20, <2>2, StepSaveSp
<1>21. CASE LoadSp
  <2>1. phase = "run" /\ ip # TaskCode /\ Op[1] = "loadsp"
    BY <1>21 DEF LoadSp, At
  <2>2. ip[1] = "switch_to"
    BY <2>1, OpKinds
  <2> QED
    BY <1>21, <2>2, StepLoadSp
<1>22. CASE Ret
  <2>1. phase = "run" /\ ip # TaskCode /\ Op[1] = "ret"
    BY <1>22 DEF Ret, At
  <2>2. ip[1] = "switch_to"
    BY <2>1, OpKinds
  <2> QED
    BY <1>22, <2>2, StepRet
<1>23. CASE UNCHANGED vars
  BY <1>23, NoStep
<1> QED
  BY <1>1, <1>2, <1>3, <1>4, <1>5, <1>6, <1>7, <1>8, <1>9, <1>10, <1>11, <1>12, <1>13, <1>14,
     <1>15, <1>16, <1>17, <1>18, <1>19, <1>20, <1>21, <1>22, <1>23 DEF Next, Stopped

-------------------------------------------------------------------------------

\* Whatever interrupts what, at whatever instruction and however deep, every
\* entry under way has each register of the code it interrupted either in
\* place or in a known word of the stack.
THEOREM TrapInv == Spec => []Inv
<1>1. Init => Inv
  BY StepInit
<1>2. Inv /\ [Next]_vars => Inv'
  BY NextInv
<1> QED
  BY <1>1, <1>2, PTL DEF Spec

\* A task in its own code has its own registers, its own, empty kernel stack and
\* interrupts on, and no line is in service, however often it was interrupted,
\* switched from and resumed.
THEOREM TrapTaskUndisturbed == Spec => []TaskUndisturbed
<1>1. Inv => TaskUndisturbed
  <2> SUFFICES ASSUME Inv, phase = "run", ip = TaskCode
               PROVE  /\ regs = Own(cur) /\ onstk = cur /\ stack[cur] = << >> /\ ifl
                      /\ insvc = {} /\ ctx[cur] = << >>
    BY DEF TaskUndisturbed
  <2>1. /\ Ctx = << >> /\ TaskLevel(Context) /\ cur = onstk /\ insvc = {}
        /\ stack[onstk] = << >>
    BY TaskRuns
  <2>2. ifl = TRUE /\ regs = Own(onstk)
    BY <2>1, ContextFacts DEF TaskLevel
  <2> QED
    BY <2>1, <2>2 DEF Ctx
<1> QED
  BY <1>1, TrapInv, PTL

\* Every task whose stack is not in use has on it exactly what switch_to needs
\* to resume it, its saved stack pointer is the top of that, and under it lies
\* what the system call it may be in will restore.
THEOREM TrapSuspendedIntact == Spec => []SuspendedIntact
<1>1. Inv => SuspendedIntact
  <2> SUFFICES ASSUME Inv, NEW t \in Tasks \ {onstk}
               PROVE  LET c     == Last(ctx[t])
                          frame == SwitchFrame(t, c.ip)
                      IN  /\ thread_sp[t] = Len(stack[t]) /\ Len(stack[t]) = c.height + Len(frame)
                          /\ \A i \in DOMAIN frame : stack[t][c.height + i] = frame[i]
                          /\ c.ip # TaskCode =>
                               \A i \in DOMAIN SwitchRegs : stack[t][i] = <<t, SwitchRegs[i]>>
    BY DEF SuspendedIntact
  <2> DEFINE M == ctx[t]
             c == M[Len(M)]
             st == stack[t]
             f == SwitchFrame(t, c.ip)
  <2>1. Nested(M, st) /\ Framed(t, c)
    BY DEF Inv, Sleeping
  <2>2. /\ c.ip \in {TaskCode, DoSyscall} /\ c.onstk = t /\ Len(st) = c.height + 8
        /\ thread_sp[t] = Len(st) /\ \A i \in 1 .. 8 : st[c.height + i] = f[i]
    BY <2>1 DEF Framed
  <2>3. Len(f) = 8 /\ DOMAIN f = 1 .. 8
    <3>1. IsSeq(f) /\ Len(f) = 8
      BY FrameFacts
    <3> HIDE DEF f
    <3> QED
      BY <3>1 DEF IsSeq
  <2>4. DOMAIN SwitchRegs = 1 .. 6
    BY SwitchFacts DEF IsSeq
  <2>5. ASSUME c.ip = DoSyscall, NEW i \in 1 .. 6 PROVE st[i] = <<t, SwitchRegs[i]>>
    <3> HIDE DEF M, c, st, f
    <3>1. TaskLevel(M[1]) /\ Called(M[1], c, st)
      BY <2>1, <2>2, <2>5, QuietLevels DEF c
    <3>2. CallSaved(c.ip[1], c.ip[2]) = 6
      BY <2>5 DEF DoSyscall, CallSaved, CallWords
    <3>3. st[i] = M[1].regs[SwitchRegs[i]] /\ c.onstk = M[1].onstk
      BY <3>1, <3>2 DEF Called
    <3>4. M[1].regs = Own(t)
      BY <2>2, <3>1, <3>3 DEF TaskLevel
    <3>5. Own(t)[SwitchRegs[i]] = <<t, SwitchRegs[i]>>
      BY OwnFacts, SwitchFacts
    <3> QED
      BY <3>3, <3>4, <3>5
  <2>6. Last(ctx[t]) = c
    BY DEF Last
  <2> HIDE DEF c, st, f
  <2> QED
    BY <2>2, <2>3, <2>4, <2>5, <2>6 DEF st, f
<1> QED
  BY <1>1, TrapInv, PTL

\* iretq gives back the registers, the flag, the instruction and the height of
\* the stack that were interrupted, from every trap routine at every depth.
THEOREM TrapIretRestores == Spec => IretRestores
<1>1. ASSUME Inv, Iretq
      PROVE  LET c == Last(ctx[onstk])
             IN  /\ phase' = "run" /\ regs' = c.regs /\ ip' = c.ip /\ ifl' = c.ifl
                 /\ onstk = c.onstk /\ Len(stack'[onstk]) = c.height
  <2>1. phase = "run" /\ ip # TaskCode /\ Op[1] = "iretq"
    BY <1>1 DEF Iretq, At
  <2>2. ip[1] \in Traps
    BY <1>1, <2>1, OpKinds
  <2>3. /\ phase' = "run" /\ regs' = Caller.regs /\ ip' = Caller.ip /\ ifl' = Caller.ifl
        /\ onstk = Caller.onstk /\ Len(stack'[onstk]) = Caller.height
    BY <1>1, <2>2, TrapIretq
  <2> QED
    BY <2>3 DEF Caller, Last, Ctx
<1>2. Inv /\ [Next]_vars =>
        [Iretq => LET c == Last(ctx[onstk])
                  IN  /\ phase' = "run" /\ regs' = c.regs /\ ip' = c.ip /\ ifl' = c.ifl
                      /\ onstk = c.onstk /\ Len(stack'[onstk]) = c.height]_vars
  BY <1>1
<1> QED
  BY <1>2, TrapInv, PTL DEF Spec, IretRestores

\* sysretq finds the caller's callee-saved registers and stack pointer on every
\* path of a system call, and a call rejected at the entry returns.
THEOREM TrapSysretPreserves == Spec => SysretPreserves
<1>1. ASSUME Inv, Sysretq
      PROVE  /\ \A r \in CalleeSaved : regs[r] = <<cur, r>>
             /\ stack[onstk] = <<>>
             /\ ip[1] = "invalid" => phase' = "run"
  <2>1. phase = "run" /\ ip # TaskCode /\ Op[1] = "sysretq"
    BY <1>1 DEF Sysretq, At
  <2>2. ip[1] \in {"syscall", "invalid"}
    BY <1>1, <2>1, OpKinds
  <2> QED
    BY <1>1, <2>2, StepSysretq
<1>2. Inv /\ [Next]_vars =>
        [Sysretq => /\ \A r \in CalleeSaved : regs[r] = <<cur, r>>
                    /\ stack[onstk] = <<>>
                    /\ ip[1] = "invalid" => phase' = "run"]_vars
  BY <1>1
<1> QED
  BY <1>2, TrapInv, PTL DEF Spec, SysretPreserves

\* A task that switch_to resumes goes on behind its own call of schedule, on its
\* own stack, at the height and with the callee-saved registers and the flag it
\* had there, in its own code or in a system call, however deep what happened
\* since was nested.
THEOREM TrapSwitchResumes == Spec => SwitchResumes
<1>1. ASSUME Inv, Ret
      PROVE  LET c == Last(ctx[onstk])
             IN  /\ phase' = "run" /\ cur = onstk /\ c.onstk = onstk
                 /\ ip' = Resume(c.ip) /\ ifl' = (c.ifl /\ c.ip = TaskCode)
                 /\ \A r \in CalleeSaved : regs'[r] = c.regs[r]
                 /\ Len(stack'[onstk]) = c.height
  <2>1. phase = "run" /\ ip # TaskCode /\ Op[1] = "ret"
    BY <1>1 DEF Ret, At
  <2>2. ip[1] = "switch_to"
    BY <1>1, <2>1, OpKinds
  <2>3. /\ phase' = "run" /\ cur = onstk /\ Caller.onstk = onstk
        /\ ip' = Resume(Caller.ip) /\ ifl' = (Caller.ifl /\ Caller.ip = TaskCode)
        /\ \A r \in CalleeSaved : regs'[r] = Caller.regs[r]
        /\ Len(stack'[onstk]) = Caller.height
    BY <1>1, <2>2, StepRet
  <2>4. Last(ctx[onstk]) = Caller
    BY DEF Caller, Last, Ctx
  <2> QED
    BY <2>3, <2>4, Zenon
<1>2. Inv /\ [Next]_vars =>
        [Ret => LET c == Last(ctx[onstk])
                IN  /\ phase' = "run" /\ cur = onstk /\ c.onstk = onstk
                    /\ ip' = Resume(c.ip) /\ ifl' = (c.ifl /\ c.ip = TaskCode)
                    /\ \A r \in CalleeSaved : regs'[r] = c.regs[r]
                    /\ Len(stack'[onstk]) = c.height]_vars
  BY <1>1
<1> QED
  BY <1>2, TrapInv, PTL DEF Spec, SwitchResumes
===============================================================================
