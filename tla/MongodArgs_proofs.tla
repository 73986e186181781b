--------------------------- MODULE MongodArgs_proofs ---------------------------
(***************************************************************************)
(* What the loop of ensure_arg_val does to a command line of any length,   *)
(* and what that makes of the temporary server's command line.             *)
(***************************************************************************)
EXTENDS MongodArgs, WellFoundedInduction, SequenceTheorems, TLAPS

\* The form in which induction is used below: take the least counterexample.
LEMMA LeastNat ==
    ASSUME NEW S \in SUBSET Nat, S # {}
    PROVE  \E m \in S : \A n \in S : m <= n
<1> DEFINE R == OpToRel(<, Nat)
<1>1. IsWellFoundedOn(R, Nat)
  BY NatLessThanWellFounded
<1>2. PICK x \in S : \A y \in S : ~ (<<y, x>> \in R)
  <2> HIDE DEF R
  <2> QED
    BY <1>1, WFMin
<1>3. \A y \in S : ~ (y < x)
  BY <1>2 DEF OpToRel
<1> QED
  BY <1>3

-----------------------------------------------------------------------------
\* The loop, argument by argument.

Begin == [kept |-> <<>>, skip |-> 0]

Unfolds(loop, flag, args, n) ==
    loop = [i \in 0 .. n |-> IF i = 0 THEN Begin ELSE Passed(flag, args[i], loop[i - 1])]

\* Some function is the loop over the first n arguments.
LEMMA LoopExists ==
    ASSUME NEW flag, NEW args, NEW n \in Nat
    PROVE  \E loop : Unfolds(loop, flag, args, n)
<1> DEFINE Without == {k \in Nat : ~ \E loop : Unfolds(loop, flag, args, k)}
<1>1. SUFFICES ASSUME Without # {} PROVE FALSE
  OBVIOUS
<1>2. PICK k \in Without : \A j \in Without : k <= j
  BY <1>1, LeastNat
<1>3. CASE k = 0
  <2>1. Unfolds([i \in 0 .. 0 |-> Begin], flag, args, 0)
    BY DEF Unfolds
  <2> QED
    BY <1>2, <1>3, <2>1
<1>4. CASE k # 0
  <2>1. k - 1 \in Nat /\ k - 1 \notin Without
    BY <1>2, <1>4
  <2>2. PICK before : Unfolds(before, flag, args, k - 1)
    BY <2>1
  <2> DEFINE loop == [i \in 0 .. k |-> IF i = k THEN Passed(flag, args[k], before[k - 1])
                                                ELSE before[i]]
  <2>3. loop = [i \in 0 .. k |-> IF i = 0 THEN Begin ELSE Passed(flag, args[i], loop[i - 1])]
    <3>1. \A i \in 0 .. k - 1 :
            before[i] = IF i = 0 THEN Begin ELSE Passed(flag, args[i], before[i - 1])
      BY <2>2 DEF Unfolds
    <3>2. \A i \in 0 .. k : loop[i] = IF i = 0 THEN Begin ELSE Passed(flag, args[i], loop[i - 1])
      <4> TAKE i \in 0 .. k
      <4>1. CASE i = k
        BY <1>4, <2>1, <4>1
      <4>2. CASE i # k
        BY <1>4, <2>1, <3>1, <4>2
      <4> QED
        BY <4>1, <4>2
    <3> HIDE DEF loop
    <3>3. loop = [i \in 0 .. k |-> loop[i]]
      BY DEF loop
    <3> QED
      BY <3>2, <3>3
  <2>4. Unfolds(loop, flag, args, k)
    BY <2>3 DEF Unfolds
  <2> QED
    BY <1>2, <2>4
<1> QED
  BY <1>3, <1>4

\* The equations the loop is computed with.
LEMMA LoopSteps ==
    ASSUME NEW flag, NEW args \in Seq(Arguments)
    PROVE  /\ Loop(flag, args)[0] = Begin
           /\ \A i \in 1 .. Len(args) :
                Loop(flag, args)[i] = Passed(flag, args[i], Loop(flag, args)[i - 1])
<1>1. Len(args) \in Nat
  OBVIOUS
<1>2. \E loop : Unfolds(loop, flag, args, Len(args))
  BY <1>1, LoopExists
<1>3. Unfolds(Loop(flag, args), flag, args, Len(args))
  BY <1>2 DEF Loop, Unfolds, Begin
<1> QED
  BY <1>1, <1>3 DEF Unfolds

-----------------------------------------------------------------------------
\* What is kept of a command line in which no option lacks its value: each
\* argument but the flag and what follows it bare, in their order.

Stays(flag, args, p) == args[p].flag # flag /\ ~ (p > 1 /\ args[p - 1] = Bare(flag))

\* kept are the arguments that stay among the first n, idx their places.
Selected(kept, idx, flag, args, n) ==
    /\ kept \in Seq(Arguments)
    /\ idx \in [1 .. Len(kept) -> 1 .. n]
    /\ \A j \in 1 .. Len(kept) : kept[j] = args[idx[j]] /\ Stays(flag, args, idx[j])
    /\ \A i, j \in 1 .. Len(kept) : i < j => idx[i] < idx[j]
    /\ \A p \in 1 .. n : Stays(flag, args, p) => \E j \in 1 .. Len(kept) : idx[j] = p

LEMMA BareIs ==
    ASSUME NEW flag, NEW arg \in Arguments
    PROVE  arg = Bare(flag) <=> arg.flag = flag /\ arg.value = "none"
BY DEF Arguments, Bare

\* An argument that stays comes last.
LEMMA SelectedAppend ==
    ASSUME NEW flag, NEW args \in Seq(Arguments), NEW n \in 1 .. Len(args),
           NEW kept, NEW idx, Selected(kept, idx, flag, args, n - 1), Stays(flag, args, n)
    PROVE  \E new : Selected(Append(kept, args[n]), new, flag, args, n)
<1> DEFINE longer == Append(kept, args[n])
           new == [j \in 1 .. Len(kept) + 1 |-> IF j = Len(kept) + 1 THEN n ELSE idx[j]]
<1>1. /\ kept \in Seq(Arguments) /\ Len(kept) \in Nat /\ n \in Nat
      /\ idx \in [1 .. Len(kept) -> 1 .. n - 1] /\ args[n] \in Arguments
  BY DEF Selected
<1>2. /\ longer \in Seq(Arguments) /\ Len(longer) = Len(kept) + 1
      /\ \A j \in 1 .. Len(kept) : longer[j] = kept[j]
      /\ longer[Len(kept) + 1] = args[n]
  BY <1>1
<1>3. /\ new \in [1 .. Len(kept) + 1 -> 1 .. n]
      /\ \A j \in 1 .. Len(kept) : new[j] = idx[j] /\ new[j] \in 1 .. n - 1
      /\ new[Len(kept) + 1] = n
  <2>1. \A j \in 1 .. Len(kept) + 1 : j # Len(kept) + 1 => j \in 1 .. Len(kept)
    BY <1>1
  <2>2. \A j \in 1 .. Len(kept) : idx[j] \in 1 .. n - 1 /\ j # Len(kept) + 1
    BY <1>1
  <2> QED
    BY <1>1, <2>1, <2>2
<1> HIDE DEF longer, new
<1>4. \A j \in 1 .. Len(kept) + 1 : j = Len(kept) + 1 \/ j \in 1 .. Len(kept)
  BY <1>1
<1>5. \A j \in 1 .. Len(kept) + 1 : longer[j] = args[new[j]] /\ Stays(flag, args, new[j])
  BY <1>2, <1>3, <1>4 DEF Selected
<1>6. \A i, j \in 1 .. Len(kept) + 1 : i < j => new[i] < new[j]
  <2> SUFFICES ASSUME NEW i \in 1 .. Len(kept) + 1, NEW j \in 1 .. Len(kept) + 1, i < j
               PROVE  new[i] < new[j]
    OBVIOUS
  <2>1. i \in 1 .. Len(kept)
    BY <1>1
  <2>2. CASE j = Len(kept) + 1
    BY <1>1, <1>3, <2>1, <2>2
  <2>3. CASE j \in 1 .. Len(kept)
    BY <1>1, <1>3, <2>1, <2>3 DEF Selected
  <2> QED
    BY <1>4, <2>2, <2>3
<1>7. \A p \in 1 .. n : Stays(flag, args, p) => \E j \in 1 .. Len(kept) + 1 : new[j] = p
  <2> SUFFICES ASSUME NEW p \in 1 .. n, Stays(flag, args, p)
               PROVE  \E j \in 1 .. Len(kept) + 1 : new[j] = p
    OBVIOUS
  <2>1. CASE p = n
    BY <1>1, <1>3, <2>1
  <2>2. CASE p # n
    <3>1. PICK j \in 1 .. Len(kept) : idx[j] = p
      BY <1>1, <2>2 DEF Selected
    <3> QED
      BY <1>1, <1>3, <3>1
  <2> QED
    BY <2>1, <2>2
<1>8. Selected(longer, new, flag, args, n)
  BY <1>2, <1>3, <1>5, <1>6, <1>7 DEF Selected
<1> QED
  BY <1>8 DEF longer

\* One that does not is passed over.
LEMMA SelectedSame ==
    ASSUME NEW flag, NEW args \in Seq(Arguments), NEW n \in 1 .. Len(args),
           NEW kept, NEW idx, Selected(kept, idx, flag, args, n - 1), ~ Stays(flag, args, n)
    PROVE  Selected(kept, idx, flag, args, n)
<1>1. /\ kept \in Seq(Arguments) /\ Len(kept) \in Nat /\ n \in Nat
      /\ idx \in [1 .. Len(kept) -> 1 .. n - 1]
  BY DEF Selected
<1>2. idx \in [1 .. Len(kept) -> 1 .. n]
  BY <1>1
<1>3. \A p \in 1 .. n : Stays(flag, args, p) => p \in 1 .. n - 1
  BY <1>1
<1> QED
  BY <1>1, <1>2, <1>3 DEF Selected

\* After the first n arguments.
LoopInv(flag, args, n) ==
    /\ Loop(flag, args)[n] = [kept |-> Loop(flag, args)[n].kept, skip |-> Loop(flag, args)[n].skip]
    /\ Loop(flag, args)[n].skip = IF n > 0 /\ args[n] = Bare(flag) THEN 1 ELSE 0
    /\ \E idx : Selected(Loop(flag, args)[n].kept, idx, flag, args, n)

\* The three things a turn can do, and the skipping.
LEMMA PassedSkips ==
    ASSUME NEW flag, NEW arg, NEW kept
    PROVE  Passed(flag, arg, [kept |-> kept, skip |-> 1]) = [kept |-> kept, skip |-> 0]
BY DEF Passed

LEMMA PassedReads ==
    ASSUME NEW flag, NEW arg, NEW kept
    PROVE  Passed(flag, arg, [kept |-> kept, skip |-> 0]) =
             IF arg = Bare(flag) THEN [kept |-> kept, skip |-> 1]
             ELSE IF arg.flag = flag THEN [kept |-> kept, skip |-> 0]
             ELSE [kept |-> Append(kept, arg), skip |-> 0]
BY DEF Passed

LEMMA LoopStep ==
    ASSUME NEW flag \in Valued, NEW args \in Seq(Arguments), Paired(args),
           NEW n \in 1 .. Len(args), LoopInv(flag, args, n - 1)
    PROVE  LoopInv(flag, args, n)
<1> DEFINE before == Loop(flag, args)[n - 1]
           after  == Loop(flag, args)[n]
<1>1. /\ after = Passed(flag, args[n], before)
      /\ before = [kept |-> before.kept, skip |-> before.skip]
      /\ before.skip = IF n > 1 /\ args[n - 1] = Bare(flag) THEN 1 ELSE 0
      /\ flag # "none" /\ args[n] \in Arguments
  <2>1. after = Passed(flag, args[n], before)
    BY LoopSteps
  <2>2. before = [kept |-> before.kept, skip |-> before.skip]
    BY DEF LoopInv
  <2>3. before.skip = IF n > 1 /\ args[n - 1] = Bare(flag) THEN 1 ELSE 0
    <3>1. n - 1 > 0 <=> n > 1
      OBVIOUS
    <3> QED
      BY <3>1 DEF LoopInv
  <2>4. args[n] \in Arguments
    OBVIOUS
  <2>5. flag # "none"
    BY DEF Valued
  <2> QED
    BY <2>1, <2>2, <2>3, <2>4, <2>5
<1>2. PICK idx : Selected(before.kept, idx, flag, args, n - 1)
  BY DEF LoopInv
<1>3. n > 1 /\ args[n - 1] = Bare(flag) => args[n].flag = "none"
  <2> SUFFICES ASSUME n > 1, args[n - 1] = Bare(flag) PROVE args[n].flag = "none"
    OBVIOUS
  <2>1. n - 1 \in DOMAIN args /\ (n - 1) + 1 = n
    OBVIOUS
  <2>2. WantsValue(args[n - 1])
    BY DEF WantsValue, Bare
  <2> QED
    BY <2>1, <2>2 DEF Paired
<1>4. args[n] = Bare(flag) <=> args[n].flag = flag /\ args[n].value = "none"
  BY <1>1, BareIs
<1> HIDE DEF before, after
<1>5. /\ before.skip = 1 => before = [kept |-> before.kept, skip |-> 1]
      /\ before.skip = 0 => before = [kept |-> before.kept, skip |-> 0]
  BY <1>1
<1>5a. ASSUME before.skip = 0
       PROVE  after = IF args[n] = Bare(flag) THEN [kept |-> before.kept, skip |-> 1]
                      ELSE IF args[n].flag = flag THEN [kept |-> before.kept, skip |-> 0]
                      ELSE [kept |-> Append(before.kept, args[n]), skip |-> 0]
  <2>1. after = Passed(flag, args[n], [kept |-> before.kept, skip |-> 0])
    BY <1>1, <1>5, <1>5a
  <2>2. Passed(flag, args[n], [kept |-> before.kept, skip |-> 0]) =
          IF args[n] = Bare(flag) THEN [kept |-> before.kept, skip |-> 1]
          ELSE IF args[n].flag = flag THEN [kept |-> before.kept, skip |-> 0]
          ELSE [kept |-> Append(before.kept, args[n]), skip |-> 0]
    BY PassedReads
  <2> QED
    BY <2>1, <2>2
<1>6. CASE before.skip = 1
  <2>1. after = [kept |-> before.kept, skip |-> 0]
    BY <1>1, <1>5, <1>6, PassedSkips
  <2>2. ~ Stays(flag, args, n) /\ args[n] # Bare(flag)
    BY <1>1, <1>3, <1>4, <1>6 DEF Stays
  <2>3. Selected(before.kept, idx, flag, args, n)
    BY <1>2, <2>2, SelectedSame
  <2> QED
    BY <2>1, <2>2, <2>3 DEF LoopInv, after
<1>7. CASE before.skip = 0 /\ args[n] = Bare(flag)
  <2>1. after = [kept |-> before.kept, skip |-> 1]
    BY <1>5a, <1>7
  <2>2. ~ Stays(flag, args, n)
    BY <1>4, <1>7 DEF Stays
  <2>3. Selected(before.kept, idx, flag, args, n)
    BY <1>2, <2>2, SelectedSame
  <2> QED
    BY <1>7, <2>1, <2>3 DEF LoopInv, after
<1>8. CASE before.skip = 0 /\ args[n] # Bare(flag) /\ args[n].flag = flag
  <2>1. after = [kept |-> before.kept, skip |-> 0]
    BY <1>5a, <1>8
  <2>2. ~ Stays(flag, args, n)
    BY <1>8 DEF Stays
  <2>3. Selected(before.kept, idx, flag, args, n)
    BY <1>2, <2>2, SelectedSame
  <2> QED
    BY <1>8, <2>1, <2>3 DEF LoopInv, after
<1>9. CASE before.skip = 0 /\ args[n].flag # flag
  <2>1. args[n] # Bare(flag)
    BY <1>4, <1>9
  <2>2. after = [kept |-> Append(before.kept, args[n]), skip |-> 0]
    BY <1>5a, <1>9, <2>1
  <2>3. Stays(flag, args, n)
    BY <1>1, <1>9 DEF Stays
  <2>4. \E new : Selected(Append(before.kept, args[n]), new, flag, args, n)
    BY <1>2, <2>3, SelectedAppend
  <2> QED
    BY <2>1, <2>2, <2>4 DEF LoopInv, after
<1> QED
  BY <1>1, <1>6, <1>7, <1>8, <1>9

\* The loop keeps what stays, and has nothing left to skip in the end.
LEMMA KeptIsSelected ==
    ASSUME NEW flag \in Valued, NEW args \in Seq(Arguments), Paired(args)
    PROVE  /\ \E idx : Selected(Kept(flag, args), idx, flag, args, Len(args))
           /\ ~ ShiftFails(flag, args)
<1> DEFINE Against == {n \in Nat : n <= Len(args) /\ ~ LoopInv(flag, args, n)}
<1>1. Len(args) \in Nat
  OBVIOUS
<1>2. Against = {}
  <2>1. SUFFICES ASSUME Against # {} PROVE FALSE
    OBVIOUS
  <2>2. PICK n \in Against : \A m \in Against : n <= m
    BY <2>1, LeastNat
  <2>3. CASE n = 0
    <3>1. Loop(flag, args)[0] = [kept |-> <<>>, skip |-> 0]
      BY LoopSteps DEF Begin
    <3>2. Selected(<<>>, [j \in 1 .. 0 |-> j], flag, args, 0)
      BY DEF Selected
    <3>3. LoopInv(flag, args, 0)
      BY <3>1, <3>2 DEF LoopInv
    <3> QED
      BY <2>2, <2>3, <3>3
  <2>4. CASE n # 0
    <3>1. n \in 1 .. Len(args) /\ n - 1 \in Nat /\ n - 1 \notin Against
      BY <1>1, <2>2, <2>4
    <3>2. LoopInv(flag, args, n - 1)
      BY <1>1, <3>1
    <3> QED
      BY <2>2, <3>1, <3>2, LoopStep
  <2> QED
    BY <2>3, <2>4
<1>3. LoopInv(flag, args, Len(args))
  BY <1>1, <1>2
<1>4. Len(args) > 0 => args[Len(args)] # Bare(flag)
  <2> SUFFICES ASSUME Len(args) > 0, args[Len(args)] = Bare(flag) PROVE FALSE
    OBVIOUS
  <2>1. WantsValue(args[Len(args)]) /\ Len(args) \in DOMAIN args
    BY <1>1 DEF WantsValue, Bare
  <2> QED
    BY <1>1, <2>1 DEF Paired
<1> QED
  BY <1>3, <1>4 DEF LoopInv, Kept, ShiftFails

-----------------------------------------------------------------------------
\* What is selected of a command line, in terms of that command line.

LEMMA NoneIsNoFlag == "none" \notin Valued
BY DEF Valued

\* The argument behind one that stays and wants a value stays, next to it.
LEMMA Adjacent ==
    ASSUME NEW flag \in Valued, NEW args \in Seq(Arguments), Paired(args), NEW kept, NEW idx,
           Selected(kept, idx, flag, args, Len(args)),
           NEW j \in 1 .. Len(kept), WantsValue(kept[j])
    PROVE  /\ j < Len(kept) /\ idx[j] < Len(args)
           /\ idx[j + 1] = idx[j] + 1 /\ kept[j + 1] = args[idx[j] + 1]
           /\ kept[j + 1].flag = "none"
<1> DEFINE p == idx[j]
<1>1. /\ kept \in Seq(Arguments) /\ Len(kept) \in Nat /\ Len(args) \in Nat
      /\ p \in 1 .. Len(args) /\ kept[j] = args[p] /\ Stays(flag, args, p)
  BY DEF Selected
<1>2. p < Len(args) /\ args[p + 1].flag = "none"
  BY <1>1 DEF Paired
<1>3. Stays(flag, args, p + 1)
  <2>1. args[p].flag # flag
    BY <1>1 DEF Stays
  <2>2. args[p] # Bare(flag)
    BY <2>1 DEF Bare
  <2>3. (p + 1) - 1 = p
    BY <1>1
  <2> QED
    BY <1>2, <2>2, <2>3, NoneIsNoFlag DEF Stays
<1> HIDE DEF p
<1>4. PICK next \in 1 .. Len(kept) : idx[next] = p + 1
  BY <1>1, <1>2, <1>3 DEF Selected
<1>5. \A i \in 1 .. Len(kept) : idx[i] \in 1 .. Len(args)
  BY DEF Selected
<1>6. \A a, b \in 1 .. Len(kept) : a < b => idx[a] < idx[b]
  BY DEF Selected
<1>7. j < next
  <2>1. CASE next < j
    BY <1>1, <1>4, <1>5, <1>6, <2>1 DEF p
  <2>2. CASE next = j
    BY <1>1, <1>4, <2>2 DEF p
  <2> QED
    BY <1>1, <2>1, <2>2
<1>8. next = j + 1
  <2>1. SUFFICES ASSUME j + 1 < next PROVE FALSE
    BY <1>1, <1>7
  <2>2. j + 1 \in 1 .. Len(kept) /\ j < j + 1
    BY <1>1, <2>1
  <2>3. idx[j] < idx[j + 1] /\ idx[j + 1] < idx[next]
    BY <1>6, <2>1, <2>2
  <2> QED
    BY <1>1, <1>4, <1>5, <2>2, <2>3 DEF p
<1>9. kept[j + 1] = args[p + 1]
  BY <1>4, <1>8 DEF Selected
<1> QED
  BY <1>1, <1>2, <1>4, <1>7, <1>8, <1>9 DEF p

\* An argument with another flag stays.
LEMMA OthersStay ==
    ASSUME NEW flag \in Valued, NEW args \in Seq(Arguments), Paired(args), NEW kept, NEW idx,
           Selected(kept, idx, flag, args, Len(args)),
           NEW p \in 1 .. Len(args), args[p].flag \notin {"none", flag}
    PROVE  \E j \in 1 .. Len(kept) : idx[j] = p /\ kept[j] = args[p]
<1>1. Stays(flag, args, p)
  <2> SUFFICES ASSUME p > 1, args[p - 1] = Bare(flag) PROVE FALSE
    BY DEF Stays
  <2>1. p - 1 \in 1 .. Len(args) /\ (p - 1) + 1 = p
    OBVIOUS
  <2>2. WantsValue(args[p - 1])
    BY DEF WantsValue, Bare
  <2> QED
    BY <2>1, <2>2 DEF Paired
<1> QED
  BY <1>1 DEF Selected

LEMMA GivenIs ==
    ASSUME NEW flag, NEW args \in Seq(Arguments), NEW value
    PROVE  value \in Given(flag, args) <=>
             \/ \E i \in 1 .. Len(args) :
                  args[i].flag = flag /\ args[i] # Bare(flag) /\ value = args[i].value
             \/ \E i \in 1 .. Len(args) :
                  args[i] = Bare(flag) /\ i < Len(args) /\ value = args[i + 1].value
BY DEF Given

LEMMA SelectedGiven ==
    ASSUME NEW flag \in Valued, NEW args \in Seq(Arguments), Paired(args), NEW kept, NEW idx,
           Selected(kept, idx, flag, args, Len(args)),
           NEW other \in Valued \ {flag}
    PROVE  Given(other, kept) = Given(other, args)
<1>1. /\ kept \in Seq(Arguments) /\ Len(kept) \in Nat /\ Len(args) \in Nat
      /\ \A j \in 1 .. Len(kept) : idx[j] \in 1 .. Len(args) /\ kept[j] = args[idx[j]]
  BY DEF Selected
<1>2. other # "none" /\ other # flag /\ Bare(other).flag = other /\ WantsValue(Bare(other))
  BY NoneIsNoFlag DEF Bare, WantsValue
<1>3. ASSUME NEW value \in Given(other, kept) PROVE value \in Given(other, args)
  <2>1. CASE \E j \in 1 .. Len(kept) :
               kept[j].flag = other /\ kept[j] # Bare(other) /\ value = kept[j].value
    BY <1>1, <2>1, GivenIs
  <2>2. CASE \E j \in 1 .. Len(kept) :
               kept[j] = Bare(other) /\ j < Len(kept) /\ value = kept[j + 1].value
    <3>1. PICK j \in 1 .. Len(kept) :
            kept[j] = Bare(other) /\ j < Len(kept) /\ value = kept[j + 1].value
      BY <2>2
    <3>2. idx[j] < Len(args) /\ kept[j + 1] = args[idx[j] + 1]
      BY <1>2, <3>1, Adjacent
    <3> QED
      BY <1>1, <3>1, <3>2, GivenIs
  <2> QED
    BY <1>1, <1>3, <2>1, <2>2, GivenIs
<1>4. ASSUME NEW value \in Given(other, args) PROVE value \in Given(other, kept)
  <2>1. CASE \E i \in 1 .. Len(args) :
               args[i].flag = other /\ args[i] # Bare(other) /\ value = args[i].value
    <3>1. PICK i \in 1 .. Len(args) :
            args[i].flag = other /\ args[i] # Bare(other) /\ value = args[i].value
      BY <2>1
    <3>2. \E j \in 1 .. Len(kept) : idx[j] = i /\ kept[j] = args[i]
      BY <1>2, <3>1, OthersStay
    <3> QED
      BY <1>1, <3>1, <3>2, GivenIs
  <2>2. CASE \E i \in 1 .. Len(args) :
               args[i] = Bare(other) /\ i < Len(args) /\ value = args[i + 1].value
    <3>1. PICK i \in 1 .. Len(args) :
            args[i] = Bare(other) /\ i < Len(args) /\ value = args[i + 1].value
      BY <2>2
    <3>2. PICK j \in 1 .. Len(kept) : idx[j] = i /\ kept[j] = args[i]
      BY <1>2, <3>1, OthersStay
    <3>3. j < Len(kept) /\ kept[j + 1] = args[i + 1]
      BY <1>2, <3>1, <3>2, Adjacent
    <3> QED
      BY <1>1, <3>1, <3>2, <3>3, GivenIs
  <2> QED
    BY <1>4, <2>1, <2>2, GivenIs
<1> QED
  BY <1>3, <1>4

\* What no manipulation of a command line may disturb: the other flags.
Preserves(before, after, flag) ==
    /\ after \in Seq(Arguments) /\ Paired(after)
    /\ \A other \in Valued \ {flag} : Given(other, after) = Given(other, before)
    /\ \A other : other \notin {"none", flag} => (HaveArg(other, after) <=> HaveArg(other, before))
    /\ OnceEach(before) => OnceEach(after)
    /\ NoStrays(before) => NoStrays(after)

LEMMA SelectedPreserves ==
    ASSUME NEW flag \in Valued, NEW args \in Seq(Arguments), Paired(args), NEW kept, NEW idx,
           Selected(kept, idx, flag, args, Len(args))
    PROVE  Preserves(args, kept, flag) /\ ~ HaveArg(flag, kept)
<1>1. /\ kept \in Seq(Arguments) /\ Len(kept) \in Nat /\ Len(args) \in Nat
      /\ DOMAIN kept = 1 .. Len(kept) /\ DOMAIN args = 1 .. Len(args)
      /\ \A j \in 1 .. Len(kept) : /\ idx[j] \in 1 .. Len(args) /\ kept[j] = args[idx[j]]
                                   /\ Stays(flag, args, idx[j])
  BY DEF Selected
<1>2. \A a, b \in 1 .. Len(kept) : a < b => idx[a] < idx[b]
  BY DEF Selected
<1>3. \A a, b \in 1 .. Len(kept) : a # b => idx[a] # idx[b]
  <2> TAKE a, b \in 1 .. Len(kept)
  <2>1. CASE a < b
    BY <1>1, <1>2, <2>1
  <2>2. CASE b < a
    BY <1>1, <1>2, <2>2
  <2> QED
    BY <1>1, <2>1, <2>2
<1>4. Paired(kept)
  <2>1. \A j \in 1 .. Len(kept) :
          WantsValue(kept[j]) => j < Len(kept) /\ kept[j + 1].flag = "none"
    BY Adjacent
  <2> QED
    BY <1>1, <2>1 DEF Paired
<1>5. \A other \in Valued \ {flag} : Given(other, kept) = Given(other, args)
  BY SelectedGiven
<1>6. ASSUME NEW other, other \notin {"none", flag}
      PROVE  HaveArg(other, kept) <=> HaveArg(other, args)
  <2>1. ASSUME HaveArg(other, args) PROVE HaveArg(other, kept)
    <3>1. PICK p \in 1 .. Len(args) : args[p].flag = other
      BY <1>1, <2>1 DEF HaveArg
    <3>2. \E j \in 1 .. Len(kept) : idx[j] = p /\ kept[j] = args[p]
      BY <1>6, <3>1, OthersStay
    <3> QED
      BY <1>1, <3>1, <3>2 DEF HaveArg
  <2>2. ASSUME HaveArg(other, kept) PROVE HaveArg(other, args)
    BY <1>1, <2>2 DEF HaveArg
  <2> QED
    BY <2>1, <2>2
<1>7. OnceEach(args) => OnceEach(kept)
  BY <1>1, <1>3 DEF OnceEach
<1>8. ASSUME NoStrays(args) PROVE NoStrays(kept)
  <2> SUFFICES ASSUME NEW j \in 1 .. Len(kept), kept[j].flag = "none"
               PROVE  j > 1 /\ WantsValue(kept[j - 1])
    BY <1>1 DEF NoStrays
  <2> DEFINE p == idx[j]
  <2>1. p \in 1 .. Len(args) /\ args[p].flag = "none" /\ Stays(flag, args, p)
    BY <1>1
  <2> HIDE DEF p
  <2>2. p > 1 /\ WantsValue(args[p - 1])
    BY <1>1, <1>8, <2>1 DEF NoStrays
  <2>3. args[p - 1].flag # flag
    <3>1. p - 1 \in 1 .. Len(args) /\ args[p - 1] \in Arguments
      BY <1>1, <2>1, <2>2
    <3> QED
      BY <2>1, <2>2, <3>1, BareIs DEF Stays, WantsValue
  <2>4. PICK i \in 1 .. Len(kept) : idx[i] = p - 1 /\ kept[i] = args[p - 1]
    <3>1. p - 1 \in 1 .. Len(args) /\ args[p - 1].flag \notin {"none", flag}
      BY <1>1, <2>1, <2>2, <2>3, NoneIsNoFlag DEF WantsValue
    <3> QED
      BY <3>1, OthersStay
  <2>5. i < Len(kept) /\ idx[i + 1] = p /\ WantsValue(kept[i])
    <3>1. WantsValue(kept[i])
      BY <2>2, <2>4
    <3>2. i < Len(kept) /\ idx[i + 1] = idx[i] + 1
      BY <3>1, Adjacent
    <3> QED
      BY <2>1, <2>4, <3>1, <3>2
  <2>6. i + 1 = j
    BY <1>1, <1>3, <2>5 DEF p
  <2> QED
    BY <1>1, <2>5, <2>6
<1>9. ~ HaveArg(flag, kept)
  BY <1>1 DEF HaveArg, Stays
<1> QED
  BY <1>1, <1>4, <1>5, <1>6, <1>7, <1>8, <1>9 DEF Preserves

LEMMA KeptPreserves ==
    ASSUME NEW flag \in Valued, NEW args \in Seq(Arguments), Paired(args)
    PROVE  Preserves(args, Kept(flag, args), flag) /\ ~ HaveArg(flag, Kept(flag, args))
BY KeptIsSelected, SelectedPreserves

-----------------------------------------------------------------------------
\* What is appended.

\* A switch behind a command line, with or without it.
LEMMA AppendSwitch ==
    ASSUME NEW args \in Seq(Arguments), Paired(args), NEW flag \in Texts \ Valued, flag # "none"
    PROVE  /\ \A other \in Valued : Given(other, Append(args, Bare(flag))) = Given(other, args)
           /\ ~ HaveArg(flag, args) => Preserves(args, Append(args, Bare(flag)), flag)
<1> DEFINE new == Append(args, Bare(flag))
           n == Len(args)
<1>1. /\ n \in Nat /\ Bare(flag) \in Arguments /\ Bare(flag).flag = flag
      /\ \A other : other # flag => Bare(flag) # Bare(other)
  BY TextsAssumption DEF Arguments, Bare
<1>2. /\ new \in Seq(Arguments) /\ Len(new) = n + 1 /\ DOMAIN new = 1 .. n + 1
      /\ DOMAIN args = 1 .. n
      /\ \A i \in 1 .. n : new[i] = args[i]
      /\ new[n + 1] = Bare(flag)
  BY <1>1
<1>3. \A i \in 1 .. n + 1 : i \in 1 .. n \/ i = n + 1
  BY <1>1
<1> HIDE DEF new, n
<1>4. \A i \in 1 .. n : WantsValue(args[i]) => i < n /\ args[i + 1].flag = "none" /\ i + 1 \in 1 .. n
  BY <1>1, <1>2 DEF Paired, n
<1>5. Paired(new)
  <2> SUFFICES ASSUME NEW i \in 1 .. n + 1, WantsValue(new[i])
               PROVE  i < n + 1 /\ new[i + 1].flag = "none"
    BY <1>2 DEF Paired
  <2>1. i \in 1 .. n
    BY <1>1, <1>2, <1>3 DEF WantsValue
  <2> QED
    BY <1>1, <1>2, <1>4, <2>1
<1>6. ASSUME NEW other \in Valued \ {flag} PROVE Given(other, new) = Given(other, args)
  <2>1. ASSUME NEW value \in Given(other, new) PROVE value \in Given(other, args)
    <3>1. CASE \E i \in 1 .. n + 1 :
                 new[i].flag = other /\ new[i] # Bare(other) /\ value = new[i].value
      BY <1>1, <1>2, <1>3, <3>1, GivenIs DEF n
    <3>2. CASE \E i \in 1 .. n + 1 :
                 new[i] = Bare(other) /\ i < n + 1 /\ value = new[i + 1].value
      <4>1. PICK i \in 1 .. n + 1 : new[i] = Bare(other) /\ i < n + 1 /\ value = new[i + 1].value
        BY <3>2
      <4>2. i \in 1 .. n /\ WantsValue(args[i]) /\ args[i] = Bare(other)
        BY <1>1, <1>2, <1>3, <4>1 DEF WantsValue, Bare
      <4> QED
        BY <1>2, <1>4, <4>1, <4>2, GivenIs DEF n
    <3> QED
      BY <1>2, <2>1, <3>1, <3>2, GivenIs
  <2>2. ASSUME NEW value \in Given(other, args) PROVE value \in Given(other, new)
    <3>1. CASE \E i \in 1 .. n :
                 args[i].flag = other /\ args[i] # Bare(other) /\ value = args[i].value
      BY <1>1, <1>2, <3>1, GivenIs
    <3>2. CASE \E i \in 1 .. n :
                 args[i] = Bare(other) /\ i < n /\ value = args[i + 1].value
      <4>1. PICK i \in 1 .. n : args[i] = Bare(other) /\ i < n /\ value = args[i + 1].value
        BY <3>2
      <4>2. /\ i \in 1 .. n + 1 /\ i + 1 \in 1 .. n /\ i < n + 1
            /\ new[i] = Bare(other) /\ value = new[i + 1].value
        BY <1>1, <1>2, <4>1
      <4> QED
        BY <1>2, <4>2, GivenIs
    <3> QED
      BY <2>2, <3>1, <3>2, GivenIs DEF n
  <2> QED
    BY <2>1, <2>2
<1>7. \A other : other # flag => (HaveArg(other, new) <=> HaveArg(other, args))
  BY <1>1, <1>2, <1>3 DEF HaveArg
<1>8. ~ HaveArg(flag, args) => (OnceEach(args) => OnceEach(new))
  BY <1>1, <1>2, <1>3 DEF OnceEach, HaveArg
<1>9. NoStrays(args) => NoStrays(new)
  <2> SUFFICES ASSUME NoStrays(args), NEW i \in 1 .. n + 1, new[i].flag = "none"
               PROVE  i > 1 /\ WantsValue(new[i - 1])
    BY <1>2 DEF NoStrays
  <2>1. i \in 1 .. n
    BY <1>1, <1>2, <1>3
  <2>2. i > 1 /\ WantsValue(args[i - 1]) /\ i - 1 \in 1 .. n
    BY <1>1, <1>2, <2>1 DEF NoStrays
  <2> QED
    BY <1>2, <2>2
<1> QED
  BY <1>2, <1>5, <1>6, <1>7, <1>8, <1>9 DEF Preserves, new

\* An option and its value behind a command line without it.
LEMMA AppendOption ==
    ASSUME NEW args \in Seq(Arguments), Paired(args), NEW flag \in Valued \cap Texts,
           ~ HaveArg(flag, args), NEW text \in Texts
    PROVE  /\ Preserves(args, args \o <<Bare(flag), Word(text)>>, flag)
           /\ HaveArg(flag, args \o <<Bare(flag), Word(text)>>)
           /\ Given(flag, args \o <<Bare(flag), Word(text)>>) = {text}
<1> DEFINE new == args \o <<Bare(flag), Word(text)>>
           n == Len(args)
<1>1. /\ n \in Nat /\ Bare(flag) \in Arguments /\ Bare(flag).flag = flag /\ flag # "none"
      /\ Word(text) \in Arguments /\ Word(text).flag = "none" /\ Word(text).value = text
      /\ ~ WantsValue(Word(text)) /\ WantsValue(Bare(flag))
      /\ \A other : other # flag => Bare(flag) # Bare(other)
      /\ \A other : other # "none" => Word(text) # Bare(other)
  BY TextsAssumption, NoneIsNoFlag DEF Arguments, Bare, Word, WantsValue
<1>2. /\ new \in Seq(Arguments) /\ Len(new) = n + 2 /\ DOMAIN new = 1 .. n + 2
      /\ DOMAIN args = 1 .. n
      /\ \A i \in 1 .. n : new[i] = args[i]
      /\ new[n + 1] = Bare(flag) /\ new[n + 2] = Word(text)
  <2> HIDE DEF Bare, Word
  <2> QED
    BY <1>1
<1>3. \A i \in 1 .. n + 2 : i \in 1 .. n \/ i = n + 1 \/ i = n + 2
  BY <1>1
<1> HIDE DEF new, n
<1>4. /\ \A i \in 1 .. n : WantsValue(args[i]) => /\ i < n /\ args[i + 1].flag = "none"
                                                 /\ i + 1 \in 1 .. n
      /\ \A i \in 1 .. n : args[i].flag # flag
  BY <1>1, <1>2 DEF Paired, HaveArg, n
<1>5. Paired(new)
  <2> SUFFICES ASSUME NEW i \in 1 .. n + 2, WantsValue(new[i])
               PROVE  i < n + 2 /\ new[i + 1].flag = "none"
    BY <1>2 DEF Paired
  <2>1. CASE i \in 1 .. n
    BY <1>1, <1>2, <1>4, <2>1
  <2>2. CASE i = n + 1
    <3>1. (n + 1) + 1 = n + 2 /\ n + 1 < n + 2
      BY <1>1
    <3> QED
      BY <1>1, <1>2, <2>2, <3>1
  <2>3. i # n + 2
    BY <1>1, <1>2
  <2> QED
    BY <1>3, <2>1, <2>2, <2>3
<1>6. ASSUME NEW other \in Valued \ {flag} PROVE Given(other, new) = Given(other, args)
  <2>0. other # "none" /\ other # flag
    BY NoneIsNoFlag
  <2>1. ASSUME NEW value \in Given(other, new) PROVE value \in Given(other, args)
    <3>1. CASE \E i \in 1 .. n + 2 :
                 new[i].flag = other /\ new[i] # Bare(other) /\ value = new[i].value
      <4>1. PICK i \in 1 .. n + 2 :
              new[i].flag = other /\ new[i] # Bare(other) /\ value = new[i].value
        BY <3>1
      <4>2. i \in 1 .. n
        BY <1>1, <1>2, <1>3, <2>0, <4>1
      <4> QED
        BY <1>2, <4>1, <4>2, GivenIs DEF n
    <3>2. CASE \E i \in 1 .. n + 2 :
                 new[i] = Bare(other) /\ i < n + 2 /\ value = new[i + 1].value
      <4>1. PICK i \in 1 .. n + 2 : new[i] = Bare(other) /\ i < n + 2 /\ value = new[i + 1].value
        BY <3>2
      <4>2. i \in 1 .. n
        BY <1>1, <1>2, <1>3, <2>0, <4>1
      <4>3. WantsValue(args[i]) /\ args[i] = Bare(other)
        BY <1>2, <4>1, <4>2 DEF WantsValue, Bare
      <4> QED
        BY <1>2, <1>4, <4>1, <4>2, <4>3, GivenIs DEF n
    <3> QED
      BY <1>2, <2>1, <3>1, <3>2, GivenIs
  <2>2. ASSUME NEW value \in Given(other, args) PROVE value \in Given(other, new)
    <3>1. CASE \E i \in 1 .. n :
                 args[i].flag = other /\ args[i] # Bare(other) /\ value = args[i].value
      <4>1. PICK i \in 1 .. n :
              args[i].flag = other /\ args[i] # Bare(other) /\ value = args[i].value
        BY <3>1
      <4>2. i \in 1 .. n + 2 /\ new[i] = args[i]
        BY <1>1, <1>2, <4>1
      <4> QED
        BY <1>2, <4>1, <4>2, GivenIs
    <3>2. CASE \E i \in 1 .. n :
                 args[i] = Bare(other) /\ i < n /\ value = args[i + 1].value
      <4>1. PICK i \in 1 .. n : args[i] = Bare(other) /\ i < n /\ value = args[i + 1].value
        BY <3>2
      <4>2. /\ i \in 1 .. n + 2 /\ i + 1 \in 1 .. n /\ i < n + 2
            /\ new[i] = Bare(other) /\ value = new[i + 1].value
        BY <1>1, <1>2, <4>1
      <4> QED
        BY <1>2, <4>2, GivenIs
    <3> QED
      BY <2>2, <3>1, <3>2, GivenIs DEF n
  <2> QED
    BY <2>1, <2>2
<1>7. \A other : other \notin {"none", flag} => (HaveArg(other, new) <=> HaveArg(other, args))
  <2> SUFFICES ASSUME NEW other, other \notin {"none", flag}
               PROVE  HaveArg(other, new) <=> HaveArg(other, args)
    OBVIOUS
  <2>1. \A i \in 1 .. n : i \in 1 .. n + 2
    BY <1>1
  <2> QED
    BY <1>1, <1>2, <1>3, <2>1 DEF HaveArg
<1>8. OnceEach(args) => OnceEach(new)
  BY <1>1, <1>2, <1>3, <1>4 DEF OnceEach
<1>9. NoStrays(args) => NoStrays(new)
  <2> SUFFICES ASSUME NoStrays(args), NEW i \in 1 .. n + 2, new[i].flag = "none"
               PROVE  i > 1 /\ WantsValue(new[i - 1])
    BY <1>2 DEF NoStrays
  <2>1. CASE i \in 1 .. n
    <3>1. i > 1 /\ WantsValue(args[i - 1]) /\ i - 1 \in 1 .. n
      BY <1>1, <1>2, <2>1 DEF NoStrays
    <3> QED
      BY <1>2, <3>1
  <2>2. CASE i = n + 2
    <3>1. (n + 2) - 1 = n + 1 /\ n + 2 > 1
      BY <1>1
    <3> QED
      BY <1>1, <1>2, <2>2, <3>1
  <2>3. i # n + 1
    BY <1>1, <1>2
  <2> QED
    BY <1>3, <2>1, <2>2, <2>3
<1>10. HaveArg(flag, new)
  <2>1. n + 1 \in 1 .. n + 2
    BY <1>1
  <2> QED
    BY <1>1, <1>2, <2>1 DEF HaveArg
<1>11. Given(flag, new) = {text}
  <2>1. n + 1 \in 1 .. n + 2 /\ n + 1 < n + 2 /\ (n + 1) + 1 = n + 2
    BY <1>1
  <2>2. \A i \in 1 .. n + 2 : new[i].flag = flag => i = n + 1
    BY <1>1, <1>2, <1>3, <1>4
  <2>3. text \in Given(flag, new)
    BY <1>1, <1>2, <2>1, GivenIs
  <2>4. ASSUME NEW value \in Given(flag, new) PROVE value = text
    <3>1. CASE \E i \in 1 .. n + 2 :
                 new[i].flag = flag /\ new[i] # Bare(flag) /\ value = new[i].value
      BY <1>2, <2>2, <3>1
    <3>2. CASE \E i \in 1 .. n + 2 :
                 new[i] = Bare(flag) /\ i < n + 2 /\ value = new[i + 1].value
      BY <1>1, <1>2, <2>1, <2>2, <3>2
    <3> QED
      BY <1>2, <2>4, <3>1, <3>2, GivenIs
  <2> QED
    BY <2>3, <2>4
<1> QED
  BY <1>2, <1>5, <1>6, <1>7, <1>8, <1>9, <1>10, <1>11 DEF Preserves, new

-----------------------------------------------------------------------------
\* The functions of the entrypoint.

LEMMA PreservesTwice ==
    ASSUME NEW flag, NEW a, NEW b, NEW c, Preserves(a, b, flag), Preserves(b, c, flag)
    PROVE  Preserves(a, c, flag)
BY DEF Preserves

\* ensure_arg_val leaves exactly one value for its option, and the rest as it is.
LEMMA EnsureArgValSets ==
    ASSUME NEW args \in Seq(Arguments), Paired(args), NEW flag \in Valued \cap Texts,
           NEW text \in Texts
    PROVE  /\ Preserves(args, EnsureArgVal(flag, text, args), flag)
           /\ Given(flag, EnsureArgVal(flag, text, args)) = {text}
<1> DEFINE kept == Kept(flag, args)
<1>1. Preserves(args, kept, flag) /\ ~ HaveArg(flag, kept)
  BY KeptPreserves
<1>2. kept \in Seq(Arguments) /\ Paired(kept)
  BY <1>1 DEF Preserves
<1> HIDE DEF kept
<1>3. /\ Preserves(kept, kept \o <<Bare(flag), Word(text)>>, flag)
      /\ Given(flag, kept \o <<Bare(flag), Word(text)>>) = {text}
  BY <1>1, <1>2, AppendOption
<1> QED
  BY <1>1, <1>3, PreservesTwice DEF EnsureArgVal, kept

\* ensure_arg does, with a switch.
LEMMA EnsureArgKeeps ==
    ASSUME NEW args \in Seq(Arguments), Paired(args), NEW flag \in Texts \ Valued, flag # "none"
    PROVE  Preserves(args, EnsureArg(flag, args), flag)
<1>1. CASE HaveArg(flag, args)
  BY <1>1 DEF EnsureArg, Preserves
<1>2. CASE ~ HaveArg(flag, args)
  BY <1>2, AppendSwitch DEF EnsureArg
<1> QED
  BY <1>1, <1>2

\* The arguments of the temporary server.  Whatever a command line says of the
\* address and the port, it listens where it is told to; and it is told nothing
\* that mongod does not accept, if the command line is one that mongod accepts
\* and serves with (entrypoint.sh:136-157).
THEOREM TemporaryServerArgs ==
    ASSUME NEW args \in Seq(Arguments), Paired(args)
    PROVE  /\ Given("--bind_ip", TemporaryArgs(args)) = {"127.0.0.1"}
           /\ Given("--port", TemporaryArgs(args)) = {"27017"}
           /\ OnceEach(args) /\ NoStrays(args) /\ ~ HaveArg("--fork", args)
                => Accepts(TemporaryArgs(args))
<1> DEFINE local    == EnsureArgVal("--bind_ip", "127.0.0.1", args)
           private  == EnsureArgVal("--port", "27017", local)
           tls      == EnsureArgVal("--sslMode", SslMode(args), private)
           written  == EnsureArgVal("--logpath", "stdout", tls)
           logged   == EnsureArg("--logappend", written)
           pid      == EnsureArgVal("--pidfilepath", "pidfile", logged)
           forked   == Append(pid, Bare("--fork"))
<1>1. /\ {"--bind_ip", "--port", "--sslMode", "--logpath", "--pidfilepath"}
           \subseteq Valued \cap Texts
      /\ {"127.0.0.1", "27017", "allowSSL", "disabled", "stdout", "pidfile"} \subseteq Texts
      /\ {"--logappend", "--fork"} \subseteq Texts \ Valued
  BY TextsAssumption DEF Valued
<1>2. Preserves(args, local, "--bind_ip") /\ Given("--bind_ip", local) = {"127.0.0.1"}
  BY <1>1, EnsureArgValSets
<1> HIDE DEF local
<1>3. local \in Seq(Arguments) /\ Paired(local)
  BY <1>2 DEF Preserves
<1>4. Preserves(local, private, "--port") /\ Given("--port", private) = {"27017"}
  BY <1>1, <1>3, EnsureArgValSets
<1> HIDE DEF private
<1>5. private \in Seq(Arguments) /\ Paired(private)
  BY <1>4 DEF Preserves
<1>6. Preserves(private, tls, "--sslMode") /\ Given("--sslMode", tls) = {SslMode(args)}
  BY <1>1, <1>5, EnsureArgValSets DEF SslMode
<1> HIDE DEF tls
<1>7. tls \in Seq(Arguments) /\ Paired(tls)
  BY <1>6 DEF Preserves
<1>8. Preserves(tls, written, "--logpath")
  BY <1>1, <1>7, EnsureArgValSets
<1> HIDE DEF written
<1>9. written \in Seq(Arguments) /\ Paired(written)
  BY <1>8 DEF Preserves
<1>10. Preserves(written, logged, "--logappend")
  BY <1>1, <1>9, EnsureArgKeeps
<1> HIDE DEF logged
<1>11. logged \in Seq(Arguments) /\ Paired(logged)
  BY <1>10 DEF Preserves
<1>12. Preserves(logged, pid, "--pidfilepath")
  BY <1>1, <1>11, EnsureArgValSets
<1> HIDE DEF pid
<1>13. pid \in Seq(Arguments) /\ Paired(pid)
  BY <1>12 DEF Preserves
<1>14. ~ HaveArg("--fork", args) => ~ HaveArg("--fork", pid)
  BY <1>2, <1>4, <1>6, <1>8, <1>10, <1>12 DEF Preserves
<1>15. TemporaryArgs(args) = forked
  <2>1. pid \o <<Bare("--fork")>> = forked
    BY <1>13, AppendIsConcat DEF forked
  <2> QED
    BY <2>1 DEF TemporaryArgs, pid, logged, written, tls, private, local
<1>16. \A other \in Valued : Given(other, forked) = Given(other, pid)
  BY <1>1, <1>13, AppendSwitch
<1>17. ~ HaveArg("--fork", args) => Preserves(pid, forked, "--fork")
  BY <1>1, <1>13, <1>14, AppendSwitch
<1> HIDE DEF forked
<1>18. /\ "--bind_ip" \in Valued \ {"--port", "--sslMode", "--logpath", "--logappend", "--pidfilepath"}
       /\ "--port" \in Valued \ {"--sslMode", "--logpath", "--logappend", "--pidfilepath"}
       /\ "--sslMode" \in Valued \ {"--logpath", "--logappend", "--pidfilepath"}
  BY DEF Valued
<1>19. /\ Given("--bind_ip", forked) = {"127.0.0.1"} /\ Given("--port", forked) = {"27017"}
       /\ Given("--sslMode", forked) = {SslMode(args)}
  <2>1. \A other \in Valued \ {"--logpath", "--logappend", "--pidfilepath"} :
          Given(other, forked) = Given(other, tls)
    BY <1>8, <1>10, <1>12, <1>16 DEF Preserves
  <2>2. \A other \in Valued \ {"--sslMode", "--logpath", "--logappend", "--pidfilepath"} :
          Given(other, forked) = Given(other, private)
    BY <1>6, <2>1 DEF Preserves
  <2>3. Given("--bind_ip", private) = {"127.0.0.1"}
    BY <1>2, <1>4, <1>18 DEF Preserves
  <2> QED
    BY <1>4, <1>6, <1>18, <2>1, <2>2, <2>3
<1>20. ASSUME OnceEach(args), NoStrays(args), ~ HaveArg("--fork", args) PROVE Accepts(forked)
  <2>1. OnceEach(forked) /\ NoStrays(forked) /\ Paired(forked)
    BY <1>2, <1>4, <1>6, <1>8, <1>10, <1>12, <1>17, <1>20 DEF Preserves
  <2>2. HaveArg("--sslPEMKeyFile", forked) <=> HaveArg("--sslPEMKeyFile", args)
    BY <1>2, <1>4, <1>6, <1>8, <1>10, <1>12, <1>17, <1>20 DEF Preserves
  <2>3. TlsMatches(forked)
    BY <1>19, <2>2 DEF TlsMatches, SslMode
  <2> QED
    BY <2>1, <2>3 DEF Accepts
<1> QED
  BY <1>15, <1>19, <1>20
=============================================================================
