--------------------------- MODULE TrainerProofs ----------------------------
(***************************************************************************)
(* Proofs about Trainer, for every configuration, every error of an update *)
(* and MSE of a validation, and any number of epochs and updates.          *)
(***************************************************************************)
EXTENDS Trainer, SequenceTheorems, TLAPS

\* The lengths the histories have, and what the epoch under way is not yet.
HistoryInv ==
  /\ pc \in {"epoch", "epochEnd"} => epoch > 0
  /\ pc = "epoch" => epoch \notin abandoned
  /\ \A i \in DOMAIN validated :
       validated[i].epoch <= IF pc \in {"epoch", "epochEnd"} THEN epoch - 1 ELSE epoch

\* best is the first of the validations with the lowest MSE.
BestInv ==
  /\ best = NoResult <=> validated = <<>>
  /\ best # NoResult =>
       \E i \in DOMAIN validated :
         /\ best = validated[i]
         /\ \A j \in DOMAIN validated \ {i} :
              IF j < i THEN validated[j].mse > best.mse ELSE validated[j].mse >= best.mse
  /\ saved # NoResult => saved = best /\ pc = "done"

\* failures counts the predictions outside of the tolerance that the current
\* sequence ends with.
FailuresInv ==
  pc \in {"epoch", "epochEnd"} =>
    LET s == errors[epoch]
    IN  /\ \A k \in Len(s) - failures + 1 .. Len(s) : s[k] > config.tolerance
        /\ failures < Len(s) => ~(s[Len(s) - failures] > config.tolerance)

\* streak counts the correct predictions that the current sequence ends with.
StreakInv ==
  pc \in {"epoch", "epochEnd"} =>
    LET s == errors[epoch]
    IN  /\ streak <= Len(s)
        /\ \A k \in Len(s) - streak + 1 .. Len(s) : s[k] = 0
        /\ streak < Len(s) => s[Len(s) - streak] # 0

\* The longest run of s is r.
IsLongest(s, r) == r \in Runs(s) /\ \A n \in Runs(s) : n <= r

\* _max_streak is the longest run so far, and _new_best_streak tells whether it
\* is one of the current epoch and longer than all before.
LongestInv ==
  /\ \A e \in 1 .. epoch : IsLongest(errors[e], LongestRun(errors[e]))
  /\ \A e \in 1 .. epoch : LongestRun(errors[e]) <= maxStreak
  /\ newBestStreak =>
       /\ epoch > 0 /\ maxStreak = LongestRun(errors[epoch]) /\ maxStreak > 0
       /\ \A d \in 1 .. epoch - 1 : LongestRun(errors[d]) < maxStreak
  /\ ~newBestStreak =>
       \/ maxStreak = 0
       \/ \E d \in 1 .. epoch - 1 : LongestRun(errors[d]) = maxStreak

Inv == /\ TypeOK /\ HistoryInv /\ BestInv /\ StopsForAReason
       /\ FailuresInv /\ AbandonedWhenHopeless /\ StreakInv /\ LongestInv /\ ValidatedWhenDue

-----------------------------------------------------------------------------
(* Runs of correct predictions.                                            *)

\* LongestRun is the length of the longest run, if there is one.
LEMMA LongestIs ==
  ASSUME NEW s \in Seq(Nat), NEW r, IsLongest(s, r)
  PROVE  LongestRun(s) = r /\ r \in Nat
  <1>1. Len(s) \in Nat /\ Runs(s) \subseteq Nat
    BY LenProperties DEF Runs
  <1>2. r \in Runs(s) /\ \A n \in Runs(s) : r >= n
    BY <1>1 DEF IsLongest
  <1>3. \A x \in Runs(s) : (\A n \in Runs(s) : x >= n) => x = r
    BY <1>1, <1>2
  <1> QED
    BY <1>1, <1>2, <1>3 DEF LongestRun, Max

\* The longest run of no predictions.
LEMMA EmptyLongest == <<>> \in Seq(Nat) /\ IsLongest(<<>>, 0)
  BY EmptySeq DEF IsLongest, Runs

\* A prediction more makes no run longer but the last.
LEMMA AppendLongest ==
  ASSUME NEW s \in Seq(Nat), NEW x \in Nat, NEW r, IsLongest(s, r),
         NEW t \in 0 .. Len(s),
         \A k \in Len(s) - t + 1 .. Len(s) : s[k] = 0,
         t < Len(s) => s[Len(s) - t] # 0
  PROVE  /\ x # 0 => IsLongest(Append(s, x), r)
         /\ x = 0 => IsLongest(Append(s, x), IF t + 1 > r THEN t + 1 ELSE r)
  <1> DEFINE u == Append(s, x)
  <1>1. /\ Len(s) \in Nat /\ u \in Seq(Nat) /\ Len(u) = Len(s) + 1
        /\ u[Len(s) + 1] = x /\ \A k \in 1 .. Len(s) : u[k] = s[k]
    BY AppendProperties, LenProperties
  <1>2. r \in Nat
    BY LongestIs
  <1> HIDE DEF u
  <1>3. ASSUME NEW n \in Runs(s) PROVE n \in Runs(u)
    <2>1. PICK i \in 0 .. Len(s) - n : \A k \in i + 1 .. i + n : s[k] = 0
      BY <1>3 DEF Runs
    <2>2. /\ n \in 0 .. Len(u) /\ i \in 0 .. Len(u) - n
          /\ \A k \in i + 1 .. i + n : k \in 1 .. Len(s)
      BY <1>1, <1>3 DEF Runs
    <2> QED
      BY <1>1, <2>1, <2>2 DEF Runs
  <1>4. x = 0 => t + 1 \in Runs(u)
    <2> SUFFICES ASSUME x = 0 PROVE t + 1 \in Runs(u)
      OBVIOUS
    <2>1. t + 1 \in 0 .. Len(u) /\ Len(s) - t \in 0 .. Len(u) - (t + 1)
      BY <1>1
    <2>2. ASSUME NEW k \in Len(s) - t + 1 .. Len(s) - t + (t + 1) PROVE u[k] = 0
      <3>1. CASE k = Len(s) + 1
        BY <1>1, <3>1
      <3>2. CASE k \in Len(s) - t + 1 .. Len(s)
        BY <1>1, <3>2
      <3> QED
        BY <1>1, <3>1, <3>2
    <2> QED
      BY <2>1, <2>2 DEF Runs
  <1>5. ASSUME NEW n \in Runs(u) PROVE n \in Runs(s) \/ (x = 0 /\ n <= t + 1)
    <2>1. PICK i \in 0 .. Len(u) - n : \A k \in i + 1 .. i + n : u[k] = 0
      BY <1>5 DEF Runs
    <2>2. n \in Nat /\ i \in Nat /\ i + n <= Len(s) + 1
      <3>1. n \in 0 .. Len(u)
        BY <1>5 DEF Runs
      <3> QED
        BY <1>1, <3>1
    <2>3. CASE i + n <= Len(s)
      <3>1. n \in 0 .. Len(s) /\ i \in 0 .. Len(s) - n
        BY <1>1, <2>2, <2>3
      <3>2. \A k \in i + 1 .. i + n : k \in 1 .. Len(s)
        BY <1>1, <2>2, <2>3
      <3>3. \A k \in i + 1 .. i + n : s[k] = 0
        BY <1>1, <2>1, <3>2
      <3> QED
        BY <3>1, <3>3 DEF Runs
    <2>4. CASE i + n = Len(s) + 1 /\ n = 0
      <3>1. n \in 0 .. Len(s) /\ 0 \in 0 .. Len(s) - n /\ \A k \in 0 + 1 .. 0 + n : s[k] = 0
        BY <1>1, <2>4
      <3> QED
        BY <3>1 DEF Runs
    <2>5. CASE i + n = Len(s) + 1 /\ n > 0
      <3>1. x = 0
        BY <1>1, <2>1, <2>2, <2>5
      <3>2. ASSUME n > t + 1 PROVE FALSE
        <4>1. t \in Nat /\ n = Len(s) + 1 - i
          BY <1>1, <2>2, <2>5
        <4>a. t < Len(s)
          BY <1>1, <2>2, <3>2, <4>1
        <4>b. i + 1 <= Len(s) - t
          BY <1>1, <2>2, <3>2, <4>1
        <4>c. Len(s) - t <= i + n
          BY <1>1, <2>2, <2>5, <3>2, <4>1
        <4>2. t < Len(s) /\ i + 1 <= Len(s) - t /\ Len(s) - t <= i + n
          BY <4>a, <4>b, <4>c
        <4>3. Len(s) - t \in i + 1 .. i + n /\ Len(s) - t \in 1 .. Len(s)
          BY <1>1, <2>2, <4>1, <4>2
        <4> QED
          BY <1>1, <2>1, <4>2, <4>3
      <3> QED
        BY <2>2, <3>1, <3>2
    <2> QED
      BY <1>1, <2>1, <2>2, <2>3, <2>4, <2>5
  <1>6. r \in Runs(u) /\ \A n \in Runs(s) : n <= r
    BY <1>3 DEF IsLongest
  <1>7. \A n \in Runs(u) : n \in Nat
    BY DEF Runs
  <1>8. x # 0 => IsLongest(u, r)
    BY <1>5, <1>6 DEF IsLongest
  <1>9. x = 0 => IsLongest(u, IF t + 1 > r THEN t + 1 ELSE r)
    <2> SUFFICES ASSUME x = 0 PROVE IsLongest(u, IF t + 1 > r THEN t + 1 ELSE r)
      OBVIOUS
    <2> DEFINE m == IF t + 1 > r THEN t + 1 ELSE r
    <2>1. m \in Runs(u)
      BY <1>4, <1>6
    <2>2. ASSUME NEW n \in Runs(u) PROVE n <= m
      <3>1. n \in Nat /\ (n <= r \/ n <= t + 1)
        BY <1>5, <1>6, <1>7
      <3> QED
        BY <1>2, <3>1
    <2> QED
      BY <2>1, <2>2 DEF IsLongest
  <1> QED
    BY <1>8, <1>9 DEF u

-----------------------------------------------------------------------------
(* The steps.                                                              *)

\* An update adds its error to the current epoch.
LEMMA UpdateErrors ==
  ASSUME TypeOK, HistoryInv, NEW error \in Errors, Update(error)
  PROVE  LET s == errors[epoch]
         IN  /\ epoch \in 1 .. Len(errors) /\ s \in Seq(Nat) /\ s \in Seq(Errors)
             /\ errors' \in Seq(Seq(Errors)) /\ Len(errors') = Len(errors)
             /\ errors'[epoch] = Append(s, error)
             /\ \A e \in 1 .. Len(errors) : e # epoch => errors'[e] = errors[e]
             /\ Len(s) \in Nat /\ Len(errors'[epoch]) = Len(s) + 1
             /\ errors'[epoch][Len(s) + 1] = error
             /\ \A k \in 1 .. Len(s) : errors'[epoch][k] = s[k]
             /\ Current = s /\ Current' = errors'[epoch]
  <1> DEFINE s == errors[epoch]
  <1>1. errors \in Seq(Seq(Errors)) /\ DOMAIN errors = 1 .. Len(errors) /\ Len(errors) = epoch
    BY LenProperties DEF TypeOK
  <1>2. epoch \in 1 .. Len(errors) /\ epoch # 0
    BY <1>1 DEF Update, HistoryInv, TypeOK
  <1>3. s \in Seq(Errors)
    BY <1>1, <1>2, ElementOfSeq
  <1>4. s \in Seq(Nat)
    BY <1>3, SeqMonotonic, TrainerAssumption
  <1>5. errors' = [errors EXCEPT ![epoch] = Append(s, error)] /\ epoch' = epoch
    BY DEF Update
  <1>6. Append(s, error) \in Seq(Errors)
    BY <1>3, AppendProperties
  <1>7. errors' \in Seq(Seq(Errors)) /\ Len(errors') = Len(errors)
    BY <1>1, <1>2, <1>5, <1>6, ExceptSeq
  <1>8. /\ errors'[epoch] = Append(s, error)
        /\ \A e \in 1 .. Len(errors) : e # epoch => errors'[e] = errors[e]
    BY <1>1, <1>2, <1>5
  <1>9. /\ Len(s) \in Nat /\ Len(Append(s, error)) = Len(s) + 1
        /\ Append(s, error)[Len(s) + 1] = error
        /\ \A k \in 1 .. Len(s) : Append(s, error)[k] = s[k]
    BY <1>3, AppendProperties, LenProperties
  <1> QED
    BY <1>1, <1>2, <1>3, <1>4, <1>5, <1>7, <1>8, <1>9 DEF Current

\* A new epoch adds an empty sequence.
LEMMA EpochErrors ==
  ASSUME TypeOK, StartEpoch
  PROVE  /\ errors' \in Seq(Seq(Errors)) /\ Len(errors') = Len(errors) + 1
         /\ epoch = Len(errors) /\ epoch' = epoch + 1 /\ epoch \in Nat
         /\ errors'[epoch'] = <<>> /\ Len(<<>>) = 0
         /\ \A e \in 1 .. epoch : errors'[e] = errors[e]
         /\ Current' = <<>>
  <1>1. errors \in Seq(Seq(Errors)) /\ <<>> \in Seq(Errors) /\ Len(<<>>) = 0
    BY EmptySeq DEF TypeOK
  <1>2. errors' = Append(errors, <<>>) /\ epoch = Len(errors) /\ epoch' = epoch + 1
        /\ epoch \in Nat
    BY DEF StartEpoch, TypeOK
  <1>3. /\ errors' \in Seq(Seq(Errors)) /\ Len(errors') = Len(errors) + 1
        /\ errors'[Len(errors) + 1] = <<>>
        /\ \A e \in 1 .. Len(errors) : errors'[e] = errors[e]
    BY <1>1, <1>2, AppendProperties
  <1> QED
    BY <1>1, <1>2, <1>3 DEF Current

\* The invariants hold before the first epoch.
LEMMA InitInv == Init => Inv
  <1> SUFFICES ASSUME Init PROVE Inv
    OBVIOUS
  <1> USE TrainerAssumption, EmptySeq DEF Init
  <1>1. TypeOK /\ HistoryInv
    <2>1. errors \in Seq(Seq(Errors)) /\ Len(errors) = 0 /\ validated \in Seq(Result)
      BY EmptySeq
    <2>2. Len(Current) = 0 /\ DOMAIN validated = {}
      BY <2>1 DEF Current
    <2>3. epoch \in Nat /\ weights \in Nat /\ maxStreak \in Nat /\ streak \in 0 .. maxStreak
      OBVIOUS
    <2>4. failures \in 0 .. Len(Current)
      BY <2>2
    <2>5. TypeOK
      BY <2>1, <2>3, <2>4 DEF TypeOK
    <2> QED
      BY <2>2, <2>5 DEF HistoryInv
  <1>2. BestInv /\ StopsForAReason
    BY DEF BestInv, StopsForAReason, HasEnded
  <1>3. FailuresInv /\ AbandonedWhenHopeless
    BY DEF FailuresInv, AbandonedWhenHopeless
  <1>4. StreakInv /\ LongestInv /\ ValidatedWhenDue
    BY DEF StreakInv, LongestInv, ValidatedWhenDue
  <1> QED
    BY <1>1, <1>2, <1>3, <1>4 DEF Inv

\* Every step keeps the types and the lengths of the histories.
LEMMA NextType ==
  ASSUME TypeOK, HistoryInv, BestInv, [Next]_vars
  PROVE  TypeOK' /\ HistoryInv'
  <1> USE TrainerAssumption DEF epochVars, histories
  <1>0. /\ epoch \in Nat /\ weights \in Nat /\ maxStreak \in Nat /\ streak \in Nat
        /\ validated \in Seq(Result) /\ Len(errors) = epoch /\ DOMAIN validated = 1 .. Len(validated)
        /\ Len(validated) \in Nat
        /\ \A i \in DOMAIN validated : validated[i].epoch \in Nat
    <2>1. validated \in Seq(Result) /\ Len(errors) = epoch
      BY DEF TypeOK
    <2>2. \A i \in 1 .. Len(validated) : validated[i] \in Result
      BY <2>1, ElementOfSeq
    <2>3. DOMAIN validated = 1 .. Len(validated) /\ Len(validated) \in Nat
      BY <2>1, LenProperties
    <2>4. epoch \in Nat /\ weights \in Nat /\ maxStreak \in Nat /\ streak \in 0 .. maxStreak
      BY DEF TypeOK
    <2> QED
      BY <2>1, <2>2, <2>3, <2>4 DEF Result
  <1>1. CASE StartEpoch
    <2>0. Len(Current') = 0 /\ 0 \in 0 .. maxStreak /\ 1 .. epoch \subseteq 1 .. epoch'
      BY <1>0, <1>1, EpochErrors
    <2>1. TypeOK'
      <3>1. /\ UNCHANGED <<config, maxStreak, weights, best, saved, shutdown, abandoned, validated>>
            /\ pc' = "epoch" /\ streak' = 0 /\ failures' = 0 /\ newBestStreak' = FALSE
        BY <1>1 DEF StartEpoch
      <3>2. failures' \in 0 .. Len(Current') /\ streak' \in 0 .. maxStreak'
        BY <2>0, <3>1
      <3>3. abandoned' \subseteq 1 .. epoch'
        BY <2>0, <3>1 DEF TypeOK
      <3>4. errors' \in Seq(Seq(Errors)) /\ Len(errors') = epoch' /\ epoch' \in Nat
        BY <1>1, EpochErrors
      <3> QED
        BY <3>1, <3>2, <3>3, <3>4 DEF TypeOK
    <2>2. HistoryInv'
      BY <1>0, <1>1 DEF StartEpoch, HistoryInv, TypeOK
    <2> QED
      BY <2>1, <2>2
  <1>2. ASSUME NEW error \in Errors, Update(error) PROVE TypeOK' /\ HistoryInv'
    <2>1. /\ UNCHANGED <<config, epoch, best, saved, shutdown, validated>>
          /\ pc = "epoch" /\ pc' \in {"epoch", "epochEnd"}
          /\ weights' \in {weights, weights + 1}
          /\ abandoned' = abandoned \/ (abandoned' = abandoned \cup {epoch} /\ pc' = "epochEnd")
          /\ streak' = (IF error = 0 THEN streak + 1 ELSE 0)
          /\ maxStreak' = (IF streak' > maxStreak THEN streak' ELSE maxStreak)
          /\ newBestStreak' = (newBestStreak \/ streak' > maxStreak)
          /\ failures' = FailuresAfter(error)
      BY <1>2 DEF Update
    <2>2. failures' \in 0 .. Len(Current')
      <3>1. Len(Current) \in Nat /\ Len(Current') = Len(Current) + 1
        BY <1>2, UpdateErrors
      <3>2. failures \in 0 .. Len(Current)
        BY DEF TypeOK
      <3>3. failures' = failures + 1 \/ failures' = 0
        BY <2>1 DEF FailuresAfter
      <3> QED
        BY <3>1, <3>2, <3>3
    <2>3. streak' \in 0 .. maxStreak' /\ maxStreak' \in Nat
      <3>1. streak' \in Nat
        BY <1>0, <2>1
      <3>2. maxStreak' = streak' \/ (maxStreak' = maxStreak /\ ~(streak' > maxStreak))
        BY <2>1
      <3> QED
        BY <1>0, <3>1, <3>2
    <2>4. TypeOK'
      <3>1. newBestStreak' \in BOOLEAN
        BY <2>1 DEF TypeOK
      <3>2. errors' \in Seq(Seq(Errors)) /\ Len(errors') = epoch /\ epoch \in 1 .. epoch
        BY <1>0, <1>2, UpdateErrors
      <3>3. abandoned' \subseteq 1 .. epoch
        BY <2>1, <3>2 DEF TypeOK
      <3>4. weights' \in Nat
        BY <1>0, <2>1
      <3> QED
        BY <2>1, <2>2, <2>3, <3>1, <3>2, <3>3, <3>4 DEF TypeOK
    <2>5. HistoryInv'
      BY <1>0, <2>1 DEF HistoryInv
    <2> QED
      BY <2>4, <2>5
  <1>3. ASSUME NEW mse \in Scores, Validate(mse) PROVE TypeOK' /\ HistoryInv'
    <2> DEFINE result == [epoch |-> epoch, mse |-> mse, weights |-> weights]
    <2>1. result \in Result
      BY <1>0 DEF Result
    <2>2. /\ validated' = Append(validated, result) /\ best' \in {best, result}
          /\ pc = "epochEnd" /\ pc' \in {"finish", "head"}
          /\ UNCHANGED <<config, epoch, epochVars, weights, saved, shutdown, errors, abandoned>>
      BY <1>3 DEF Validate
    <2>3. /\ validated' \in Seq(Result) /\ DOMAIN validated' = 1 .. Len(validated) + 1
          /\ validated'[Len(validated) + 1] = result
          /\ \A i \in DOMAIN validated : validated'[i] = validated[i]
      BY <1>0, <2>1, <2>2, AppendProperties, LenProperties
    <2>4. TypeOK'
      BY <2>1, <2>2, <2>3 DEF TypeOK, Current
    <2>5. \A i \in DOMAIN validated' : validated'[i].epoch <= epoch
      <3>1. \A i \in DOMAIN validated : validated'[i].epoch <= epoch
        BY <1>0, <2>2, <2>3 DEF HistoryInv
      <3> QED
        BY <1>0, <2>3, <3>1
    <2> QED
      BY <2>2, <2>4, <2>5 DEF HistoryInv
  <1>4. CASE SkipValidation
    BY <1>0, <1>4 DEF SkipValidation, TypeOK, HistoryInv, Current
  <1>5. CASE LeaveLoop
    BY <1>5 DEF LeaveLoop, TypeOK, HistoryInv, Current
  <1>6. CASE Save
    <2>1. best \in Result
      BY <1>6 DEF Save, TypeOK
    <2>2. weights' \in Nat /\ saved' \in Result \cup {NoResult}
      BY <1>6, <2>1 DEF Save, TypeOK, Result
    <2> QED
      BY <1>6, <2>2 DEF Save, TypeOK, HistoryInv, Current
  <1>7. CASE SaveNothing
    BY <1>7 DEF SaveNothing, TypeOK, HistoryInv, Current
  <1>8. CASE Interrupt \/ Ended \/ UNCHANGED vars
    BY <1>8 DEF Interrupt, Ended, vars, TypeOK, HistoryInv, Current
  <1> QED
    BY <1>1, <1>2, <1>3, <1>4, <1>5, <1>6, <1>7, <1>8 DEF Next, Main

-----------------------------------------------------------------------------
(* Validations.                                                            *)

\* A validation is recorded at the end.
LEMMA ValidateStep ==
  ASSUME TypeOK, NEW mse \in Scores, Validate(mse)
  PROVE  LET result == [epoch |-> epoch, mse |-> mse, weights |-> weights]
             n == Len(validated)
         IN  /\ n \in Nat /\ DOMAIN validated = 1 .. n /\ DOMAIN validated' = 1 .. n + 1
             /\ Len(validated') = n + 1 /\ validated' # <<>>
             /\ result \in Result /\ result.mse = mse /\ mse \in Nat /\ result # NoResult
             /\ validated'[n + 1] = result
             /\ \A i \in 1 .. n : validated'[i] = validated[i] /\ validated[i].mse \in Nat
             /\ best' = IF IsBetter(mse) THEN result ELSE best
             /\ pc = "epochEnd" /\ pc' = (IF GoodEnough(mse) THEN "finish" ELSE "head")
             /\ UNCHANGED <<config, epoch, epochVars, saved, shutdown, errors, abandoned>>
  <1> DEFINE result == [epoch |-> epoch, mse |-> mse, weights |-> weights]
  <1>1. result \in Result /\ mse \in Nat
    BY TrainerAssumption DEF TypeOK, Result
  <1>2. validated \in Seq(Result)
    BY DEF TypeOK
  <1>3. validated' = Append(validated, result)
    BY DEF Validate
  <1>4. /\ Len(validated) \in Nat /\ DOMAIN validated = 1 .. Len(validated)
        /\ \A i \in 1 .. Len(validated) : validated[i] \in Result
    BY <1>2, LenProperties, ElementOfSeq
  <1>5. /\ DOMAIN validated' = 1 .. Len(validated) + 1 /\ Len(validated') = Len(validated) + 1
        /\ validated'[Len(validated) + 1] = result
        /\ \A i \in 1 .. Len(validated) : validated'[i] = validated[i]
    BY <1>1, <1>2, <1>3, AppendProperties, LenProperties
  <1>6. validated' # <<>>
    BY <1>4, <1>5, EmptySeq
  <1>7. \A i \in 1 .. Len(validated) : validated[i].mse \in Nat
    BY <1>4 DEF Result
  <1> QED
    BY <1>1, <1>4, <1>5, <1>6, <1>7, TrainerAssumption DEF Validate

\* Every step keeps the best result the first of those with the lowest MSE.
LEMMA NextBest ==
  ASSUME TypeOK, BestInv, [Next]_vars
  PROVE  BestInv'
  <1> USE DEF epochVars, histories
  <1>1. ASSUME NEW mse \in Scores, Validate(mse) PROVE BestInv'
    <2> DEFINE result == [epoch |-> epoch, mse |-> mse, weights |-> weights]
               n == Len(validated)
    <2>0. /\ n \in Nat /\ DOMAIN validated = 1 .. n /\ DOMAIN validated' = 1 .. n + 1
          /\ validated' # <<>> /\ result.mse = mse /\ mse \in Nat /\ result # NoResult
          /\ validated'[n + 1] = result
          /\ \A i \in 1 .. n : validated'[i] = validated[i] /\ validated[i].mse \in Nat
          /\ best' = (IF IsBetter(mse) THEN result ELSE best)
          /\ pc = "epochEnd" /\ saved' = saved
      BY <1>1, ValidateStep
    <2> HIDE DEF result, n
    <2>1. saved' = NoResult
      BY <2>0 DEF BestInv
    <2>2. CASE best = NoResult
      <3>1. DOMAIN validated' = {1} /\ best' = validated'[1]
        <4>1. n = 0
          BY <2>2, EmptySeq DEF BestInv, n
        <4> QED
          BY <2>0, <2>2, <4>1 DEF IsBetter
      <3> QED
        BY <2>0, <2>1, <2>2, <3>1 DEF BestInv, IsBetter
    <2>3. CASE best # NoResult
      <3>1. PICK i \in 1 .. n :
              /\ best = validated[i]
              /\ \A j \in 1 .. n \ {i} :
                   IF j < i THEN validated[j].mse > best.mse ELSE validated[j].mse >= best.mse
        BY <2>0, <2>3 DEF BestInv
      <3>2. best.mse \in Nat /\ \A j \in 1 .. n : validated[j].mse >= best.mse
        BY <2>0, <3>1
      <3>3. CASE mse < best.mse
        <4>1. best' = validated'[n + 1] /\ best' # NoResult /\ best'.mse = mse
          BY <2>0, <3>3 DEF IsBetter
        <4>2. \A j \in 1 .. n : j < n + 1 /\ validated'[j].mse > mse
          BY <2>0, <3>2, <3>3
        <4>3. \A j \in DOMAIN validated' \ {n + 1} : j \in 1 .. n
          BY <2>0
        <4> QED
          BY <2>0, <2>1, <4>1, <4>2, <4>3 DEF BestInv
      <3>4. CASE ~(mse < best.mse)
        <4>1. best' = best /\ best' = validated'[i] /\ i \in DOMAIN validated'
          BY <2>0, <2>3, <3>1, <3>4 DEF IsBetter
        <4>2. \A j \in 1 .. n \ {i} : IF j < i THEN validated'[j].mse > best.mse
                                               ELSE validated'[j].mse >= best.mse
          BY <2>0, <3>1
        <4>3. validated'[n + 1].mse >= best.mse /\ ~(n + 1 < i)
          BY <2>0, <3>2, <3>4
        <4>4. \A j \in DOMAIN validated' : j \in 1 .. n \/ j = n + 1
          BY <2>0
        <4>5. \A j \in DOMAIN validated' \ {i} :
                IF j < i THEN validated'[j].mse > best'.mse ELSE validated'[j].mse >= best'.mse
          BY <4>1, <4>2, <4>3, <4>4
        <4> QED
          BY <2>0, <2>1, <2>3, <4>1, <4>5 DEF BestInv
      <3> QED
        BY <3>3, <3>4
    <2> QED
      BY <2>2, <2>3
  <1>2. CASE Save
    <2>1. best.weights = weights' /\ best \in Result
      BY <1>2 DEF Save, TypeOK
    <2>2. [best EXCEPT !.weights = weights'] = best
      BY <2>1 DEF Result
    <2> QED
      BY <1>2, <2>2 DEF Save, BestInv
  <1>3. ASSUME NEW error \in Errors, Update(error) PROVE BestInv'
    BY <1>3 DEF Update, BestInv
  <1>4. CASE StartEpoch \/ LeaveLoop \/ SkipValidation \/ SaveNothing
    BY <1>4 DEF StartEpoch, LeaveLoop, SkipValidation, SaveNothing, BestInv
  <1>5. CASE Interrupt \/ Ended \/ UNCHANGED vars
    BY <1>5 DEF Interrupt, Ended, vars, BestInv
  <1> QED
    BY <1>1, <1>2, <1>3, <1>4, <1>5 DEF Next, Main

\* A training stops in no step without one of its reasons.
LEMMA NextStops ==
  ASSUME TypeOK, StopsForAReason, [Next]_vars
  PROVE  StopsForAReason'
  <1> USE DEF epochVars, histories, HasEnded
  <1>0. config \in Config
    BY TrainerAssumption DEF TypeOK
  <1>1. ASSUME NEW mse \in Scores, Validate(mse) PROVE StopsForAReason'
    <2> DEFINE n == Len(validated)
    <2>0. /\ n \in Nat /\ DOMAIN validated = 1 .. n /\ DOMAIN validated' = 1 .. n + 1
          /\ Len(validated') = n + 1 /\ validated'[n + 1].mse = mse
          /\ \A i \in 1 .. n : validated'[i] = validated[i]
          /\ pc = "epochEnd" /\ pc' = (IF GoodEnough(mse) THEN "finish" ELSE "head")
          /\ config' = config
      BY <1>1, ValidateStep
    <2> HIDE DEF n
    <2>1. \A i \in DOMAIN validated : ~(validated[i].mse <= config.mseThreshold)
      BY <2>0 DEF StopsForAReason
    <2>2. \A i \in DOMAIN validated' : validated'[i].mse <= config.mseThreshold => i = n + 1
      BY <2>0, <2>1
    <2>3. GoodEnough(mse) <=> mse <= config.mseThreshold
      BY DEF GoodEnough
    <2> QED
      BY <2>0, <2>2, <2>3 DEF StopsForAReason
  <1>2. CASE LeaveLoop
    <2>1. ~EpochsLeft => config.maxEpochs > 0 /\ epoch >= config.maxEpochs
      BY <1>0 DEF EpochsLeft, Config, TypeOK
    <2> QED
      BY <1>2, <2>1 DEF LeaveLoop, StopsForAReason
  <1>3. ASSUME NEW error \in Errors, Update(error) PROVE StopsForAReason'
    BY <1>3 DEF Update, StopsForAReason
  <1>4. CASE StartEpoch \/ SkipValidation \/ Save \/ SaveNothing
    BY <1>4 DEF StartEpoch, SkipValidation, Save, SaveNothing, StopsForAReason
  <1>5. CASE Interrupt \/ Ended \/ UNCHANGED vars
    BY <1>5 DEF Interrupt, Ended, vars, StopsForAReason
  <1> QED
    BY <1>1, <1>2, <1>3, <1>4, <1>5 DEF Next, Main

-----------------------------------------------------------------------------
(* Abandoned sequences.                                                    *)

\* Hopeless and AbandonedWhenHopeless, of one sequence.
HopelessAt(s, n, conf) ==
  /\ n >= conf.consecutiveFailuresForReset
  /\ \A k \in n - conf.consecutiveFailuresForReset + 1 .. n : s[k] > conf.tolerance
Judged(s, gone, conf) ==
  /\ gone => HopelessAt(s, Len(s), conf)
  /\ conf.resetProbability = {TRUE} =>
       \A n \in 1 .. Len(s) : HopelessAt(s, n, conf) => n = Len(s) /\ gone

\* Abandoning is judged epoch by epoch.
LEMMA JudgedOneByOne ==
  AbandonedWhenHopeless <=> \A e \in 1 .. epoch : Judged(errors[e], e \in abandoned, config)
  BY DEF AbandonedWhenHopeless, Hopeless, Judged, HopelessAt

\* The last f predictions of s are outside of the tolerance.
EndsWrong(s, f, tolerance) ==
  /\ f \in 0 .. Len(s)
  /\ \A k \in Len(s) - f + 1 .. Len(s) : s[k] > tolerance
  /\ f < Len(s) => ~(s[Len(s) - f] > tolerance)

\* Counting goes on from a prediction to the next.
LEMMA AppendWrong ==
  ASSUME NEW s \in Seq(Nat), NEW x \in Nat, NEW f, NEW tolerance \in Nat,
         EndsWrong(s, f, tolerance)
  PROVE  EndsWrong(Append(s, x), IF x > tolerance THEN f + 1 ELSE 0, tolerance)
  <1> DEFINE u == Append(s, x)
             m == Len(s)
  <1>1. /\ m \in Nat /\ Len(u) = m + 1 /\ u[m + 1] = x
        /\ \A k \in 1 .. m : u[k] = s[k]
    BY AppendProperties, LenProperties
  <1>2. /\ f \in 0 .. m /\ \A k \in m - f + 1 .. m : s[k] > tolerance
        /\ f < m => ~(s[m - f] > tolerance)
    BY DEF EndsWrong
  <1> HIDE DEF u, m
  <1>3. CASE x > tolerance
    <2>1. ASSUME NEW k \in m + 1 - (f + 1) + 1 .. m + 1 PROVE u[k] > tolerance
      <3>1. k = m + 1 \/ (k \in m - f + 1 .. m /\ k \in 1 .. m)
        BY <1>1, <1>2
      <3> QED
        BY <1>1, <1>2, <1>3, <3>1
    <2>2. ASSUME f + 1 < m + 1 PROVE ~(u[m + 1 - (f + 1)] > tolerance)
      <3>1. f < m /\ m + 1 - (f + 1) = m - f /\ m - f \in 1 .. m
        BY <1>1, <1>2, <2>2
      <3> QED
        BY <1>1, <1>2, <3>1
    <2>3. f + 1 \in 0 .. m + 1
      BY <1>1, <1>2
    <2> QED
      BY <1>1, <1>3, <2>1, <2>2, <2>3 DEF EndsWrong, u
  <1>4. CASE ~(x > tolerance)
    <2>1. EndsWrong(u, 0, tolerance)
      BY <1>1, <1>4 DEF EndsWrong
    <2> QED
      BY <1>4, <2>1 DEF u
  <1> QED
    BY <1>3, <1>4

\* A sequence is hopeless at its end when it ends with enough of them.
LEMMA HopelessAtEnd ==
  ASSUME NEW s, NEW f, NEW conf \in Config, Len(s) \in Nat, EndsWrong(s, f, conf.tolerance)
  PROVE  HopelessAt(s, Len(s), conf) <=> f >= conf.consecutiveFailuresForReset
  <1> DEFINE m == Len(s)
             c == conf.consecutiveFailuresForReset
  <1>1. /\ m \in Nat /\ c \in Nat \ {0}
        /\ f \in 0 .. m /\ \A k \in m - f + 1 .. m : s[k] > conf.tolerance
        /\ f < m => ~(s[m - f] > conf.tolerance)
    BY DEF EndsWrong, Config
  <1> HIDE DEF m, c
  <1>2. ASSUME f >= c PROVE HopelessAt(s, m, conf)
    <2>1. m >= c /\ \A k \in m - c + 1 .. m : k \in m - f + 1 .. m
      BY <1>1, <1>2
    <2>2. \A k \in m - c + 1 .. m : s[k] > conf.tolerance
      BY <1>1, <2>1
    <2> QED
      BY <2>1, <2>2 DEF HopelessAt, c
  <1>3. ASSUME HopelessAt(s, m, conf), f < c PROVE FALSE
    <2>1. m >= c /\ \A k \in m - c + 1 .. m : s[k] > conf.tolerance
      BY <1>3 DEF HopelessAt, c
    <2>2. f < m /\ m - f \in m - c + 1 .. m
      BY <1>1, <1>3, <2>1
    <2> QED
      BY <1>1, <2>1, <2>2
  <1>4. f >= c \/ f < c
    BY <1>1
  <1> QED
    BY <1>2, <1>3, <1>4 DEF m, c

\* Every step keeps the failures counted, and the epochs abandoned hopeless.
LEMMA NextAbandoned ==
  ASSUME TypeOK, HistoryInv, FailuresInv, AbandonedWhenHopeless, [Next]_vars
  PROVE  FailuresInv' /\ AbandonedWhenHopeless'
  <1> USE DEF epochVars, histories
  <1>0. /\ config \in Config /\ config.tolerance \in Nat /\ epoch \in Nat
        /\ config.consecutiveFailuresForReset \in Nat \ {0}
    BY TrainerAssumption DEF TypeOK, Config
  <1>a. \A e \in 1 .. epoch : Judged(errors[e], e \in abandoned, config)
    BY JudgedOneByOne
  <1>1. CASE StartEpoch
    <2>1. /\ epoch' = epoch + 1 /\ errors'[epoch'] = <<>> /\ Len(<<>>) = 0
          /\ \A e \in 1 .. epoch : errors'[e] = errors[e]
          /\ UNCHANGED <<config, abandoned>> /\ failures' = 0
      BY <1>1, EpochErrors DEF StartEpoch
    <2>2. FailuresInv'
      BY <2>1 DEF FailuresInv
    <2>3. epoch' \notin abandoned
      BY <1>0, <2>1 DEF TypeOK
    <2>4. Judged(errors'[epoch'], epoch' \in abandoned', config')
      <3>1. ~(epoch' \in abandoned') /\ 1 .. Len(errors'[epoch']) = {}
        BY <2>1, <2>3
      <3> QED
        BY <3>1 DEF Judged
    <2>5. \A e \in 1 .. epoch' : e \in 1 .. epoch \/ e = epoch'
      BY <1>0, <2>1
    <2>6. \A e \in 1 .. epoch' : Judged(errors'[e], e \in abandoned', config')
      BY <1>a, <2>1, <2>4, <2>5
    <2> QED
      BY <2>2, <2>6, JudgedOneByOne DEF AbandonedWhenHopeless, Hopeless, Judged, HopelessAt
  <1>2. ASSUME NEW error \in Errors, Update(error)
        PROVE  FailuresInv' /\ AbandonedWhenHopeless'
    <2>1. /\ UNCHANGED <<config, epoch>> /\ pc = "epoch" /\ pc' \in {"epoch", "epochEnd"}
          /\ failures' = FailuresAfter(error)
      BY <1>2 DEF Update
    <2>2. PICK reset \in Resets(error) :
             abandoned' = (IF reset THEN abandoned \cup {epoch} ELSE abandoned)
      BY <1>2 DEF Update
    <2>3. PICK s \in Seq(Nat) : s = errors[epoch]
      BY <1>2, UpdateErrors
    <2>4. /\ epoch \in 1 .. epoch /\ epoch \notin abandoned /\ error \in Nat
          /\ \A e \in 1 .. epoch : e # epoch => errors'[e] = errors[e]
          /\ errors'[epoch] = Append(s, error) /\ Len(s) \in Nat
          /\ Len(Append(s, error)) = Len(s) + 1 /\ Append(s, error)[Len(s) + 1] = error
          /\ \A k \in 1 .. Len(s) : Append(s, error)[k] = s[k]
          /\ Current = s
      BY <1>0, <1>2, <2>1, <2>3, UpdateErrors, TrainerAssumption DEF TypeOK, HistoryInv
    <2>5. PICK u : u = Append(s, error)
      OBVIOUS
    <2>6. EndsWrong(u, failures', config.tolerance)
      <3>1. failures \in 0 .. Len(s)
        BY <2>4 DEF TypeOK
      <3>2. EndsWrong(s, failures, config.tolerance)
        BY <2>1, <2>3, <3>1 DEF FailuresInv, EndsWrong
      <3>3. failures' = IF error > config.tolerance THEN failures + 1 ELSE 0
        BY <2>1 DEF FailuresAfter
      <3> QED
        BY <1>0, <2>4, <2>5, <3>2, <3>3, AppendWrong
    <2>7. HopelessAt(u, Len(u), config) <=> failures' >= config.consecutiveFailuresForReset
      <3>1. Len(u) \in Nat
        BY <2>4, <2>5
      <3>2. PICK f : f = failures'
        OBVIOUS
      <3>3. EndsWrong(u, f, config.tolerance)
        BY <2>6, <3>2
      <3> QED
        BY <1>0, <3>1, <3>2, <3>3, HopelessAtEnd
    <2>8. FailuresInv'
      BY <2>1, <2>4, <2>5, <2>6 DEF FailuresInv, EndsWrong
    <2>9. /\ reset \in BOOLEAN
          /\ reset => failures' >= config.consecutiveFailuresForReset
          /\ config.resetProbability = {TRUE} /\ error # 0
               /\ failures' >= config.consecutiveFailuresForReset => reset
      <3>1. failures' \in Nat
        BY <2>4, <2>5, <2>6 DEF EndsWrong
      <3>2. reset \in IF error = 0 \/ failures' < config.consecutiveFailuresForReset
                      THEN {FALSE} ELSE config.resetProbability
        BY <2>2 DEF Resets
      <3>3. config.resetProbability \subseteq BOOLEAN
        BY <1>0 DEF Config
      <3>4. CASE error = 0 \/ failures' < config.consecutiveFailuresForReset
        <4>1. reset = FALSE
          BY <3>2, <3>4
        <4>2. ~(error # 0 /\ failures' >= config.consecutiveFailuresForReset)
          BY <1>0, <3>1, <3>4
        <4> QED
          BY <4>1, <4>2
      <3>5. CASE ~(error = 0 \/ failures' < config.consecutiveFailuresForReset)
        <4>1. reset \in config.resetProbability /\ failures' >= config.consecutiveFailuresForReset
          BY <1>0, <3>1, <3>2, <3>5
        <4> QED
          BY <3>3, <4>1
      <3> QED
        BY <3>4, <3>5
    <2>10. epoch \in abandoned' <=> reset
      BY <2>2, <2>4, <2>9
    <2>11. ASSUME config.resetProbability = {TRUE}, NEW n \in 1 .. Len(u),
                  HopelessAt(u, n, config)
           PROVE  n = Len(u) /\ reset
      <3>1. /\ n >= config.consecutiveFailuresForReset
            /\ \A k \in n - config.consecutiveFailuresForReset + 1 .. n : u[k] > config.tolerance
        BY <2>11 DEF HopelessAt
      <3>2. ASSUME n \in 1 .. Len(s) PROVE FALSE
        <4>1. \A k \in n - config.consecutiveFailuresForReset + 1 .. n : k \in 1 .. Len(s)
          BY <1>0, <2>4, <3>1, <3>2
        <4>2. HopelessAt(s, n, config)
          BY <2>4, <2>5, <3>1, <4>1 DEF HopelessAt
        <4> QED
          BY <1>a, <2>3, <2>4, <2>11, <3>2, <4>2 DEF Judged
      <3>3. n = Len(u)
        BY <2>4, <2>5, <3>2
      <3>4. error # 0
        <4>1. Len(u) \in n - config.consecutiveFailuresForReset + 1 .. n
          BY <1>0, <2>4, <2>5, <3>3
        <4>2. error > config.tolerance
          BY <2>4, <2>5, <3>1, <4>1
        <4> QED
          BY <1>0, <2>4, <4>2
      <3> QED
        BY <2>7, <2>9, <2>11, <3>3, <3>4
    <2>12. Judged(u, epoch \in abandoned', config)
      BY <2>7, <2>9, <2>10, <2>11 DEF Judged
    <2>13. \A e \in 1 .. epoch : e # epoch => (e \in abandoned' <=> e \in abandoned)
      BY <2>2
    <2>14. \A e \in 1 .. epoch : Judged(errors'[e], e \in abandoned', config)
      <3>1. ASSUME NEW e \in 1 .. epoch, e # epoch
            PROVE  Judged(errors'[e], e \in abandoned', config)
        <4>1. errors'[e] = errors[e] /\ (e \in abandoned') = (e \in abandoned)
          BY <2>4, <2>13, <3>1
        <4> QED
          BY <1>a, <4>1
      <3> QED
        BY <2>4, <2>5, <2>12, <3>1
    <2>15. AbandonedWhenHopeless'
      BY <2>1, <2>14 DEF AbandonedWhenHopeless, Hopeless, Judged, HopelessAt
    <2> QED
      BY <2>8, <2>15
  <1>3. ASSUME NEW mse \in Scores, Validate(mse) PROVE FailuresInv' /\ AbandonedWhenHopeless'
    BY <1>3 DEF Validate, FailuresInv, AbandonedWhenHopeless, Hopeless
  <1>4. CASE LeaveLoop \/ SkipValidation \/ Save \/ SaveNothing
    BY <1>4 DEF LeaveLoop, SkipValidation, Save, SaveNothing, FailuresInv,
                AbandonedWhenHopeless, Hopeless
  <1>5. CASE Interrupt \/ Ended \/ UNCHANGED vars
    BY <1>5 DEF Interrupt, Ended, vars, FailuresInv, AbandonedWhenHopeless, Hopeless
  <1> QED
    BY <1>1, <1>2, <1>3, <1>4, <1>5 DEF Next, Main

-----------------------------------------------------------------------------
(* Streaks.                                                                *)

\* The last t predictions of s are correct.
EndsRight(s, t) ==
  /\ t \in 0 .. Len(s)
  /\ \A k \in Len(s) - t + 1 .. Len(s) : s[k] = 0
  /\ t < Len(s) => s[Len(s) - t] # 0

\* A prediction more makes the run at the end longer, or ends it.
LEMMA AppendRight ==
  ASSUME NEW s \in Seq(Nat), NEW x \in Nat, NEW t, EndsRight(s, t)
  PROVE  EndsRight(Append(s, x), IF x = 0 THEN t + 1 ELSE 0)
  <1> DEFINE u == Append(s, x)
             m == Len(s)
  <1>1. /\ m \in Nat /\ Len(u) = m + 1 /\ u[m + 1] = x
        /\ \A k \in 1 .. m : u[k] = s[k]
    BY AppendProperties, LenProperties
  <1>2. t \in 0 .. m /\ (\A k \in m - t + 1 .. m : s[k] = 0) /\ (t < m => s[m - t] # 0)
    BY DEF EndsRight
  <1> HIDE DEF u, m
  <1>3. CASE x = 0
    <2>1. ASSUME NEW k \in m + 1 - (t + 1) + 1 .. m + 1 PROVE u[k] = 0
      <3>1. k = m + 1 \/ (k \in m - t + 1 .. m /\ k \in 1 .. m)
        BY <1>1, <1>2
      <3> QED
        BY <1>1, <1>2, <1>3, <3>1
    <2>2. ASSUME t + 1 < m + 1 PROVE u[m + 1 - (t + 1)] # 0
      <3>1. t < m /\ m + 1 - (t + 1) = m - t /\ m - t \in 1 .. m
        BY <1>1, <1>2, <2>2
      <3> QED
        BY <1>1, <1>2, <3>1
    <2>3. t + 1 \in 0 .. m + 1
      BY <1>1, <1>2
    <2> QED
      BY <1>1, <1>3, <2>1, <2>2, <2>3 DEF EndsRight, u
  <1>4. CASE x # 0
    <2>1. EndsRight(u, 0)
      BY <1>1, <1>4 DEF EndsRight
    <2> QED
      BY <1>4, <2>1 DEF u
  <1> QED
    BY <1>3, <1>4

\* The counters of streaks count them: what has become of the longest run.
LEMMA NextStreak ==
  ASSUME TypeOK, HistoryInv, StreakInv, LongestInv, [Next]_vars
  PROVE  StreakInv' /\ LongestInv'
  <1> USE DEF epochVars, histories
  <1>0. epoch \in Nat /\ maxStreak \in Nat
    BY DEF TypeOK
  <1>a. \A e \in 1 .. epoch : errors[e] \in Seq(Nat) /\ LongestRun(errors[e]) \in Nat
    <2>1. errors \in Seq(Seq(Errors)) /\ Len(errors) = epoch
      BY DEF TypeOK
    <2>2. \A e \in 1 .. epoch : errors[e] \in Seq(Errors)
      BY <2>1, ElementOfSeq
    <2>3. \A e \in 1 .. epoch : errors[e] \in Seq(Nat)
      BY <2>2, SeqMonotonic, TrainerAssumption
    <2> QED
      BY <2>3, LongestIs DEF LongestInv
  <1>1. CASE StartEpoch
    <2>1. /\ epoch' = epoch + 1 /\ errors'[epoch'] = <<>> /\ Len(<<>>) = 0
          /\ \A e \in 1 .. epoch : errors'[e] = errors[e]
          /\ maxStreak' = maxStreak /\ newBestStreak' = FALSE /\ streak' = 0
      BY <1>1, EpochErrors DEF StartEpoch
    <2>2. IsLongest(<<>>, 0) /\ LongestRun(<<>>) = 0
      BY EmptyLongest, LongestIs
    <2>3. \A e \in 1 .. epoch' : e \in 1 .. epoch \/ e = epoch'
      BY <1>0, <2>1
    <2>4. \A e \in 1 .. epoch' : IsLongest(errors'[e], LongestRun(errors'[e]))
      BY <2>1, <2>2, <2>3 DEF LongestInv
    <2>5. \A e \in 1 .. epoch' : LongestRun(errors'[e]) <= maxStreak'
      BY <1>0, <2>1, <2>2, <2>3 DEF LongestInv
    <2>6. maxStreak = 0 \/ \E d \in 1 .. epoch : LongestRun(errors[d]) = maxStreak
      BY <1>0 DEF LongestInv, TypeOK
    <2>7. maxStreak' = 0 \/ \E d \in 1 .. epoch' - 1 : LongestRun(errors'[d]) = maxStreak'
      BY <1>0, <2>1, <2>6
    <2>8. LongestInv'
      BY <2>1, <2>4, <2>5, <2>7 DEF LongestInv
    <2> QED
      BY <2>1, <2>8 DEF StreakInv
  <1>2. ASSUME NEW error \in Errors, Update(error) PROVE StreakInv' /\ LongestInv'
    <2>1. /\ epoch' = epoch /\ pc = "epoch"
          /\ streak' = (IF error = 0 THEN streak + 1 ELSE 0)
          /\ maxStreak' = (IF streak' > maxStreak THEN streak' ELSE maxStreak)
          /\ newBestStreak' = (newBestStreak \/ streak' > maxStreak)
      BY <1>2 DEF Update
    <2>2. PICK s \in Seq(Nat) : s = errors[epoch]
      BY <1>2, UpdateErrors
    <2>3. PICK u : u = Append(s, error)
      OBVIOUS
    <2>4. /\ epoch \in 1 .. epoch /\ errors'[epoch] = u /\ error \in Nat
          /\ \A e \in 1 .. epoch : e # epoch => errors'[e] = errors[e]
          /\ u \in Seq(Nat)
      BY <1>0, <1>2, <2>1, <2>2, <2>3, UpdateErrors, AppendProperties, TrainerAssumption
      DEF TypeOK
    <2>5. EndsRight(s, streak)
      <3>1. Len(s) \in Nat /\ streak \in Nat
        BY <1>0, LenProperties DEF TypeOK
      <3>2. /\ streak <= Len(s)
            /\ \A k \in Len(s) - streak + 1 .. Len(s) : s[k] = 0
            /\ streak < Len(s) => s[Len(s) - streak] # 0
        BY <2>1, <2>2 DEF StreakInv
      <3> QED
        BY <3>1, <3>2 DEF EndsRight
    <2>6. EndsRight(u, streak')
      BY <2>1, <2>3, <2>4, <2>5, AppendRight
    <2>7. StreakInv'
      BY <2>1, <2>4, <2>6 DEF StreakInv, EndsRight
    <2>8. PICK r \in Nat : r = LongestRun(s) /\ IsLongest(s, r) /\ r <= maxStreak
      BY <1>a, <2>2, <2>4 DEF LongestInv
    <2>9. /\ error # 0 => IsLongest(u, r)
          /\ error = 0 => IsLongest(u, IF streak + 1 > r THEN streak + 1 ELSE r)
      BY <2>3, <2>4, <2>5, <2>8, AppendLongest DEF EndsRight
    <2>10. /\ streak' \in Nat
           /\ IsLongest(u, IF streak' > r THEN streak' ELSE r)
      <3>1. streak \in Nat
        BY <1>0 DEF TypeOK
      <3>2. CASE error = 0
        BY <2>1, <2>9, <3>1, <3>2
      <3>3. CASE error # 0
        BY <2>1, <2>9, <3>3
      <3> QED
        BY <3>2, <3>3
    <2>11. LongestRun(u) = IF streak' > r THEN streak' ELSE r
      BY <2>4, <2>10, LongestIs
    <2>12. \A e \in 1 .. epoch : IsLongest(errors'[e], LongestRun(errors'[e]))
      BY <2>4, <2>10, <2>11 DEF LongestInv
    <2>13. \A e \in 1 .. epoch : LongestRun(errors[e]) <= maxStreak
      BY DEF LongestInv
    <2>14. LongestRun(u) \in Nat /\ LongestRun(u) <= maxStreak' /\ maxStreak' \in Nat
           /\ maxStreak <= maxStreak'
      BY <1>0, <2>1, <2>8, <2>10, <2>11
    <2>15. \A e \in 1 .. epoch : LongestRun(errors'[e]) <= maxStreak'
      <3>1. ASSUME NEW e \in 1 .. epoch, e # epoch PROVE LongestRun(errors'[e]) <= maxStreak'
        <4>1. LongestRun(errors'[e]) = LongestRun(errors[e]) /\ LongestRun(errors[e]) \in Nat
          BY <1>a, <2>4, <3>1
        <4> QED
          BY <1>0, <2>13, <2>14, <4>1
      <3> QED
        BY <2>4, <2>14, <3>1
    <2>16. \A d \in 1 .. epoch - 1 : /\ d \in 1 .. epoch /\ d # epoch /\ errors'[d] = errors[d]
                                     /\ LongestRun(errors[d]) \in Nat
      BY <1>0, <1>a, <2>4
    <2>17. CASE streak' > maxStreak
      <3>1. newBestStreak' /\ maxStreak' = streak' /\ LongestRun(u) = maxStreak'
            /\ maxStreak' > 0
        <4>1. newBestStreak'
          BY <2>1, <2>17
        <4>2. maxStreak' = streak' /\ streak' > r /\ streak' > 0
          BY <1>0, <2>1, <2>8, <2>10, <2>17
        <4> QED
          BY <2>11, <4>1, <4>2
      <3>2. \A d \in 1 .. epoch - 1 : LongestRun(errors'[d]) < maxStreak'
        <4>1. ASSUME NEW d \in 1 .. epoch - 1 PROVE LongestRun(errors'[d]) < maxStreak'
          <5>1. LongestRun(errors[d]) <= maxStreak /\ LongestRun(errors[d]) \in Nat
            BY <2>13, <2>16
          <5> QED
            BY <1>0, <2>10, <2>16, <2>17, <3>1, <5>1
        <4> QED
          BY <4>1
      <3> QED
        BY <1>0, <2>1, <2>4, <2>7, <2>12, <2>15, <3>1, <3>2 DEF LongestInv
    <2>18. CASE ~(streak' > maxStreak)
      <3>1. maxStreak' = maxStreak /\ newBestStreak' = newBestStreak
        BY <2>1, <2>18 DEF TypeOK
      <3>2. CASE newBestStreak
        <4>1. /\ r = maxStreak /\ maxStreak > 0
              /\ \A d \in 1 .. epoch - 1 : LongestRun(errors[d]) < maxStreak
          BY <2>2, <2>8, <3>2 DEF LongestInv
        <4>2. LongestRun(u) = maxStreak'
          BY <2>11, <2>18, <3>1, <4>1
        <4>3. \A d \in 1 .. epoch - 1 : LongestRun(errors'[d]) < maxStreak'
          BY <2>16, <3>1, <4>1
        <4> QED
          BY <1>0, <2>1, <2>4, <2>7, <2>12, <2>15, <3>1, <3>2, <4>1, <4>2, <4>3 DEF LongestInv
      <3>3. CASE ~newBestStreak
        <4>1. maxStreak' = 0 \/ \E d \in 1 .. epoch - 1 : LongestRun(errors'[d]) = maxStreak'
          BY <2>16, <3>1, <3>3 DEF LongestInv
        <4> QED
          BY <2>1, <2>7, <2>12, <2>15, <3>1, <3>3, <4>1 DEF LongestInv
      <3> QED
        BY <3>2, <3>3
    <2> QED
      BY <2>17, <2>18
  <1>3. ASSUME NEW mse \in Scores, Validate(mse) PROVE StreakInv' /\ LongestInv'
    BY <1>3 DEF Validate, StreakInv, LongestInv
  <1>4. CASE LeaveLoop \/ SkipValidation \/ Save \/ SaveNothing
    BY <1>4 DEF LeaveLoop, SkipValidation, Save, SaveNothing, StreakInv, LongestInv
  <1>5. CASE Interrupt \/ Ended \/ UNCHANGED vars
    BY <1>5 DEF Interrupt, Ended, vars, StreakInv, LongestInv
  <1> QED
    BY <1>1, <1>2, <1>3, <1>4, <1>5 DEF Next, Main

-----------------------------------------------------------------------------
(* Validations when they are due.                                          *)

\* The epochs that have had their validation, if they were to have one.
Finished == IF pc \in {"epoch", "epochEnd"} THEN epoch - 1 ELSE epoch

\* Whether epoch e was followed by a validation, and whether it had to be.
ValidatedAt(e, results) == \E i \in DOMAIN results : results[i].epoch = e
DueAt(e, errs, count) ==
  \/ e % count = 0
  \/ LongestRun(errs[e]) > 0 /\ \A d \in 1 .. e - 1 : LongestRun(errs[e]) > LongestRun(errs[d])

\* ValidatedWhenDue in these words.
LEMMA DueOneByOne ==
  ValidatedWhenDue <=>
    \A e \in 1 .. Finished :
      ValidatedAt(e, validated) <=> DueAt(e, errors, config.epochCountBeforeValidating)
  BY DEF ValidatedWhenDue, Finished, ValidatedAt, DueAt

\* Whether a validation is due depends on no later epoch.
LEMMA DueSame ==
  ASSUME NEW e \in Nat \ {0}, NEW es, NEW fs, NEW count, \A d \in 1 .. e : es[d] = fs[d]
  PROVE  DueAt(e, es, count) <=> DueAt(e, fs, count)
  <1>1. es[e] = fs[e] /\ \A d \in 1 .. e - 1 : es[d] = fs[d]
    OBVIOUS
  <1> QED
    BY <1>1 DEF DueAt

\* _new_best_streak tells whether the epoch had the longest run so far.
LEMMA DueDecided ==
  ASSUME TypeOK, LongestInv, epoch \in Nat \ {0}
  PROVE  ShouldValidate <=> DueAt(epoch, errors, config.epochCountBeforeValidating)
  <1>1. errors \in Seq(Seq(Errors)) /\ Len(errors) = epoch
    BY DEF TypeOK
  <1>2. \A e \in 1 .. epoch : errors[e] \in Seq(Nat)
    BY <1>1, ElementOfSeq, SeqMonotonic, TrainerAssumption
  <1>3. \A e \in 1 .. epoch : LongestRun(errors[e]) \in Nat /\ LongestRun(errors[e]) <= maxStreak
    BY <1>2, LongestIs DEF LongestInv
  <1>4. epoch \in 1 .. epoch /\ \A d \in 1 .. epoch - 1 : d \in 1 .. epoch
    OBVIOUS
  <1>5. maxStreak \in Nat
    BY DEF TypeOK
  <1>6. CASE newBestStreak
    <2>1. LongestRun(errors[epoch]) > 0
           /\ \A d \in 1 .. epoch - 1 : LongestRun(errors[epoch]) > LongestRun(errors[d])
      <3>1. /\ maxStreak = LongestRun(errors[epoch]) /\ maxStreak > 0
            /\ \A d \in 1 .. epoch - 1 : LongestRun(errors[d]) < maxStreak
        BY <1>6 DEF LongestInv
      <3> QED
        BY <1>3, <1>4, <1>5, <3>1
    <2> QED
      BY <1>6, <2>1 DEF ShouldValidate, DueAt
  <1>7. CASE ~newBestStreak
    <2>1. ~(LongestRun(errors[epoch]) > 0
            /\ \A d \in 1 .. epoch - 1 : LongestRun(errors[epoch]) > LongestRun(errors[d]))
      <3>1. maxStreak = 0 \/ \E d \in 1 .. epoch - 1 : LongestRun(errors[d]) = maxStreak
        BY <1>7 DEF LongestInv
      <3> QED
        BY <1>3, <1>4, <1>5, <3>1
    <2> QED
      BY <1>7, <2>1 DEF ShouldValidate, DueAt
  <1> QED
    BY <1>6, <1>7

\* A step leaves the past epochs as they are and validates the current one if due.
LEMMA NextValidated ==
  ASSUME TypeOK, HistoryInv, LongestInv, ValidatedWhenDue, [Next]_vars
  PROVE  ValidatedWhenDue'
  <1> USE DEF epochVars, histories
  <1> DEFINE count == config.epochCountBeforeValidating
  <1>0. /\ epoch \in Nat /\ Finished \in Int
        /\ \A e \in 1 .. Finished : ValidatedAt(e, validated) <=> DueAt(e, errors, count)
    BY DueOneByOne DEF TypeOK, Finished
  <1>a. ASSUME config' = config, validated' = validated, Finished' = Finished,
               \A e \in 1 .. Finished : errors'[e] = errors[e]
        PROVE  ValidatedWhenDue'
    <2>1. ASSUME NEW e \in 1 .. Finished
          PROVE  ValidatedAt(e, validated') <=> DueAt(e, errors', count')
      <3>1. e \in Nat \ {0} /\ \A d \in 1 .. e : errors'[d] = errors[d]
        BY <1>0, <1>a
      <3>2. DueAt(e, errors', count) <=> DueAt(e, errors, count)
        BY <3>1, DueSame
      <3> QED
        BY <1>0, <1>a, <3>2
    <2> QED
      BY <1>a, <2>1 DEF ValidatedWhenDue, Finished, ValidatedAt, DueAt
  <1>b. ASSUME UNCHANGED <<config, errors, epoch>>, pc = "epochEnd", pc' \in {"head", "finish"},
               \A e \in 1 .. epoch - 1 : ValidatedAt(e, validated') <=> ValidatedAt(e, validated),
               ValidatedAt(epoch, validated') <=> ShouldValidate
        PROVE  ValidatedWhenDue'
    <2>1. epoch \in Nat \ {0} /\ Finished = epoch - 1 /\ Finished' = epoch
      BY <1>0, <1>b DEF HistoryInv, Finished
    <2>2. ValidatedAt(epoch, validated') <=> DueAt(epoch, errors, count)
      BY <1>b, <2>1, DueDecided
    <2>3. \A e \in 1 .. epoch : e \in 1 .. epoch - 1 \/ e = epoch
      BY <2>1
    <2>4. \A e \in 1 .. epoch : ValidatedAt(e, validated') <=> DueAt(e, errors, count)
      BY <1>0, <1>b, <2>1, <2>2, <2>3
    <2> QED
      BY <1>b, <2>1, <2>4 DEF ValidatedWhenDue, Finished, ValidatedAt, DueAt
  <1>1. CASE StartEpoch
    <2>1. UNCHANGED <<config, validated>> /\ Finished' = Finished /\ Finished = epoch
      BY <1>0, <1>1 DEF StartEpoch, Finished
    <2>2. \A e \in 1 .. epoch : errors'[e] = errors[e]
      BY <1>1, EpochErrors
    <2> QED
      BY <1>a, <2>1, <2>2
  <1>2. ASSUME NEW error \in Errors, Update(error) PROVE ValidatedWhenDue'
    <2>1. UNCHANGED <<config, validated>> /\ Finished' = Finished /\ Finished = epoch - 1
      BY <1>2 DEF Update, Finished
    <2>2. \A e \in 1 .. epoch : e # epoch => errors'[e] = errors[e]
      BY <1>2, UpdateErrors DEF TypeOK
    <2>3. \A e \in 1 .. epoch - 1 : e \in 1 .. epoch /\ e # epoch
      BY <1>0
    <2> QED
      BY <1>a, <2>1, <2>2, <2>3
  <1>3. ASSUME NEW mse \in Scores, Validate(mse) PROVE ValidatedWhenDue'
    <2> DEFINE n == Len(validated)
               result == [epoch |-> epoch, mse |-> mse, weights |-> weights]
    <2>a. /\ n \in Nat /\ DOMAIN validated = 1 .. n /\ DOMAIN validated' = 1 .. n + 1
          /\ validated'[n + 1] = result
          /\ \A i \in 1 .. n : validated'[i] = validated[i]
          /\ pc = "epochEnd" /\ pc' = (IF GoodEnough(mse) THEN "finish" ELSE "head")
          /\ UNCHANGED <<config, epoch, errors>>
      BY <1>3, ValidateStep
    <2>b. result.epoch = epoch
      OBVIOUS
    <2> HIDE DEF result
    <2>1. /\ n \in Nat /\ DOMAIN validated = 1 .. n /\ DOMAIN validated' = 1 .. n + 1
          /\ validated'[n + 1].epoch = epoch
          /\ \A i \in 1 .. n : validated'[i] = validated[i]
          /\ pc = "epochEnd" /\ pc' \in {"head", "finish"}
          /\ UNCHANGED <<config, epoch, errors>>
      BY <2>a, <2>b
    <2>2. ShouldValidate
      BY <1>3 DEF Validate
    <2> HIDE DEF n
    <2>3. ValidatedAt(epoch, validated')
      BY <2>1 DEF ValidatedAt
    <2>4. \A i \in 1 .. n + 1 : i \in 1 .. n \/ i = n + 1
      BY <2>1
    <2>5. ASSUME NEW e \in 1 .. epoch - 1
          PROVE  ValidatedAt(e, validated') <=> ValidatedAt(e, validated)
      <3>1. e # epoch
        BY <1>0
      <3> QED
        BY <2>1, <2>4, <3>1 DEF ValidatedAt
    <2> QED
      BY <1>b, <2>1, <2>2, <2>3, <2>5
  <1>4. CASE SkipValidation
    <2>1. /\ UNCHANGED <<config, errors, epoch, validated>> /\ pc = "epochEnd" /\ pc' = "head"
          /\ ~ShouldValidate
      BY <1>4 DEF SkipValidation
    <2>2. ~ValidatedAt(epoch, validated)
      <3>1. validated \in Seq(Result)
        BY DEF TypeOK
      <3>2. \A i \in DOMAIN validated : validated[i].epoch \in Nat
        <4>1. DOMAIN validated = 1 .. Len(validated)
                /\ \A i \in 1 .. Len(validated) : validated[i] \in Result
          BY <3>1, LenProperties, ElementOfSeq
        <4> QED
          BY <4>1 DEF Result
      <3>3. \A i \in DOMAIN validated : validated[i].epoch <= epoch - 1
        BY <2>1 DEF HistoryInv
      <3> QED
        BY <1>0, <3>2, <3>3 DEF ValidatedAt
    <2> QED
      BY <1>b, <2>1, <2>2
  <1>5. CASE LeaveLoop \/ Save \/ SaveNothing
    <2>1. UNCHANGED <<config, errors, validated>> /\ Finished' = Finished
      BY <1>5 DEF LeaveLoop, Save, SaveNothing, Finished
    <2> QED
      BY <1>a, <2>1
  <1>6. CASE Interrupt \/ Ended \/ UNCHANGED vars
    <2>1. UNCHANGED <<config, errors, validated>> /\ Finished' = Finished
      BY <1>6 DEF Interrupt, Ended, vars, Finished
    <2> QED
      BY <1>a, <2>1
  <1> QED
    BY <1>1, <1>2, <1>3, <1>4, <1>5, <1>6 DEF Next, Main

-----------------------------------------------------------------------------
(* The theorems.                                                           *)

\* Inv is an invariant: each of its parts is preserved by the lemma about it.
LEMMA Invariance == Spec => []Inv
  <1>1. Inv /\ [Next]_vars => Inv'
    BY NextType, NextBest, NextStops, NextAbandoned, NextStreak, NextValidated DEF Inv
  <1> QED
    BY <1>1, InitInv, PTL DEF Spec

\* The variables of the training loop have their types; the counters count
\* within the current sequence.
THEOREM TypeCorrect == Spec => []TypeOK
  <1>1. Inv => TypeOK
    BY DEF Inv
  <1> QED
    BY <1>1, Invariance, PTL

\* What is written at the end is the first of the validations with the lowest
\* MSE, weights included, whatever the epochs and validations after it.
THEOREM BestIsSaved == Spec => []SavedIsBest
  <1>1. Inv => SavedIsBest
    BY DEF Inv, BestInv, SavedIsBest
  <1> QED
    BY <1>1, Invariance, PTL

\* The loop of Trainer ends for a validation that is good enough, the last epoch
\* or ctrl-c, and for nothing else.
THEOREM StopsOnlyForAReason == Spec => []StopsForAReason
  <1>1. Inv => StopsForAReason
    BY DEF Inv
  <1> QED
    BY <1>1, Invariance, PTL

\* should_reset: a sequence is abandoned for enough wrong predictions in a row
\* and, when the probability is 1, at the first such row.
THEOREM AbandonedOnlyWhenHopeless == Spec => []AbandonedWhenHopeless
  <1>1. Inv => AbandonedWhenHopeless
    BY DEF Inv
  <1> QED
    BY <1>1, Invariance, PTL

\* should_validate: an epoch is followed by a validation exactly when its turn has
\* come or it had the longest row of correct predictions so far, for any lengths.
THEOREM ValidatedExactlyWhenDue == Spec => []ValidatedWhenDue
  <1>1. Inv => ValidatedWhenDue
    BY DEF Inv
  <1> QED
    BY <1>1, Invariance, PTL
=============================================================================
