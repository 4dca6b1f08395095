------------------------ MODULE DPIClassifierProofs ------------------------
(***************************************************************************)
(* Proofs about DPIClassifier, for every set of workers and of controlling *)
(* threads and whatever signatures, payloads, files and guardrails there   *)
(* are: what the search of a signature decides, what the counters count    *)
(* and when packets are skipped.                                           *)
(***************************************************************************)
EXTENDS DPIClassifier, SumLemmas, SequenceTheorems, TLAPS

-----------------------------------------------------------------------------
(* Types *)

\* A line that parses.
Readable(line) == line.classification < 10 \/ line.number # NoNumber

\* What a file is parsed to.
FileLines == {line \in UNION {{f[i] : i \in DOMAIN f} : f \in Files} : Readable(line)}
FileSignatures == {Parse(line) : line \in FileLines}

\* What may be in the vector.
Loadable == Signatures \cup FileSignatures

Typed ==
  /\ signatures \in Seq(Loadable)
  /\ TypeOK

\* A line that parses gives a signature.
LEMMA ParseType ==
  ASSUME NEW line \in Lines, Readable(line)
  PROVE  Parse(line) \in SignatureRecords
<1> DEFINE class == line.classification
<1>0. class \in Nat
  <2>1. class \in 0..99
    BY DEF Lines
  <2> HIDE DEF class
  <2> QED
    BY <2>1
<1>1. CASE line.classification < 10
  <2>1. DigitCode(class) \in Nat
    <3> HIDE DEF class
    <3> QED
      BY <1>0 DEF DigitCode
  <2> QED
    BY <1>1, <2>1 DEF Lines, SignatureRecords, Parse, Parsed
<1>2. CASE ~(line.classification < 10)
  <2>1. DigitCode(class \div 10) \in Nat /\ DigitCode(class % 10) \in Nat
    <3> HIDE DEF class
    <3> QED
      BY <1>0 DEF DigitCode
  <2>2. line.number \in Nat
    BY <1>2 DEF Readable, Lines
  <2>3. <<DigitCode(class % 10)>> \in Seq(Nat)
    BY <2>1
  <2> QED
    BY <1>2, <2>1, <2>2, <2>3 DEF Lines, SignatureRecords, Parse, Shifted
<1> QED
  BY <1>1, <1>2

\* The lines of a file are lines.
LEMMA LineType ==
  ASSUME NEW f \in Files, NEW i \in DOMAIN f
  PROVE  f[i] \in Lines
<1>1. f \in Seq(Lines)
  BY DataAssumption
<1>2. i \in 1..Len(f)
  BY <1>1, LenProperties
<1> QED
  BY <1>1, <1>2, ElementOfSeq

\* Whatever may be in the vector is a signature.
LEMMA LoadableType == Loadable \subseteq SignatureRecords
<1>1. FileSignatures \subseteq SignatureRecords
  BY ParseType, LineType DEF FileSignatures, FileLines
<1> QED
  BY <1>1, DataAssumption DEF Loadable

\* A finite set has an enumeration.
LEMMA Enumeration ==
  ASSUME NEW S, IsFiniteSet(S)
  PROVE  /\ Cardinality(S) \in Nat
         /\ SetToSeq(S) \in [1..Cardinality(S) -> S]
<1>1. Cardinality(S) \in Nat /\ ExistsBijection(1..Cardinality(S), S)
  BY FS_CardinalityType
<1>2. \E g \in [1..Cardinality(S) -> S] : IsInjective(g)
  BY <1>1 DEF ExistsBijection, Bijection, Injection, IsInjective
<1> QED
  BY <1>1, <1>2 DEF SetToSeq

\* What is loaded from a file is a sequence of its signatures.
LEMMA ParsedFileType ==
  ASSUME NEW f \in Files
  PROVE  ParsedFile(f) \in Seq(Loadable)
<1> DEFINE G == {i \in DOMAIN f : f[i].classification < 10 \/ f[i].number # NoNumber}
           good == SetToSeq(G)
<1>1. DOMAIN f = 1..Len(f) /\ Len(f) \in Nat
  BY DataAssumption, LenProperties
<1>2. IsFiniteSet(G)
  <2>1. G \in SUBSET (1..Len(f))
    BY <1>1
  <2>2. IsFiniteSet(1..Len(f))
    BY <1>1, FS_Interval
  <2> HIDE DEF G
  <2> QED
    BY <2>1, <2>2, FS_Subset
<1>3. Cardinality(G) \in Nat /\ good \in [1..Cardinality(G) -> G]
  BY <1>2, Enumeration
<1>4. ParsedFile(f) = [i \in DOMAIN good |-> Parse(f[good[i]])]
  BY DEF ParsedFile
<1>5. \A i \in G : Parse(f[i]) \in Loadable
  BY DEF Loadable, FileSignatures, FileLines, Readable
<1> HIDE DEF G, good
<1>6. \A i \in 1..Cardinality(G) : Parse(f[good[i]]) \in Loadable
  BY <1>3, <1>5
<1>7. ParsedFile(f) \in [1..Cardinality(G) -> Loadable]
  BY <1>3, <1>4, <1>6
<1> QED
  BY <1>3, <1>7, SeqDef

\* Sorting keeps what is in the vector.
LEMMA SortingsType ==
  ASSUME NEW S, NEW list \in Seq(S), NEW new \in Sortings(list)
  PROVE  new \in Seq(S)
<1>1. PICK p \in [DOMAIN list -> DOMAIN list] : new = [i \in DOMAIN list |-> list[p[i]]]
  BY DEF Sortings
<1>2. DOMAIN list = 1..Len(list) /\ Len(list) \in Nat /\ list \in [1..Len(list) -> S]
  BY LenProperties
<1>3. new \in [1..Len(list) -> S]
  BY <1>1, <1>2
<1> QED
  BY <1>2, <1>3, SeqDef

\* The least of some positions.
LEMMA Smallest ==
  ASSUME NEW S \in SUBSET Nat, S # {}
  PROVE  First(S) \in S /\ \A j \in S : First(S) <= j
<1> DEFINE R == OpToRel(<, Nat)
<1>1. IsWellFoundedOn(R, Nat)
  BY NatLessThanWellFounded
<1> HIDE DEF R
<1>2. PICK x \in S : \A y \in S : ~(<<y, x>> \in R)
  BY <1>1, WFMin
<1>3. \A y \in S : x <= y
  <2> TAKE y \in S
  <2>1. y \in Nat /\ x \in Nat
    OBVIOUS
  <2>2. ~(y < x)
    BY <1>2, <2>1 DEF R, OpToRel
  <2> QED
    BY <2>1, <2>2
<1>4. \E i \in S : \A j \in S : i <= j
  BY <1>3
<1> QED
  BY <1>4 DEF First

\* The first signature of an id has a place in the vector.
LEMMA PositionsType ==
  ASSUME signatures \in Seq(Loadable), NEW id, Positions(id) # {}
  PROVE  First(Positions(id)) \in 1..Len(signatures)
<1>1. DOMAIN signatures = 1..Len(signatures) /\ Len(signatures) \in Nat
  BY LenProperties
<1>2. Positions(id) \in SUBSET (1..Len(signatures)) /\ Positions(id) \in SUBSET Nat
  BY <1>1 DEF Positions
<1> QED
  BY <1>2, Smallest

\* Removing one keeps the others.
LEMMA RemoveAtType ==
  ASSUME NEW S, NEW s \in Seq(S), NEW i \in 1..Len(s)
  PROVE  RemoveAt(s, i) \in Seq(S)
<1>1. Len(s) \in Nat /\ i \in Int /\ \A j \in 1..Len(s) : s[j] \in S
  BY LenProperties, ElementOfSeq
<1>2. SubSeq(s, 1, i - 1) \in Seq(S)
  <2>1. 1 \in Int /\ i - 1 \in Int /\ \A j \in 1..(i - 1) : s[j] \in S
    BY <1>1
  <2> QED
    BY <2>1, SubSeqProperties
<1>3. SubSeq(s, i + 1, Len(s)) \in Seq(S)
  <2>1. i + 1 \in Int /\ Len(s) \in Int /\ \A j \in (i + 1)..Len(s) : s[j] \in S
    BY <1>1
  <2> QED
    BY <2>1, SubSeqProperties
<1> QED
  BY <1>2, <1>3, ConcatProperties DEF RemoveAt

\* Replacing the vector by signatures that may be in it keeps the types.
LEMMA ReplaceTyped ==
  ASSUME Typed, NEW c \in Threads, NEW new \in Seq(Loadable), NEW u \in BOOLEAN,
         Replace(c, new, u)
  PROVE  Typed'
<1>1. \/ UNCHANGED <<signatures, updated>>
      \/ signatures' = new /\ updated' = u
  BY DEF Replace, Halt
<1>2. UNCHANGED <<guardrails, degraded, counts, stage, payload, result, enable,
                  answered, raced>>
  BY DEF Replace, Halt, calls
<1>3. signatures' \in Seq(Loadable)
  BY <1>1 DEF Typed
<1>4. \A i \in DOMAIN signatures' :
        signatures'[i] \in Signatures
          \/ \E f \in Files : \E j \in DOMAIN f : signatures'[i] = Parse(f[j])
  <2> TAKE i \in DOMAIN signatures'
  <2>1. signatures'[i] \in Loadable
    BY <1>3, LenProperties, ElementOfSeq
  <2> QED
    BY <2>1 DEF Loadable, FileSignatures, FileLines
<1>5. updated' \in BOOLEAN
  BY <1>1 DEF Typed, TypeOK
<1> QED
  BY <1>2, <1>3, <1>4, <1>5 DEF Typed, TypeOK

\* Loading a file keeps the types.
LEMMA LoadSignaturesTyped ==
  ASSUME Typed, NEW c \in Threads, LoadSignatures(c)
  PROVE  Typed'
<1>1. PICK file \in Files : \E new \in Sortings(signatures \o ParsedFile(file)) :
        Replace(c, new, FALSE)
  BY DEF LoadSignatures
<1>2. PICK new \in Sortings(signatures \o ParsedFile(file)) : Replace(c, new, FALSE)
  BY <1>1
<1>3. signatures \o ParsedFile(file) \in Seq(Loadable)
  BY ParsedFileType, ConcatProperties DEF Typed
<1>4. new \in Seq(Loadable)
  BY <1>2, <1>3, SortingsType
<1> QED
  BY <1>2, <1>4, ReplaceTyped

\* So does replacing or adding a signature,
LEMMA UpdateSignatureTyped ==
  ASSUME Typed, NEW c \in Threads, UpdateSignature(c)
  PROVE  Typed'
<1>1. PICK sig \in Signatures :
        LET at == Positions(sig.signature_id)
        IN  Replace(c, IF at = {} THEN Append(signatures, sig)
                       ELSE [signatures EXCEPT ![First(at)] = sig], TRUE)
  BY DEF UpdateSignature
<1>2. sig \in Loadable /\ signatures \in Seq(Loadable)
  BY DEF Loadable, Typed
<1> DEFINE at == Positions(sig.signature_id)
<1>3. CASE at = {}
  <2>1. Replace(c, Append(signatures, sig), TRUE)
    BY <1>1, <1>3
  <2>2. Append(signatures, sig) \in Seq(Loadable)
    BY <1>2, AppendProperties
  <2> QED
    BY <2>1, <2>2, ReplaceTyped
<1>4. CASE at # {}
  <2>1. Replace(c, [signatures EXCEPT ![First(at)] = sig], TRUE)
    BY <1>1, <1>4
  <2>2. First(at) \in 1..Len(signatures)
    BY <1>2, <1>4, PositionsType
  <2>3. [signatures EXCEPT ![First(at)] = sig] \in Seq(Loadable)
    BY <1>2, <2>2, ExceptSeq
  <2> QED
    BY <2>1, <2>3, ReplaceTyped
<1> QED
  BY <1>3, <1>4

\* and so does removing one.
LEMMA RemoveSignatureTyped ==
  ASSUME Typed, NEW c \in Threads, RemoveSignature(c)
  PROVE  Typed'
<1>1. PICK id \in Ids :
        /\ Positions(id) # {}
        /\ Replace(c, RemoveAt(signatures, First(Positions(id))), updated)
  BY DEF RemoveSignature
<1>2. RemoveAt(signatures, First(Positions(id))) \in Seq(Loadable)
  BY <1>1, PositionsType, RemoveAtType DEF Typed
<1>3. updated \in BOOLEAN
  BY DEF Typed, TypeOK
<1> QED
  BY <1>1, <1>2, <1>3, ReplaceTyped

\* The class of a match is a number.
LEMMA MatchType ==
  ASSUME Typed, NEW p
  PROVE  Match(p) \in Nat
<1> DEFINE found == {i \in DOMAIN signatures : Found(signatures[i], p)}
<1>1. DOMAIN signatures = 1..Len(signatures) /\ Len(signatures) \in Nat
  BY LenProperties DEF Typed
<1>2. CASE found = {}
  BY <1>2 DEF Match, UNKNOWN
<1>3. CASE found # {}
  <2>1. found \in SUBSET Nat
    BY <1>1
  <2>2. First(found) \in found
    BY <1>3, <2>1, Smallest
  <2>3. Match(p) = signatures[First(found)].classification
    BY <1>3 DEF Match, First
  <2>4. signatures[First(found)] \in SignatureRecords
    BY <1>1, <2>2, ElementOfSeq, LoadableType DEF Typed
  <2> QED
    BY <2>3, <2>4 DEF SignatureRecords
<1> QED
  BY <1>2, <1>3

\* At the start the vector is empty.
LEMMA InitTyped == Init => Typed
<1> SUFFICES ASSUME Init PROVE Typed
  OBVIOUS
<1>1. signatures \in Seq(Loadable) /\ DOMAIN signatures = {}
  BY EmptySeq DEF Init
<1>2. 0 \in Nat
  OBVIOUS
<1> QED
  BY <1>1, <1>2 DEF Init, Typed, TypeOK, UNKNOWN

-----------------------------------------------------------------------------
(* The invariant *)

\* The workers about to return a class.
Answering(c) == {w \in Workers : stage[w] = "answer" /\ result[w] = c}

\* A call that has not matched holds no class, one about to count holds one,
\* and what is returned is a class.
Held ==
  \A t \in Threads :
    /\ stage[t] \in {"idle", "match", "reset"} => result[t] = UNKNOWN
    /\ stage[t] = "count" => result[t] # UNKNOWN
    /\ stage[t] = "answer" => result[t] \in Classes

\* Every class but UNKNOWN has been counted once for each call that returned
\* it or is about to.
Counted ==
  /\ counts[UNKNOWN] = 0
  /\ \A c \in Classes \ {UNKNOWN} :
       /\ IsFiniteSet(Answering(c))
       /\ counts[c] = answered[c] + Cardinality(Answering(c))

\* A worker about to store its verdict read it from the present guardrails,
\* unless these were set since.
Verdicts ==
  /\ \A w \in Workers : stage[w] = "degrade" /\ ~raced =>
       enable[w] = guardrails.degradation_enabled
  /\ DegradedOnlyIfEnabled

Inv == Typed /\ Held /\ Counted /\ Verdicts

\* UNKNOWN is a class.
LEMMA ClassFacts == UNKNOWN \in Classes /\ UNKNOWN = 0 /\ Classes \subseteq Nat
BY ClassAssumption DEF UNKNOWN, Classes

StageNames == {"idle", "match", "time", "late", "degrade", "count", "answer", "reset"}

\* What a step of one thread does not touch of the others.
Own(t) ==
  \A u \in Threads : u # t =>
    stage'[u] = stage[u] /\ result'[u] = result[u] /\ enable'[u] = enable[u]

\* A step keeps what the calls hold if its own call does.
LEMMA HeldStep ==
  ASSUME Inv, NEW t \in Threads, Own(t),
         stage'[t] \in {"idle", "match", "reset"} => result'[t] = UNKNOWN,
         stage'[t] = "count" => result'[t] # UNKNOWN,
         stage'[t] = "answer" => result'[t] \in Classes
  PROVE  Held'
BY DEF Inv, Held, Own, Classes, UNKNOWN

\* A step that neither counts nor returns, and begins to return UNKNOWN only.
LEMMA CountedStep ==
  ASSUME Inv, NEW t \in Threads, Own(t), UNCHANGED <<counts, answered>>,
         \A c \in Classes \ {UNKNOWN} :
           stage[t] = "answer" /\ result[t] = c <=> stage'[t] = "answer" /\ result'[t] = c
  PROVE  Counted'
<1>1. ASSUME NEW c \in Classes \ {UNKNOWN} PROVE Answering(c)' = Answering(c)
  BY DEF Answering, Own, Threads
<1>2. Classes' = Classes /\ UNKNOWN' = UNKNOWN
  BY DEF Classes, UNKNOWN
<1> QED
  BY <1>1, <1>2 DEF Inv, Counted

\* A step that leaves the guardrails and the verdicts alone.
LEMMA VerdictsStep ==
  ASSUME Inv, NEW t \in Threads, Own(t), UNCHANGED <<guardrails, degraded, raced>>,
         stage[t] # "reset", stage'[t] # "degrade"
  PROVE  Verdicts'
<1>1. ASSUME NEW w \in Workers, stage'[w] = "degrade", ~raced
      PROVE  enable'[w] = guardrails.degradation_enabled
  <2>1. w # t /\ w \in Threads
    BY <1>1 DEF Threads
  <2> QED
    BY <1>1, <2>1 DEF Inv, Verdicts, Own
<1>2. (\A c \in Controllers : stage'[c] # "reset") =>
        \A c \in Controllers : stage[c] # "reset"
  BY DEF Own, Threads
<1>3. DegradedOnlyIfEnabled'
  BY <1>2 DEF Inv, Verdicts, DegradedOnlyIfEnabled
<1> QED
  BY <1>1, <1>3 DEF Verdicts

\* Moving on changes the stage of one thread.
LEMMA GotoFacts ==
  ASSUME Typed, NEW t \in Threads, NEW s \in StageNames, Goto(t, s)
  PROVE  /\ stage'[t] = s /\ \A u \in Threads : u # t => stage'[u] = stage[u]
         /\ stage' \in [Threads -> StageNames]
BY DEF Goto, Typed, TypeOK, StageNames

\* The parts of the type.
LEMMA TypedFacts ==
  ASSUME Typed
  PROVE  /\ guardrails \in Guardrails /\ degraded \in BOOLEAN /\ raced \in BOOLEAN
         /\ counts \in [Classes -> Nat] /\ answered \in [Classes -> Nat]
         /\ stage \in [Threads -> StageNames]
         /\ payload \in [Threads -> Payloads \cup {<<>>}]
         /\ result \in [Threads -> Nat] /\ enable \in [Threads -> BOOLEAN]
         /\ guardrails.degradation_enabled \in BOOLEAN
BY GuardrailAssumption DEF Typed, TypeOK, StageNames

\* The types again, while the vector stays.
LEMMA TypedStep ==
  ASSUME Typed, signatures' = signatures, updated' = updated,
         guardrails' \in Guardrails, degraded' \in BOOLEAN, raced' \in BOOLEAN,
         counts' \in [Classes -> Nat], answered' \in [Classes -> Nat],
         stage' \in [Threads -> StageNames],
         payload' \in [Threads -> Payloads \cup {<<>>}],
         result' \in [Threads -> Nat], enable' \in [Threads -> BOOLEAN]
  PROVE  Typed'
BY DEF Typed, TypeOK, StageNames, Classes

\* A halt leaves everything as it was.
LEMMA HaltStep ==
  ASSUME Inv, NEW why, Halt(why)
  PROVE  Inv'
<1>1. UNCHANGED <<signatures, updated, guardrails, degraded, counts, stage, payload, result,
                  enable, answered, raced>>
  BY DEF Halt, calls
<1> QED
  BY <1>1 DEF Inv, Typed, TypeOK, Held, Counted, Answering, Verdicts,
     DegradedOnlyIfEnabled

-----------------------------------------------------------------------------
(* The steps of classify *)

\* A call begins; a packet that is empty or skipped will be UNKNOWN.
LEMMA ClassifyBeginInv ==
  ASSUME Inv, NEW w \in Workers, ClassifyBegin(w)
  PROVE  Inv'
<1>0. w \in Threads /\ Typed /\ Held /\ stage[w] = "idle"
  BY DEF Threads, Inv, ClassifyBegin
<1>1. CASE Halt("remainder by zero")
  BY <1>1, HaltStep
<1>2. CASE \E p \in Payloads :
             /\ payload' = [payload EXCEPT ![w] = p]
             /\ Goto(w, "answer") \/ Goto(w, "match")
             /\ UNCHANGED <<signatures, updated, guardrails, degraded, counts, result, enable,
                            answered, raced, halted>>
  <2>1. PICK p \in Payloads :
          /\ payload' = [payload EXCEPT ![w] = p]
          /\ Goto(w, "answer") \/ Goto(w, "match")
          /\ UNCHANGED <<signatures, updated, guardrails, degraded, counts, result, enable,
                         answered, raced, halted>>
    BY <1>2
  <2>2. /\ stage'[w] \in {"answer", "match"}
        /\ \A u \in Threads : u # w => stage'[u] = stage[u]
        /\ stage' \in [Threads -> StageNames]
    BY <1>0, <2>1, GotoFacts DEF StageNames
  <2>3. Own(w) /\ result'[w] = UNKNOWN /\ result' = result
    BY <1>0, <2>1, <2>2 DEF Own, Held
  <2>4. payload' \in [Threads -> Payloads \cup {<<>>}]
    BY <1>0, <2>1, TypedFacts
  <2>5. Typed'
    BY <1>0, <2>1, <2>2, <2>4, TypedFacts, TypedStep
  <2>6. Held'
    BY <1>0, <2>2, <2>3, ClassFacts, HeldStep
  <2>7. Counted'
    BY <1>0, <2>1, <2>2, <2>3, CountedStep
  <2>8. Verdicts'
    BY <1>0, <2>1, <2>2, <2>3, VerdictsStep
  <2> QED
    BY <2>5, <2>6, <2>7, <2>8 DEF Inv
<1> QED
  BY <1>1, <1>2 DEF ClassifyBegin

\* The class of the match is held.
LEMMA ClassifyMatchInv ==
  ASSUME Inv, NEW w \in Workers, ClassifyMatch(w)
  PROVE  Inv'
<1>0. w \in Threads /\ Typed /\ Held /\ stage[w] = "match"
  BY DEF Threads, Inv, ClassifyMatch
<1>1. /\ result' = [result EXCEPT ![w] = Match(payload[w])] /\ Goto(w, "time")
      /\ UNCHANGED <<signatures, updated, guardrails, degraded, counts, payload, enable,
                     answered, raced>>
  BY DEF ClassifyMatch
<1>2. /\ stage'[w] = "time" /\ \A u \in Threads : u # w => stage'[u] = stage[u]
      /\ stage' \in [Threads -> StageNames]
  BY <1>0, <1>1, GotoFacts DEF StageNames
<1>3. result' \in [Threads -> Nat]
  BY <1>0, <1>1, TypedFacts, MatchType
<1>4. Own(w)
  BY <1>0, <1>1, <1>2, TypedFacts DEF Own
<1>5. Typed'
  BY <1>0, <1>1, <1>2, <1>3, TypedFacts, TypedStep
<1>6. Held' /\ Counted' /\ Verdicts'
  BY <1>0, <1>1, <1>2, <1>4, HeldStep, CountedStep, VerdictsStep
<1> QED
  BY <1>5, <1>6 DEF Inv

\* In time, a class is to be counted and UNKNOWN to be returned.
LEMMA ClassifyTimeInv ==
  ASSUME Inv, NEW w \in Workers, ClassifyTime(w)
  PROVE  Inv'
<1>0. w \in Threads /\ Typed /\ Held /\ stage[w] = "time"
  BY DEF Threads, Inv, ClassifyTime
<1>1. /\ \/ Goto(w, "late") \/ (Goto(w, "count") /\ result[w] # UNKNOWN)
         \/ (Goto(w, "answer") /\ result[w] = UNKNOWN)
      /\ UNCHANGED <<signatures, updated, guardrails, degraded, counts, payload, result,
                     enable, answered, raced>>
  BY DEF ClassifyTime
<1>2. /\ stage'[w] \in {"late", "count", "answer"}
      /\ stage'[w] = "count" => result[w] # UNKNOWN
      /\ stage'[w] = "answer" => result[w] = UNKNOWN
      /\ \A u \in Threads : u # w => stage'[u] = stage[u]
      /\ stage' \in [Threads -> StageNames]
  BY <1>0, <1>1, GotoFacts DEF StageNames
<1>3. Own(w) /\ result' = result
  BY <1>1, <1>2 DEF Own
<1>4. Typed'
  BY <1>0, <1>1, <1>2, TypedFacts, TypedStep
<1>5. Held' /\ Counted' /\ Verdicts'
  BY <1>0, <1>1, <1>2, <1>3, ClassFacts, HeldStep, CountedStep, VerdictsStep
<1> QED
  BY <1>4, <1>5 DEF Inv

\* Late: the verdict is that of the present guardrails.
LEMMA ClassifyLateInv ==
  ASSUME Inv, NEW w \in Workers, ClassifyLate(w)
  PROVE  Inv'
<1>0. w \in Threads /\ Typed /\ Held /\ stage[w] = "late"
  BY DEF Threads, Inv, ClassifyLate
<1>1. /\ enable' = [enable EXCEPT ![w] = guardrails.degradation_enabled]
      /\ Goto(w, "degrade")
      /\ UNCHANGED <<signatures, updated, guardrails, degraded, counts, payload, result,
                     answered, raced>>
  BY DEF ClassifyLate
<1>2. /\ stage'[w] = "degrade" /\ \A u \in Threads : u # w => stage'[u] = stage[u]
      /\ stage' \in [Threads -> StageNames]
  BY <1>0, <1>1, GotoFacts DEF StageNames
<1>3. /\ enable' \in [Threads -> BOOLEAN]
      /\ enable'[w] = guardrails.degradation_enabled
      /\ \A u \in Threads : u # w => enable'[u] = enable[u]
  BY <1>0, <1>1, TypedFacts
<1>4. Own(w)
  BY <1>1, <1>2, <1>3 DEF Own
<1>5. Typed'
  BY <1>0, <1>1, <1>2, <1>3, TypedFacts, TypedStep
<1>6. Held' /\ Counted'
  BY <1>0, <1>1, <1>2, <1>4, HeldStep, CountedStep
<1>7. Verdicts'
  <2>1. ASSUME NEW u \in Workers, stage'[u] = "degrade", ~raced
        PROVE  enable'[u] = guardrails.degradation_enabled
    BY <1>2, <1>3, <2>1 DEF Inv, Verdicts, Threads
  <2>2. (\A c \in Controllers : stage'[c] # "reset") =>
          \A c \in Controllers : stage[c] # "reset"
    BY <1>0, <1>2 DEF Threads
  <2>3. DegradedOnlyIfEnabled'
    BY <1>1, <2>2 DEF Inv, Verdicts, DegradedOnlyIfEnabled
  <2> QED
    BY <1>1, <2>1, <2>3 DEF Verdicts
<1> QED
  BY <1>5, <1>6, <1>7 DEF Inv

\* The verdict is stored: that of the present guardrails unless they were set
\* since it was read.
LEMMA ClassifyDegradeInv ==
  ASSUME Inv, NEW w \in Workers, ClassifyDegrade(w)
  PROVE  Inv'
<1>0. w \in Threads /\ Typed /\ Held /\ stage[w] = "degrade"
  BY DEF Threads, Inv, ClassifyDegrade
<1>1. /\ degraded' = enable[w] /\ result' = [result EXCEPT ![w] = UNKNOWN]
      /\ Goto(w, "answer")
      /\ UNCHANGED <<signatures, updated, guardrails, counts, payload, enable, answered, raced>>
  BY DEF ClassifyDegrade
<1>2. /\ stage'[w] = "answer" /\ \A u \in Threads : u # w => stage'[u] = stage[u]
      /\ stage' \in [Threads -> StageNames]
  BY <1>0, <1>1, GotoFacts DEF StageNames
<1>3. /\ result' \in [Threads -> Nat] /\ result'[w] = UNKNOWN
      /\ \A u \in Threads : u # w => result'[u] = result[u]
      /\ degraded' \in BOOLEAN
  BY <1>0, <1>1, TypedFacts, ClassFacts
<1>4. Own(w)
  BY <1>1, <1>2, <1>3 DEF Own
<1>5. Typed'
  BY <1>0, <1>1, <1>2, <1>3, TypedFacts, TypedStep
<1>6. Held' /\ Counted'
  BY <1>0, <1>1, <1>2, <1>3, <1>4, ClassFacts, HeldStep, CountedStep
<1>7. Verdicts'
  <2>1. ASSUME NEW u \in Workers, stage'[u] = "degrade", ~raced
        PROVE  enable'[u] = guardrails.degradation_enabled
    BY <1>1, <1>2, <2>1 DEF Inv, Verdicts, Threads
  <2>2. ~raced => enable[w] = guardrails.degradation_enabled
    BY <1>0 DEF Inv, Verdicts
  <2>3. DegradedOnlyIfEnabled'
    BY <1>1, <2>2 DEF DegradedOnlyIfEnabled
  <2> QED
    BY <1>1, <2>1, <2>3 DEF Verdicts
<1> QED
  BY <1>5, <1>6, <1>7 DEF Inv

\* The workers about to return a class are the same but for the one that
\* moves.
LEMMA OthersAnswering ==
  ASSUME Inv, NEW w \in Workers, Own(w), NEW c \in Classes \ {UNKNOWN}
  PROVE  /\ Answering(c)' \ {w} = Answering(c) \ {w} /\ IsFiniteSet(Answering(c))
         /\ w \in Answering(c) <=> stage[w] = "answer" /\ result[w] = c
         /\ w \in Answering(c)' <=> stage'[w] = "answer" /\ result'[w] = c
         /\ counts[c] = answered[c] + Cardinality(Answering(c))
         /\ Cardinality(Answering(c)) \in Nat
         /\ counts[c] \in Nat /\ answered[c] \in Nat
<1>1. IsFiniteSet(Answering(c)) /\ counts[c] = answered[c] + Cardinality(Answering(c))
  BY DEF Inv, Counted
<1>2. counts[c] \in Nat /\ answered[c] \in Nat
  BY TypedFacts DEF Inv
<1>3. Answering(c)' \ {w} = Answering(c) \ {w}
  BY DEF Answering, Own, Threads
<1> QED
  BY <1>1, <1>2, <1>3, FS_CardinalityType DEF Answering

\* The class is counted and about to be returned.
LEMMA ClassifyCountInv ==
  ASSUME Inv, NEW w \in Workers, ClassifyCount(w)
  PROVE  Inv'
<1>0. w \in Threads /\ Typed /\ Held /\ stage[w] = "count" /\ result[w] # UNKNOWN
  BY DEF Threads, Inv, ClassifyCount, Held
<1>1. CASE Halt("counted out of bounds")
  BY <1>1, HaltStep
<1>2. CASE /\ result[w] \in Classes
           /\ counts' = [counts EXCEPT ![result[w]] = @ + 1]
           /\ Goto(w, "answer")
           /\ UNCHANGED <<signatures, updated, guardrails, degraded, payload, result,
                          enable, answered, raced>>
  <2>1. /\ stage'[w] = "answer" /\ \A u \in Threads : u # w => stage'[u] = stage[u]
        /\ stage' \in [Threads -> StageNames]
    BY <1>0, <1>2, GotoFacts DEF StageNames
  <2>2. Own(w) /\ result' = result
    BY <1>2, <2>1 DEF Own
  <2>3. /\ counts' \in [Classes -> Nat] /\ counts'[result[w]] = counts[result[w]] + 1
        /\ \A c \in Classes : c # result[w] => counts'[c] = counts[c]
    BY <1>0, <1>2, TypedFacts
  <2>4. Typed'
    BY <1>0, <1>2, <2>1, <2>3, TypedFacts, TypedStep
  <2>5. Held'
    BY <1>0, <1>2, <2>1, <2>2, HeldStep
  <2>6. Verdicts'
    BY <1>0, <1>2, <2>1, <2>2, VerdictsStep
  <2>7. ASSUME NEW c \in Classes \ {UNKNOWN}
        PROVE  /\ IsFiniteSet(Answering(c)')
               /\ counts'[c] = answered[c] + Cardinality(Answering(c)')
    <3> DEFINE A == Answering(c)
    <3>1. /\ A' \ {w} = A \ {w} /\ IsFiniteSet(A) /\ w \notin A
          /\ w \in A' <=> result[w] = c
          /\ counts[c] = answered[c] + Cardinality(A) /\ Cardinality(A) \in Nat
          /\ counts[c] \in Nat /\ answered[c] \in Nat
      BY <1>0, <2>1, <2>2, OthersAnswering
    <3> HIDE DEF A
    <3>2. CASE result[w] = c
      <4>1. IsFiniteSet(A') /\ Cardinality(A') = Cardinality(A) + 1
        BY <3>1, <3>2, OneApart
      <4> QED
        BY <2>3, <3>1, <3>2, <4>1 DEF A
    <3>3. CASE result[w] # c
      <4>1. A' = A
        BY <3>1, <3>3, OneApart
      <4> QED
        BY <2>3, <3>1, <3>3, <4>1 DEF A
    <3> QED
      BY <3>2, <3>3
  <2>8. counts'[UNKNOWN] = 0
    BY <1>0, <2>3, ClassFacts DEF Inv, Counted
  <2>9. Counted'
    <3>1. Classes' = Classes /\ UNKNOWN' = UNKNOWN /\ answered' = answered
      BY <1>2 DEF Classes, UNKNOWN
    <3> QED
      BY <2>7, <2>8, <3>1 DEF Counted
  <2> QED
    BY <2>4, <2>5, <2>6, <2>9 DEF Inv
<1> QED
  BY <1>1, <1>2 DEF ClassifyCount

\* The class is returned.
LEMMA ClassifyReturnInv ==
  ASSUME Inv, NEW w \in Workers, ClassifyReturn(w)
  PROVE  Inv'
<1>0. w \in Threads /\ Typed /\ Held /\ stage[w] = "answer" /\ result[w] \in Classes
  BY DEF Threads, Inv, ClassifyReturn, Held
<1>1. /\ answered' = [answered EXCEPT ![result[w]] = @ + 1]
      /\ Goto(w, "idle")
      /\ payload' = [payload EXCEPT ![w] = <<>>]
      /\ result' = [result EXCEPT ![w] = UNKNOWN]
      /\ enable' = [enable EXCEPT ![w] = FALSE]
      /\ UNCHANGED <<signatures, updated, guardrails, degraded, counts, raced>>
  BY DEF ClassifyReturn
<1>2. /\ stage'[w] = "idle" /\ \A u \in Threads : u # w => stage'[u] = stage[u]
      /\ stage' \in [Threads -> StageNames]
  BY <1>0, <1>1, GotoFacts DEF StageNames
<1>3. /\ result' \in [Threads -> Nat] /\ result'[w] = UNKNOWN
      /\ \A u \in Threads : u # w => result'[u] = result[u]
  BY <1>0, <1>1, TypedFacts, ClassFacts
<1>4. /\ enable' \in [Threads -> BOOLEAN]
      /\ \A u \in Threads : u # w => enable'[u] = enable[u]
      /\ payload' \in [Threads -> Payloads \cup {<<>>}]
  BY <1>0, <1>1, TypedFacts
<1>5. /\ answered' \in [Classes -> Nat]
      /\ answered'[result[w]] = answered[result[w]] + 1
      /\ \A c \in Classes : c # result[w] => answered'[c] = answered[c]
  BY <1>0, <1>1, TypedFacts
<1>6. Own(w)
  BY <1>2, <1>3, <1>4 DEF Own
<1>7. Typed'
  BY <1>0, <1>1, <1>2, <1>3, <1>4, <1>5, TypedFacts, TypedStep
<1>8. Held' /\ Verdicts'
  BY <1>0, <1>1, <1>2, <1>3, <1>6, HeldStep, VerdictsStep
<1>9. ASSUME NEW c \in Classes \ {UNKNOWN}
      PROVE  /\ IsFiniteSet(Answering(c)')
             /\ counts[c] = answered'[c] + Cardinality(Answering(c)')
  <2> DEFINE A == Answering(c)
  <2>1. /\ A' \ {w} = A \ {w} /\ IsFiniteSet(A) /\ w \notin A'
        /\ w \in A <=> result[w] = c
        /\ counts[c] = answered[c] + Cardinality(A) /\ Cardinality(A) \in Nat
        /\ counts[c] \in Nat /\ answered[c] \in Nat
    BY <1>0, <1>2, <1>6, OthersAnswering
  <2> HIDE DEF A
  <2>2. CASE result[w] = c
    <3>1. IsFiniteSet(A') /\ Cardinality(A') = Cardinality(A) - 1
      BY <2>1, <2>2, OneApart
    <3> QED
      BY <1>5, <2>1, <2>2, <3>1 DEF A
  <2>3. CASE result[w] # c
    <3>1. A' = A
      BY <2>1, <2>3, OneApart
    <3> QED
      BY <1>5, <2>1, <2>3, <3>1 DEF A
  <2> QED
    BY <2>2, <2>3
<1>10. Counted'
  <2>1. Classes' = Classes /\ UNKNOWN' = UNKNOWN /\ counts' = counts
    BY <1>1 DEF Classes, UNKNOWN
  <2> QED
    BY <1>9, <2>1 DEF Inv, Counted
<1> QED
  BY <1>7, <1>8, <1>10 DEF Inv

-----------------------------------------------------------------------------
(* The steps of the controlling threads *)

\* Replacing the vector leaves the calls alone.
LEMMA ReplaceInv ==
  ASSUME Inv, NEW c \in Controllers, NEW new, NEW u, Replace(c, new, u), Typed'
  PROVE  Inv'
<1>1. UNCHANGED <<guardrails, degraded, counts, stage, result, enable, answered, raced>>
  BY DEF Replace, Halt, calls
<1> QED
  BY <1>1 DEF Inv, Held, Counted, Answering, Verdicts, DegradedOnlyIfEnabled

\* Nor does any of the three ways to change it disturb them.
LEMMA SignaturesInv ==
  ASSUME Inv, NEW c \in Controllers,
         LoadSignatures(c) \/ UpdateSignature(c) \/ RemoveSignature(c)
  PROVE  Inv'
<1>1. Typed'
  BY LoadSignaturesTyped, UpdateSignatureTyped, RemoveSignatureTyped DEF Inv, Threads
<1>2. CASE LoadSignatures(c)
  BY <1>1, <1>2, ReplaceInv DEF LoadSignatures
<1>3. CASE UpdateSignature(c)
  <2>1. PICK sig \in Signatures :
          LET at == Positions(sig.signature_id)
          IN  Replace(c, IF at = {} THEN Append(signatures, sig)
                         ELSE [signatures EXCEPT ![First(at)] = sig], TRUE)
    BY <1>3 DEF UpdateSignature
  <2> QED
    BY <1>1, <2>1, ReplaceInv
<1>4. CASE RemoveSignature(c)
  BY <1>1, <1>4, ReplaceInv DEF RemoveSignature
<1> QED
  BY <1>2, <1>3, <1>4

\* Unless raced is set no verdict is about to be stored, and until the reset
\* nothing is said of degraded.
LEMMA GuardrailsAssignInv ==
  ASSUME Inv, NEW c \in Controllers, GuardrailsAssign(c)
  PROVE  Inv'
<1>0. c \in Threads /\ Typed /\ Held /\ stage[c] = "idle"
  BY DEF Threads, Inv, GuardrailsAssign
<1>1. /\ guardrails' \in Guardrails
      /\ raced' = \E w \in Workers : stage[w] = "degrade"
      /\ Goto(c, "reset")
      /\ UNCHANGED <<signatures, updated, degraded, counts, payload, result, enable,
                     answered>>
  BY DEF GuardrailsAssign
<1>2. /\ stage'[c] = "reset" /\ \A u \in Threads : u # c => stage'[u] = stage[u]
      /\ stage' \in [Threads -> StageNames]
  BY <1>0, <1>1, GotoFacts DEF StageNames
<1>3. Own(c)
  BY <1>1, <1>2 DEF Own
<1>4. raced' \in BOOLEAN /\ (~raced' => \A w \in Workers : stage[w] # "degrade")
  BY <1>1
<1>5. Typed'
  BY <1>0, <1>1, <1>2, <1>4, TypedFacts, TypedStep
<1>6. Held' /\ Counted'
  BY <1>0, <1>1, <1>2, <1>3, HeldStep, CountedStep DEF Held
<1>7. Verdicts'
  <2>1. ASSUME NEW w \in Workers, stage'[w] = "degrade", ~raced' PROVE FALSE
    <3>1. w # c /\ w \in Threads
      BY <1>2, <2>1 DEF Threads
    <3> QED
      BY <1>2, <1>4, <2>1, <3>1
  <2>2. DegradedOnlyIfEnabled'
    BY <1>2 DEF DegradedOnlyIfEnabled
  <2> QED
    BY <2>1, <2>2 DEF Verdicts
<1> QED
  BY <1>5, <1>6, <1>7 DEF Inv

\* Degraded mode is left.
LEMMA GuardrailsResetInv ==
  ASSUME Inv, NEW c \in Controllers, GuardrailsReset(c)
  PROVE  Inv'
<1>0. c \in Threads /\ Typed /\ Held /\ stage[c] = "reset"
  BY DEF Threads, Inv, GuardrailsReset
<1>1. /\ degraded' = FALSE /\ Goto(c, "idle")
      /\ UNCHANGED <<signatures, updated, guardrails, counts, payload, result, enable,
                     answered, raced>>
  BY DEF GuardrailsReset
<1>2. /\ stage'[c] = "idle" /\ \A u \in Threads : u # c => stage'[u] = stage[u]
      /\ stage' \in [Threads -> StageNames]
  BY <1>0, <1>1, GotoFacts DEF StageNames
<1>3. Own(c)
  BY <1>1, <1>2 DEF Own
<1>4. Typed'
  BY <1>0, <1>1, <1>2, TypedFacts, TypedStep
<1>5. Held' /\ Counted'
  BY <1>0, <1>1, <1>2, <1>3, HeldStep, CountedStep DEF Held
<1>6. Verdicts'
  <2>1. ASSUME NEW w \in Workers, stage'[w] = "degrade", ~raced
        PROVE  enable'[w] = guardrails.degradation_enabled
    <3>1. w # c /\ w \in Threads
      BY <1>2, <2>1 DEF Threads
    <3> QED
      BY <1>1, <1>2, <2>1, <3>1 DEF Inv, Verdicts
  <2>2. DegradedOnlyIfEnabled'
    BY <1>1 DEF DegradedOnlyIfEnabled
  <2> QED
    BY <1>1, <2>1, <2>2 DEF Verdicts
<1> QED
  BY <1>4, <1>5, <1>6 DEF Inv

\* The invariant holds at the start,
LEMMA InitInv == Init => Inv
<1> SUFFICES ASSUME Init PROVE Inv
  OBVIOUS
<1>1. Typed
  BY InitTyped
<1>2. Held
  BY DEF Init, Held
<1>3. Counted
  <2>1. \A c \in Classes : Answering(c) = {}
    BY DEF Init, Answering, Threads
  <2>2. \A c \in Classes : counts[c] = 0 /\ answered[c] = 0
    BY DEF Init
  <2> QED
    BY <2>1, <2>2, ClassFacts, FS_EmptySet DEF Counted
<1>4. Verdicts
  BY DEF Init, Verdicts, DegradedOnlyIfEnabled, Threads
<1> QED
  BY <1>1, <1>2, <1>3, <1>4 DEF Inv

\* and every step of a worker or of a controlling thread keeps it.
LEMMA NextInv == Inv /\ [Next]_vars => Inv'
<1> SUFFICES ASSUME Inv, [Next]_vars PROVE Inv'
  OBVIOUS
<1>1. ASSUME NEW w \in Workers, Classify(w) PROVE Inv'
  BY <1>1, ClassifyBeginInv, ClassifyMatchInv, ClassifyTimeInv, ClassifyLateInv,
     ClassifyDegradeInv, ClassifyCountInv, ClassifyReturnInv DEF Classify
<1>2. ASSUME NEW c \in Controllers, Control(c) PROVE Inv'
  BY <1>2, SignaturesInv, GuardrailsAssignInv, GuardrailsResetInv DEF Control
<1>3. CASE UNCHANGED vars
  <2>1. UNCHANGED <<signatures, updated, guardrails, degraded, counts, stage, payload,
                    result, enable, answered, raced>>
    BY <1>3 DEF vars, calls
  <2> QED
    BY <2>1 DEF Inv, Typed, TypeOK, Held, Counted, Answering, Verdicts,
       DegradedOnlyIfEnabled
<1> QED
  BY <1>1, <1>2, <1>3 DEF Next

\* The invariant the following theorems rest on.
THEOREM Invariance == Spec => []Inv
<1>1. Inv /\ [Next]_vars => Inv'
  BY NextInv
<1> QED
  BY InitInv, <1>1, PTL DEF Spec

\* The vector of signatures, the guardrails, the counters and what the calls
\* hold keep their types.
THEOREM TypeCorrect == Spec => []TypeOK
<1>1. Inv => TypeOK
  BY DEF Inv, Typed
<1> QED
  BY Invariance, <1>1, PTL

\* A class has been counted as often as it was the answer, and never for a
\* packet that was skipped, late or unknown, whatever runs concurrently.
THEOREM AnswersCounted == Spec => []CountsAreAnswers
<1>1. Inv => CountsAreAnswers
  BY DEF Inv, Counted, CountsAreAnswers, Answering
<1> QED
  BY Invariance, <1>1, PTL

\* Packets are skipped only under guardrails that allow degraded mode, unless
\* these were set while a late classification was about to store its verdict.
THEOREM SkipsAreAllowed == Spec => []DegradedOnlyIfEnabled
<1>1. Inv => DegradedOnlyIfEnabled
  BY DEF Inv, Verdicts
<1> QED
  BY Invariance, <1>1, PTL

-----------------------------------------------------------------------------
(* What the search finds *)

\* The symbols of a part of a sequence.
LEMMA Slice ==
  ASSUME NEW p \in Seq(Nat), NEW a \in Nat, NEW b \in Nat, a <= b, b <= Len(p)
  PROVE  /\ SubSeq(p, a + 1, b) \in Seq(Nat) /\ Len(SubSeq(p, a + 1, b)) = b - a
         /\ \A k \in 1..(b - a) : SubSeq(p, a + 1, b)[k] = p[a + k]
<1>1. Len(p) \in Nat /\ \A i \in 1..Len(p) : p[i] \in Nat
  BY LenProperties, ElementOfSeq
<1>2. a + 1 \in Int /\ b \in Int /\ \A i \in (a + 1)..b : p[i] \in Nat
  BY <1>1
<1>3. /\ SubSeq(p, a + 1, b) \in Seq(Nat)
      /\ Len(SubSeq(p, a + 1, b)) = IF a + 1 <= b THEN b - (a + 1) + 1 ELSE 0
      /\ \A i \in 1..(b - (a + 1) + 1) : SubSeq(p, a + 1, b)[i] = p[(a + 1) + i - 1]
  BY ONLY <1>2, SubSeqProperties
<1>4. Len(SubSeq(p, a + 1, b)) = b - a
  BY <1>3
<1>5. ASSUME NEW k \in 1..(b - a) PROVE SubSeq(p, a + 1, b)[k] = p[a + k]
  <2>1. k \in 1..(b - (a + 1) + 1) /\ (a + 1) + k - 1 = a + k
    OBVIOUS
  <2> QED
    BY <1>3, <2>1
<1> QED
  BY <1>3, <1>4, <1>5

\* A pattern is at a position if its symbols are.
LEMMA PatternAt ==
  ASSUME NEW p \in Seq(Nat), NEW q \in Seq(Nat), NEW i \in Nat, i + Len(q) <= Len(p)
  PROVE  SubSeq(p, i + 1, i + Len(q)) = q <=> \A k \in 1..Len(q) : p[i + k] = q[k]
<1> DEFINE n == Len(q)
           s == SubSeq(p, i + 1, i + n)
<1>1. n \in Nat
  BY LenProperties
<1>2. /\ i + n \in Nat /\ i <= i + n /\ i + n <= Len(p) /\ (i + n) - i = n
  BY <1>1
<1>3. /\ s \in Seq(Nat) /\ Len(s) = (i + n) - i
      /\ \A k \in 1..((i + n) - i) : s[k] = p[i + k]
  BY <1>2, Slice
<1>4. s \in Seq(Nat) /\ Len(s) = n /\ \A k \in 1..n : s[k] = p[i + k]
  BY <1>2, <1>3
<1> HIDE DEF s, n
<1>5. s = q => \A k \in 1..n : p[i + k] = q[k]
  BY <1>4
<1>6. (\A k \in 1..n : p[i + k] = q[k]) => s = q
  <2> SUFFICES ASSUME \A k \in 1..n : p[i + k] = q[k] PROVE s = q
    OBVIOUS
  <2>1. Len(s) = Len(q) /\ \A k \in 1..Len(s) : s[k] = q[k]
    BY <1>4 DEF n
  <2> QED
    BY <1>4, <2>1, SeqEqual
<1> QED
  BY <1>5, <1>6 DEF s, n

\* A pattern begins a sequence if its symbols do.
LEMMA PatternFirst ==
  ASSUME NEW s \in Seq(Nat), NEW q \in Seq(Nat)
  PROVE  IsPrefix(q, s) <=> Len(q) <= Len(s) /\ \A k \in 1..Len(q) : s[k] = q[k]
<1>1. Len(q) \in Nat /\ Len(s) \in Nat /\ SubSeq(q, 1, Len(q)) = q
  BY LenProperties, SubSeqFull
<1>2. ASSUME Len(q) <= Len(s)
      PROVE  SubSeq(s, 1, Len(q)) = q <=> \A k \in 1..Len(q) : s[k] = q[k]
  <2>1. 0 \in Nat /\ 0 + Len(q) <= Len(s)
    BY <1>1, <1>2
  <2>2. SubSeq(s, 0 + 1, 0 + Len(q)) = q <=> \A k \in 1..Len(q) : s[0 + k] = q[k]
    BY <2>1, PatternAt
  <2>3. 0 + 1 = 1 /\ 0 + Len(q) = Len(q) /\ \A k \in 1..Len(q) : 0 + k = k
    BY <1>1
  <2> QED
    BY <2>2, <2>3
<1> QED
  BY <1>1, <1>2 DEF IsPrefix

\* Trying every position at which there is room in a part of a payload finds
\* a pattern exactly if it begins what is left of that part somewhere.
LEMMA InWindow ==
  ASSUME NEW p \in Seq(Nat), NEW q \in Seq(Nat), NEW o \in Nat, NEW m \in Nat,
         o + m <= Len(p)
  PROVE  (/\ m >= Len(q)
          /\ \E i \in o..(o + m - Len(q)) : SubSeq(p, i + 1, i + Len(q)) = q)
         <=> \E s \in Suffixes(SubSeq(p, o + 1, o + m)) : IsPrefix(q, s)
<1> DEFINE W == SubSeq(p, o + 1, o + m)
           n == Len(q)
<1>1. n \in Nat /\ Len(p) \in Nat
  BY LenProperties
<1>2. W \in Seq(Nat) /\ Len(W) = m /\ \A k \in 1..m : W[k] = p[o + k]
  <2>1. o + m \in Nat /\ o <= o + m /\ (o + m) - o = m
    OBVIOUS
  <2>2. /\ W \in Seq(Nat) /\ Len(W) = (o + m) - o
        /\ \A k \in 1..((o + m) - o) : W[k] = p[o + k]
    BY <2>1, Slice
  <2> QED
    BY <2>1, <2>2
<1> HIDE DEF W
\* What is left of the part from some position on.
<1>3. ASSUME NEW l \in 1..m
      PROVE  /\ SubSeq(W, l, m) \in Seq(Nat) /\ Len(SubSeq(W, l, m)) = m - l + 1
             /\ \A k \in 1..(m - l + 1) : SubSeq(W, l, m)[k] = p[(o + l - 1) + k]
  <2>1. /\ l - 1 \in Nat /\ l - 1 <= m /\ m <= Len(W) /\ (l - 1) + 1 = l
        /\ m - (l - 1) = m - l + 1
    BY <1>2
  <2>2. /\ SubSeq(W, (l - 1) + 1, m) \in Seq(Nat)
        /\ Len(SubSeq(W, (l - 1) + 1, m)) = m - (l - 1)
        /\ \A k \in 1..(m - (l - 1)) : SubSeq(W, (l - 1) + 1, m)[k] = W[(l - 1) + k]
    BY ONLY <1>2, <2>1, Slice, m \in Nat
  <2>3. ASSUME NEW k \in 1..(m - l + 1) PROVE W[(l - 1) + k] = p[(o + l - 1) + k]
    <3>1. (l - 1) + k \in 1..m /\ o + ((l - 1) + k) = (o + l - 1) + k
      OBVIOUS
    <3> QED
      BY <1>2, <3>1
  <2> QED
    BY <2>1, <2>2, <2>3
<1>4. Suffixes(W) = {SubSeq(W, l, m) : l \in 1..m} \cup {<<>>}
  BY <1>2 DEF Suffixes
<1>5. ASSUME m >= n, NEW i \in o..(o + m - n), SubSeq(p, i + 1, i + n) = q
      PROVE  \E s \in Suffixes(W) : IsPrefix(q, s)
  <2>1. i \in Nat /\ i + n <= Len(p)
    BY <1>1, <1>5
  <2>2. \A k \in 1..n : p[i + k] = q[k]
    BY <1>5, <2>1, PatternAt
  <2>3. CASE n = 0
    <3>1. <<>> \in Seq(Nat) /\ Len(<<>>) = 0
      BY EmptySeq
    <3>2. Len(q) <= Len(<<>>) /\ 1..Len(q) = {}
      BY <2>3, <3>1
    <3>3. IsPrefix(q, <<>>)
      BY <3>1, <3>2, PatternFirst
    <3> QED
      BY <1>4, <3>3
  <2>4. CASE n # 0
    <3> DEFINE l == i - o + 1
               s == SubSeq(W, l, m)
    <3>1. /\ l \in 1..m /\ n <= m - l + 1 /\ o + l - 1 = i
      BY <1>1, <1>5, <2>4
    <3> HIDE DEF l
    <3>2. /\ s \in Seq(Nat) /\ Len(s) = m - l + 1
          /\ \A k \in 1..(m - l + 1) : s[k] = p[(o + l - 1) + k]
      BY <1>3, <3>1
    <3>3. \A k \in 1..n : k \in 1..(m - l + 1)
      BY <1>1, <3>1
    <3>4. \A k \in 1..n : s[k] = q[k]
      BY <2>2, <3>1, <3>2, <3>3
    <3>5. IsPrefix(q, s)
      BY <3>1, <3>2, <3>4, PatternFirst
    <3> QED
      BY <1>4, <3>1, <3>5
  <2> QED
    BY <2>3, <2>4
<1>6. ASSUME NEW s \in Suffixes(W), IsPrefix(q, s)
      PROVE  /\ m >= n
             /\ \E i \in o..(o + m - n) : SubSeq(p, i + 1, i + n) = q
  <2>1. CASE s = <<>>
    <3>1. <<>> \in Seq(Nat) /\ Len(<<>>) = 0
      BY EmptySeq
    <3>2. n <= 0
      BY <1>6, <2>1, <3>1, PatternFirst
    <3>3. n = 0 /\ m >= n /\ o \in o..(o + m - n) /\ o + n <= Len(p) /\ 1..n = {}
      BY <1>1, <3>2
    <3>4. SubSeq(p, o + 1, o + n) = q
      BY <3>3, PatternAt
    <3> QED
      BY <3>3, <3>4
  <2>2. ASSUME NEW l \in 1..m, s = SubSeq(W, l, m)
        PROVE  /\ m >= n
               /\ \E i \in o..(o + m - n) : SubSeq(p, i + 1, i + n) = q
    <3>1. /\ s \in Seq(Nat) /\ Len(s) = m - l + 1
          /\ \A k \in 1..(m - l + 1) : s[k] = p[(o + l - 1) + k]
      BY <1>3, <2>2
    <3>2. n <= m - l + 1 /\ \A k \in 1..n : s[k] = q[k]
      BY <1>6, <3>1, PatternFirst
    <3> DEFINE i == o + l - 1
    <3>3. /\ i \in Nat /\ m >= n /\ i \in o..(o + m - n) /\ i + n <= Len(p)
          /\ \A k \in 1..n : k \in 1..(m - l + 1)
      BY <1>1, <3>2
    <3>4. \A k \in 1..n : p[i + k] = q[k]
      BY <3>1, <3>2, <3>3
    <3> HIDE DEF i
    <3>5. SubSeq(p, i + 1, i + n) = q
      BY <3>3, <3>4, PatternAt
    <3> QED
      BY <3>3, <3>5
  <2> QED
    BY <1>4, <2>1, <2>2
<1> QED
  BY <1>5, <1>6 DEF W

\* The search of a signature decides whether its pattern occurs between its
\* offset and its depth.
LEMMA FoundOccurs ==
  ASSUME NEW sig \in SignatureRecords, NEW p \in Seq(Nat)
  PROVE  Found(sig, p) <=> Occurs(sig, p)
<1> DEFINE o == sig.offset
           m == Least(sig.depth, Len(p) - o)
           q == sig.pattern
<1>1. o \in Nat /\ sig.depth \in Nat /\ q \in Seq(Nat) /\ Len(p) \in Nat
  BY LenProperties DEF SignatureRecords
<1>2. CASE o < Len(p)
  <2>1. m \in Nat /\ o + m <= Len(p) /\ Least(o + sig.depth, Len(p)) = o + m
    BY <1>1, <1>2 DEF Least
  <2>2. Window(sig, p) = SubSeq(p, o + 1, o + m)
    BY <2>1 DEF Window
  <2>3. Found(sig, p) <=>
          m >= Len(q) /\ \E i \in o..(o + m - Len(q)) : SubSeq(p, i + 1, i + Len(q)) = q
    BY <1>2 DEF Found
  <2>4. Occurs(sig, p) <=> \E s \in Suffixes(SubSeq(p, o + 1, o + m)) : IsPrefix(q, s)
    BY <1>2, <2>2 DEF Occurs
  <2> HIDE DEF o, m, q
  <2>5. (/\ m >= Len(q)
         /\ \E i \in o..(o + m - Len(q)) : SubSeq(p, i + 1, i + Len(q)) = q)
        <=> \E s \in Suffixes(SubSeq(p, o + 1, o + m)) : IsPrefix(q, s)
    BY ONLY <1>1, <2>1, p \in Seq(Nat), InWindow
  <2> QED
    BY <2>3, <2>4, <2>5
<1>3. CASE ~(o < Len(p))
  BY <1>3 DEF Found, Occurs
<1> QED
  BY <1>2, <1>3

-----------------------------------------------------------------------------
(* Priorities *)

\* The vector is in the order of the priorities until a signature is updated.
Ordered == ~updated => Sorted(signatures)

\* Removing a signature keeps the order of the others.
LEMMA RemoveSorted ==
  ASSUME NEW S, NEW s \in Seq(S), Sorted(s), NEW k \in 1..Len(s)
  PROVE  Sorted(RemoveAt(s, k))
<1> DEFINE a == SubSeq(s, 1, k - 1)
           b == SubSeq(s, k + 1, Len(s))
           At(i) == IF i < k THEN i ELSE i + 1
<1>1. /\ Len(s) \in Nat /\ k \in Nat /\ 1 <= k /\ k <= Len(s)
      /\ DOMAIN s = 1..Len(s) /\ \A j \in 1..Len(s) : s[j] \in S
  BY LenProperties, ElementOfSeq
<1>2. /\ a \in Seq(S) /\ Len(a) = k - 1
      /\ \A i \in 1..(k - 1) : a[i] = s[i]
  <2>1. 1 \in Int /\ k - 1 \in Int /\ \A j \in 1..(k - 1) : s[j] \in S
    BY <1>1
  <2>2. /\ a \in Seq(S)
        /\ Len(a) = IF 1 <= k - 1 THEN (k - 1) - 1 + 1 ELSE 0
        /\ \A i \in 1..((k - 1) - 1 + 1) : a[i] = s[1 + i - 1]
    BY <2>1, SubSeqProperties
  <2> HIDE DEF a
  <2>3. Len(a) = k - 1
    BY <1>1, <2>2
  <2>4. ASSUME NEW i \in 1..(k - 1) PROVE a[i] = s[i]
    <3>1. i \in 1..((k - 1) - 1 + 1) /\ 1 + i - 1 = i
      BY <1>1
    <3> QED
      BY <2>2, <3>1
  <2> QED
    BY <2>2, <2>3, <2>4
<1>3. /\ b \in Seq(S) /\ Len(b) = Len(s) - k
      /\ \A i \in 1..(Len(s) - k) : b[i] = s[k + i]
  <2>1. k + 1 \in Int /\ Len(s) \in Int /\ \A j \in (k + 1)..Len(s) : s[j] \in S
    BY <1>1
  <2>2. /\ b \in Seq(S)
        /\ Len(b) = IF k + 1 <= Len(s) THEN Len(s) - (k + 1) + 1 ELSE 0
        /\ \A i \in 1..(Len(s) - (k + 1) + 1) : b[i] = s[(k + 1) + i - 1]
    BY <2>1, SubSeqProperties
  <2> HIDE DEF b
  <2>3. Len(b) = Len(s) - k
    <3>1. CASE k + 1 <= Len(s)
      BY <1>1, <2>2, <3>1
    <3>2. CASE ~(k + 1 <= Len(s))
      <4>1. Len(s) \in Nat /\ k \in Nat /\ k <= Len(s) /\ ~(k + 1 <= Len(s))
        BY <1>1, <3>2
      <4>2. k = Len(s)
        BY ONLY <4>1
      <4> QED
        BY <1>1, <2>2, <3>2, <4>2
    <3> QED
      BY <3>1, <3>2
  <2>4. ASSUME NEW i \in 1..(Len(s) - k) PROVE b[i] = s[k + i]
    <3>1. i \in 1..(Len(s) - (k + 1) + 1) /\ (k + 1) + i - 1 = k + i
      BY <1>1
    <3> QED
      BY <2>2, <3>1
  <2> QED
    BY <2>2, <2>3, <2>4
<1>4. RemoveAt(s, k) = a \o b
  BY DEF RemoveAt
<1> HIDE DEF a, b
<1>5. /\ a \o b \in Seq(S) /\ Len(a \o b) = Len(s) - 1
      /\ \A i \in 1..(Len(s) - 1) : (a \o b)[i] = s[At(i)]
  <2>1. /\ a \o b \in Seq(S) /\ Len(a \o b) = Len(a) + Len(b)
        /\ \A i \in 1..(Len(a) + Len(b)) :
             (a \o b)[i] = IF i <= Len(a) THEN a[i] ELSE b[i - Len(a)]
    BY <1>2, <1>3, ConcatProperties
  <2>2. Len(a) + Len(b) = Len(s) - 1
    BY <1>1, <1>2, <1>3
  <2>3. ASSUME NEW i \in 1..(Len(s) - 1) PROVE (a \o b)[i] = s[At(i)]
    <3>1. CASE i < k
      <4>1. i \in 1..(k - 1) /\ i <= Len(a) /\ i \in 1..(Len(a) + Len(b))
        BY <1>1, <1>2, <2>2, <3>1
      <4> QED
        BY <1>2, <2>1, <3>1, <4>1
    <3>2. CASE ~(i < k)
      <4>1. /\ i - Len(a) \in 1..(Len(s) - k) /\ ~(i <= Len(a))
            /\ i \in 1..(Len(a) + Len(b)) /\ k + (i - Len(a)) = i + 1
        BY <1>1, <1>2, <2>2, <3>2
      <4> QED
        BY <1>3, <2>1, <3>2, <4>1
    <3> QED
      BY <3>1, <3>2
  <2> QED
    BY <2>1, <2>2, <2>3
<1> DEFINE r == a \o b
<1>6. DOMAIN r = 1..(Len(s) - 1)
  BY <1>5, LenProperties
<1>7. \A i \in 1..(Len(s) - 1) : r[i] = s[At(i)]
  BY <1>5
<1> HIDE DEF r
<1>8. ASSUME NEW i \in DOMAIN r, NEW j \in DOMAIN r, i < j
      PROVE  r[i].priority >= r[j].priority
  <2>1. At(i) \in 1..Len(s) /\ At(j) \in 1..Len(s) /\ At(i) < At(j)
    BY <1>1, <1>6, <1>8
  <2>2. r[i] = s[At(i)] /\ r[j] = s[At(j)]
    BY <1>6, <1>7, <1>8
  <2> HIDE DEF At
  <2> QED
    BY <1>1, <2>1, <2>2 DEF Sorted
<1> QED
  BY <1>4, <1>8 DEF Sorted, r

\* Loading leaves the vector sorted, removing keeps it so, and updating says
\* that it may not be.
LEMMA ReplaceOrdered ==
  ASSUME Typed, Ordered, NEW c \in Controllers,
         LoadSignatures(c) \/ UpdateSignature(c) \/ RemoveSignature(c)
  PROVE  Ordered'
<1>1. ASSUME NEW new, NEW u, Replace(c, new, u), ~u => Sorted(new)
      PROVE  Ordered'
  <2>1. CASE UNCHANGED <<signatures, updated>>
    BY <2>1 DEF Ordered, Sorted
  <2>2. CASE signatures' = new /\ updated' = u
    BY <1>1, <2>2 DEF Ordered, Sorted
  <2> QED
    BY <1>1, <2>1, <2>2 DEF Replace, Halt
<1>2. CASE LoadSignatures(c)
  <2>1. PICK file \in Files : \E new \in Sortings(signatures \o ParsedFile(file)) :
          Replace(c, new, FALSE)
    BY <1>2 DEF LoadSignatures
  <2>2. PICK new \in Sortings(signatures \o ParsedFile(file)) : Replace(c, new, FALSE)
    BY <2>1
  <2>3. Sorted(new)
    BY DEF Sortings
  <2> QED
    BY <1>1, <2>2, <2>3
<1>3. CASE UpdateSignature(c)
  <2>1. PICK sig \in Signatures :
          LET at == Positions(sig.signature_id)
          IN  Replace(c, IF at = {} THEN Append(signatures, sig)
                         ELSE [signatures EXCEPT ![First(at)] = sig], TRUE)
    BY <1>3 DEF UpdateSignature
  <2> QED
    BY <1>1, <2>1
<1>4. CASE RemoveSignature(c)
  <2>1. PICK id \in Ids :
          /\ Positions(id) # {}
          /\ Replace(c, RemoveAt(signatures, First(Positions(id))), updated)
    BY <1>4 DEF RemoveSignature
  <2>2. ~updated => Sorted(RemoveAt(signatures, First(Positions(id))))
    BY <2>1, PositionsType, RemoveSorted DEF Typed, Ordered
  <2> QED
    BY <1>1, <2>1, <2>2
<1> QED
  BY <1>2, <1>3, <1>4

\* Nothing else touches the vector.
LEMMA NextOrdered == Typed /\ Ordered /\ [Next]_vars => Ordered'
<1> SUFFICES ASSUME Typed, Ordered, [Next]_vars PROVE Ordered'
  OBVIOUS
<1>1. ASSUME UNCHANGED <<signatures, updated>> PROVE Ordered'
  BY <1>1 DEF Ordered, Sorted
<1>2. ASSUME NEW w \in Workers, Classify(w) PROVE UNCHANGED <<signatures, updated>>
  BY <1>2 DEF Classify, ClassifyBegin, ClassifyMatch, ClassifyTime, ClassifyLate,
     ClassifyDegrade, ClassifyCount, ClassifyReturn, Halt
<1>3. ASSUME NEW c \in Controllers, GuardrailsAssign(c) \/ GuardrailsReset(c)
      PROVE  UNCHANGED <<signatures, updated>>
  BY <1>3 DEF GuardrailsAssign, GuardrailsReset
<1>4. CASE UNCHANGED vars
  BY <1>1, <1>4 DEF vars
<1> QED
  BY <1>1, <1>2, <1>3, <1>4, ReplaceOrdered DEF Next, Control

\* The first signature found is the first that occurs, and in an ordered
\* vector none that occurs has a higher priority.
LEMMA FirstMatch == Typed /\ Ordered => MatchesWithinWindow
<1> SUFFICES ASSUME Typed, Ordered, NEW p \in Payloads
             PROVE  IF Occurring(p) = {} THEN Match(p) = UNKNOWN
                    ELSE /\ \E i \in Occurring(p) : signatures[i].classification = Match(p)
                         /\ ~updated => OfHighest(Match(p), Occurring(p))
  BY DEF MatchesWithinWindow
<1> DEFINE found == {i \in DOMAIN signatures : Found(signatures[i], p)}
<1>1. /\ DOMAIN signatures = 1..Len(signatures) /\ Len(signatures) \in Nat
      /\ p \in Seq(Nat)
  BY LenProperties, DataAssumption DEF Typed
<1>2. \A i \in DOMAIN signatures : signatures[i] \in SignatureRecords
  BY <1>1, ElementOfSeq, LoadableType DEF Typed
<1>3. found = Occurring(p)
  BY <1>1, <1>2, FoundOccurs DEF Occurring
<1>4. CASE found = {}
  BY <1>3, <1>4 DEF Match
<1>5. CASE found # {}
  <2>1. found \in SUBSET Nat /\ found \subseteq DOMAIN signatures
    BY <1>1
  <2>2. First(found) \in found /\ \A j \in found : First(found) <= j
    BY <1>5, <2>1, Smallest
  <2>3. Match(p) = signatures[First(found)].classification
    BY <1>5 DEF Match, First
  <2>4. ASSUME ~updated, NEW j \in found
        PROVE  signatures[j].priority <= signatures[First(found)].priority
    <3> HIDE DEF found
    <3>1. First(found) <= j /\ j \in Nat /\ First(found) \in Nat
      BY <2>1, <2>2, <2>4
    <3>2. /\ signatures[j].priority \in Nat
          /\ signatures[First(found)].priority \in Nat
      BY <1>2, <2>1, <2>2, <2>4 DEF SignatureRecords
    <3>3. CASE First(found) < j
      BY <2>1, <2>2, <2>4, <3>2, <3>3 DEF Ordered, Sorted
    <3>4. CASE First(found) = j
      BY <3>2, <3>4
    <3> QED
      BY <3>1, <3>3, <3>4
  <2> HIDE DEF found
  <2>5. ~updated => OfHighest(Match(p), found)
    BY <2>2, <2>3, <2>4 DEF OfHighest
  <2> QED
    BY <1>3, <1>5, <2>2, <2>3, <2>5
<1> QED
  BY <1>4, <1>5

\* Whatever signatures have been loaded, updated and removed, a payload is
\* unknown only if none occurs in its window, and otherwise of the class of one
\* that does: one of the highest priority, as long as none was updated since
\* the last file was loaded.
THEOREM MatchesInOrder == Spec => []MatchesWithinWindow
<1>1. Init => Ordered
  BY DEF Init, Ordered, Sorted
<1>2. Inv /\ Ordered /\ [Next]_vars => Ordered'
  BY NextOrdered DEF Inv
<1>3. Inv /\ Ordered => MatchesWithinWindow
  BY FirstMatch DEF Inv
<1> QED
  BY Invariance, <1>1, <1>2, <1>3, PTL DEF Spec
=============================================================================
