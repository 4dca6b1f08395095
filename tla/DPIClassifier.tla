--------------------------- MODULE DPIClassifier ----------------------------
(***************************************************************************)
(* vsg::dpi::DPIClassifier: workers classify packets against a plain       *)
(* vector of signatures, under guardrails that turn a classification that  *)
(* took too long into degraded mode, while control threads load, update    *)
(* and remove signatures and set the guardrails.  Nothing is locked: only  *)
(* degraded_ and the counters are atomic.  Changing the vector while a     *)
(* worker iterates over it, counting past the end of the counters and a    *)
(* remainder by zero end what the code defines, and the model: halted      *)
(* tells which.                                                            *)
(*                                                                         *)
(* A payload and a pattern are short sequences of symbols.  The time a     *)
(* match takes and rand() are arbitrary.  stateless, max_payloads and      *)
(* heuristic_classify are never used.                                      *)
(***************************************************************************)
EXTENDS Integers, FiniteSets, SequencesExt

CONSTANTS
  Workers, Controllers,  \* the threads that classify and that configure
  Payloads,
  Signatures,            \* what update_signature is called with
  Files,                 \* files of signatures, each a sequence of lines
  Guardrails,            \* what set_guardrails is called with
  Times,                 \* microseconds a match may take
  ClassCount,            \* 16, the length of classification_counts_
  MaxSignatures, MaxAnswers  \* bounds

NoNumber == -1

\* A line's fields; number is what the pattern gives when it is read as one.
Lines ==
  [signature_id : Nat, classification : 0..99, pattern : Seq(Nat),
   number : Nat \cup {NoNumber}, offset : Nat, depth : Nat]
SignatureRecords ==
  [signature_id : Nat, classification : Nat, pattern : Seq(Nat), offset : Nat,
   depth : Nat, priority : Nat]

ASSUME ClassAssumption == ClassCount \in Nat \ {0}
ASSUME DataAssumption ==
  /\ Payloads \subseteq Seq(Nat) /\ Times \subseteq Nat
  /\ Signatures \subseteq SignatureRecords
  /\ Files \subseteq Seq(Lines)
ASSUME GuardrailAssumption ==
  Guardrails \subseteq
    [timeout_us : Nat, sample_rate : Nat, degradation_enabled : BOOLEAN]

Threads == Workers \cup Controllers
Classes == 0..(ClassCount - 1)
UNKNOWN == 0
Ids == {s.signature_id : s \in Signatures}
         \cup UNION {{f[i].signature_id : i \in DOMAIN f} : f \in Files}

VARIABLES
  signatures,   \* signatures_
  updated,      \* update_signature was called since they were last sorted
  guardrails,   \* guardrails_
  degraded,     \* degraded_
  counts,       \* classification_counts_
  stage,        \* thread -> where its call stands
  payload,      \* worker -> what it classifies
  result,       \* worker -> what it is going to return
  enable,       \* worker -> degradation_enabled as it read it
  answered,     \* class -> how many calls returned it
  raced,        \* set_guardrails ran between that read and the store
  halted        \* why the process is beyond what the code defines

calls == <<stage, payload, result, enable>>
vars == <<signatures, updated, guardrails, degraded, counts, calls, answered, raced,
          halted>>

Init ==
  /\ signatures = <<>> /\ updated = FALSE
  /\ guardrails \in Guardrails
  /\ degraded = FALSE
  /\ counts = [c \in Classes |-> 0]
  /\ stage = [t \in Threads |-> "idle"]
  /\ payload = [t \in Threads |-> <<>>]
  /\ result = [t \in Threads |-> UNKNOWN]
  /\ enable = [t \in Threads |-> FALSE]
  /\ answered = [c \in Classes |-> 0]
  /\ raced = FALSE
  /\ halted = "no"

Running == halted = "no"

Goto(t, s) ==
  /\ Running
  /\ stage' = [stage EXCEPT ![t] = s]

\* The process stops being the program that was written.
Halt(why) ==
  /\ Running
  /\ halted' = why
  /\ UNCHANGED <<signatures, updated, guardrails, degraded, counts, calls, answered,
                 raced>>

Least(a, b) == IF a < b THEN a ELSE b

-----------------------------------------------------------------------------
(* match_signatures *)

\* Mutant of Found: the last position is not tried.
FoundShort(sig, p) ==
  LET searched == Least(sig.depth, Len(p) - sig.offset)
      n == Len(sig.pattern)
  IN  /\ sig.offset < Len(p) /\ searched >= n
      /\ \E i \in sig.offset..(sig.offset + searched - n - 1) :
           SubSeq(p, i + 1, i + n) = sig.pattern

\* The pattern is compared at every position from the offset on that leaves
\* room for it in the part that is searched.
Found(sig, p) ==
  LET searched == Least(sig.depth, Len(p) - sig.offset)
      n == Len(sig.pattern)
  IN  /\ sig.offset < Len(p) /\ searched >= n
      /\ \E i \in sig.offset..(sig.offset + searched - n) :
           SubSeq(p, i + 1, i + n) = sig.pattern

\* The first signature in the vector that is found decides.
Match(p) ==
  LET found == {i \in DOMAIN signatures : Found(signatures[i], p)}
  IN  IF found = {} THEN UNKNOWN
      ELSE signatures[CHOOSE i \in found : \A j \in found : i <= j].classification

-----------------------------------------------------------------------------
(* classify *)

\* What rand() % sample_rate may be, other than zero.
MaySkip == degraded /\ guardrails.sample_rate > 1
MustDivide == degraded /\ guardrails.sample_rate = 0

ClassifyBegin(w) ==
  /\ stage[w] = "idle"
  /\ \E p \in Payloads :
       IF p # <<>> /\ MustDivide THEN Halt("remainder by zero")
       ELSE /\ payload' = [payload EXCEPT ![w] = p]
            /\ \/ (p = <<>> \/ MaySkip) /\ Goto(w, "answer")
               \/ p # <<>> /\ Goto(w, "match")
            /\ UNCHANGED <<signatures, updated, guardrails, degraded, counts, result, enable,
                           answered, raced, halted>>

ClassifyMatch(w) ==
  /\ stage[w] = "match"
  /\ result' = [result EXCEPT ![w] = Match(payload[w])]
  /\ Goto(w, "time")
  /\ UNCHANGED <<signatures, updated, guardrails, degraded, counts, payload, enable,
                 answered, raced, halted>>

\* Mutant of ClassifyTime: what is unknown is counted, too.
ClassifyTimeCountsAll(w) ==
  /\ stage[w] = "time"
  /\ \E elapsed \in Times :
       Goto(w, IF elapsed > guardrails.timeout_us THEN "late" ELSE "count")
  /\ UNCHANGED <<signatures, updated, guardrails, degraded, counts, payload, result,
                 enable, answered, raced, halted>>

\* The time the match took is compared with the present timeout.
ClassifyTime(w) ==
  /\ stage[w] = "time"
  /\ \E elapsed \in Times :
       Goto(w, IF elapsed > guardrails.timeout_us THEN "late"
               ELSE IF result[w] # UNKNOWN THEN "count" ELSE "answer")
  /\ UNCHANGED <<signatures, updated, guardrails, degraded, counts, payload, result,
                 enable, answered, raced, halted>>

\* degradation_enabled is read here,
ClassifyLate(w) ==
  /\ stage[w] = "late"
  /\ enable' = [enable EXCEPT ![w] = guardrails.degradation_enabled]
  /\ Goto(w, "degrade")
  /\ UNCHANGED <<signatures, updated, guardrails, degraded, counts, payload, result,
                 answered, raced, halted>>

\* and stored in degraded_ here.
ClassifyDegrade(w) ==
  /\ stage[w] = "degrade"
  /\ degraded' = enable[w]
  /\ result' = [result EXCEPT ![w] = UNKNOWN]
  /\ Goto(w, "answer")
  /\ UNCHANGED <<signatures, updated, guardrails, counts, payload, enable, answered,
                 raced, halted>>

ClassifyCount(w) ==
  /\ stage[w] = "count"
  /\ IF result[w] \notin Classes THEN Halt("counted out of bounds")
     ELSE /\ counts' = [counts EXCEPT ![result[w]] = @ + 1]
          /\ Goto(w, "answer")
          /\ UNCHANGED <<signatures, updated, guardrails, degraded, payload, result,
                         enable, answered, raced, halted>>

Answers == FoldFunction(LAMBDA n, m : n + m, 0, answered)

ClassifyReturn(w) ==
  /\ stage[w] = "answer" /\ Answers < MaxAnswers
  /\ answered' = [answered EXCEPT ![result[w]] = @ + 1]
  /\ Goto(w, "idle")
  /\ payload' = [payload EXCEPT ![w] = <<>>]
  /\ result' = [result EXCEPT ![w] = UNKNOWN]
  /\ enable' = [enable EXCEPT ![w] = FALSE]
  /\ UNCHANGED <<signatures, updated, guardrails, degraded, counts, raced, halted>>

-----------------------------------------------------------------------------
(* The signatures *)

Iterated == \E w \in Workers : stage[w] = "match"

\* The vector is replaced, which nobody survives who iterates over it.
Replace(c, new, unsorted) ==
  /\ Running
  /\ stage[c] = "idle"
  /\ Len(new) <= MaxSignatures
  /\ IF Iterated THEN Halt("vector changed while iterated")
     ELSE /\ signatures' = new /\ updated' = unsorted
          /\ UNCHANGED <<guardrails, degraded, counts, calls, answered, raced,
                         halted>>

\* Reading a uint8_t from a stream takes one character: of a class below ten
\* its digit's code.
DigitCode(digit) == 48 + digit

Parsed(line) ==
  [signature_id |-> line.signature_id,
   classification |-> DigitCode(line.classification),
   pattern |-> line.pattern, offset |-> line.offset, depth |-> line.depth,
   priority |-> 0]

\* Of any other class it takes the first digit; the second becomes the pattern,
\* the pattern the offset, and the offset the depth.
Shifted(line) ==
  [signature_id |-> line.signature_id,
   classification |-> DigitCode(line.classification \div 10),
   pattern |-> <<DigitCode(line.classification % 10)>>,
   offset |-> line.number, depth |-> line.offset, priority |-> 0]

Parse(line) == IF line.classification < 10 THEN Parsed(line) ELSE Shifted(line)

\* The lines that parse; their order is that of equals in what is sorted next.
ParsedFile(file) ==
  LET good == SetToSeq({i \in DOMAIN file :
                          file[i].classification < 10 \/ file[i].number # NoNumber})
  IN  [i \in DOMAIN good |-> Parse(file[good[i]])]

Sorted(list) ==
  \A i, j \in DOMAIN list : i < j => list[i].priority >= list[j].priority

\* std::sort may leave equals in any order.
Sortings(list) ==
  {s \in {[i \in DOMAIN list |-> list[p[i]]] :
            p \in {q \in [DOMAIN list -> DOMAIN list] : IsInjective(q)}} : Sorted(s)}

LoadSignatures(c) ==
  \E file \in Files :
    LET list == signatures \o ParsedFile(file)
    IN  /\ Len(list) <= MaxSignatures
        /\ \E new \in Sortings(list) : Replace(c, new, FALSE)

Positions(id) == {i \in DOMAIN signatures : signatures[i].signature_id = id}
First(positions) == CHOOSE i \in positions : \A j \in positions : i <= j

\* Mutant of UpdateSignature: only the pattern is replaced.
UpdateSignaturePattern(c) ==
  \E sig \in Signatures :
    LET at == Positions(sig.signature_id)
    IN  Replace(c, IF at = {} THEN Append(signatures, sig)
                   ELSE [signatures EXCEPT ![First(at)].pattern = sig.pattern],
               TRUE)

\* In the place of the first signature with that id, or at the end.
UpdateSignature(c) ==
  \E sig \in Signatures :
    LET at == Positions(sig.signature_id)
    IN  Replace(c, IF at = {} THEN Append(signatures, sig)
                   ELSE [signatures EXCEPT ![First(at)] = sig], TRUE)

RemoveSignature(c) ==
  \E id \in Ids :
    /\ Positions(id) # {}
    /\ Replace(c, RemoveAt(signatures, First(Positions(id))), updated)

-----------------------------------------------------------------------------
(* set_guardrails *)

\* Mutant of GuardrailsReset: degraded mode goes on.
GuardrailsResetKeeps(c) ==
  /\ stage[c] = "reset"
  /\ Goto(c, "idle")
  /\ UNCHANGED <<signatures, updated, guardrails, degraded, counts, payload, result,
                 enable, answered, raced, halted>>

GuardrailsAssign(c) ==
  /\ stage[c] = "idle"
  /\ \E g \in Guardrails : guardrails' = g
  /\ raced' = \E w \in Workers : stage[w] = "degrade"
  /\ Goto(c, "reset")
  /\ UNCHANGED <<signatures, updated, degraded, counts, payload, result, enable,
                 answered, halted>>

GuardrailsReset(c) ==
  /\ stage[c] = "reset"
  /\ degraded' = FALSE
  /\ Goto(c, "idle")
  /\ UNCHANGED <<signatures, updated, guardrails, counts, payload, result, enable,
                 answered, raced, halted>>

-----------------------------------------------------------------------------

Classify(w) ==
  ClassifyBegin(w) \/ ClassifyMatch(w) \/ ClassifyTime(w) \/ ClassifyLate(w)
    \/ ClassifyDegrade(w) \/ ClassifyCount(w) \/ ClassifyReturn(w)

Control(c) ==
  LoadSignatures(c) \/ UpdateSignature(c) \/ RemoveSignature(c)
    \/ GuardrailsAssign(c) \/ GuardrailsReset(c)

Next ==
  \/ \E w \in Workers : Classify(w)
  \/ \E c \in Controllers : Control(c)

Spec == Init /\ [][Next]_vars

-----------------------------------------------------------------------------
(* Properties *)

TypeOK ==
  /\ \A i \in DOMAIN signatures :
       signatures[i] \in Signatures
         \/ \E f \in Files : \E j \in DOMAIN f : signatures[i] = Parse(f[j])
  /\ guardrails \in Guardrails
  /\ degraded \in BOOLEAN /\ raced \in BOOLEAN /\ updated \in BOOLEAN
  /\ counts \in [Classes -> Nat] /\ answered \in [Classes -> Nat]
  /\ stage \in [Threads -> {"idle", "match", "time", "late", "degrade", "count",
                             "answer", "reset"}]
  /\ payload \in [Threads -> Payloads \cup {<<>>}]
  /\ result \in [Threads -> Nat]
  /\ enable \in [Threads -> BOOLEAN]

\* The part of a payload a signature is about.
Window(sig, p) == SubSeq(p, sig.offset + 1, Least(sig.offset + sig.depth, Len(p)))

Occurs(sig, p) ==
  sig.offset < Len(p)
    /\ \E s \in Suffixes(Window(sig, p)) : IsPrefix(sig.pattern, s)

Occurring(p) == {i \in DOMAIN signatures : Occurs(signatures[i], p)}

\* c is the class of one of these signatures that has the highest priority.
OfHighest(c, found) ==
  \E i \in found :
    /\ signatures[i].classification = c
    /\ \A j \in found : signatures[j].priority <= signatures[i].priority

\* A payload is unknown only if no signature's pattern occurs between its
\* offset and its depth; otherwise its class is that of one that does and, as
\* long as none was updated since the signatures were loaded, whatever has
\* been removed, of one of the highest priority.
MatchesWithinWindow ==
  \A p \in Payloads :
    LET c == Match(p)
        found == Occurring(p)
    IN  IF found = {} THEN c = UNKNOWN
        ELSE /\ \E i \in found : signatures[i].classification = c
             /\ ~updated => OfHighest(c, found)

\* "Higher = checked first": also after an update, a payload's class is that
\* of an occurring signature of the highest priority.
HighestFirst ==
  \A p \in Payloads :
    Occurring(p) # {} => OfHighest(Match(p), Occurring(p))

\* A class has been counted as often as it was the answer, and never for a
\* packet that was skipped, late or unknown.
CountsAreAnswers ==
  /\ counts[UNKNOWN] = 0
  /\ \A c \in Classes \ {UNKNOWN} :
       counts[c] = answered[c]
         + Cardinality({w \in Workers : stage[w] = "answer" /\ result[w] = c})

\* Packets are skipped only under guardrails that allow degraded mode, unless
\* they were set while a late classification was about to store its verdict.
DegradedOnlyIfEnabled ==
  degraded /\ (\A c \in Controllers : stage[c] # "reset") /\ ~raced
    => guardrails.degradation_enabled

\* "Format: signature_id class_value pattern offset depth": a signature that
\* came from a file has one of the file's class values.
LoadedAsWritten ==
  \A i \in DOMAIN signatures :
    \/ signatures[i] \in Signatures
    \/ \E f \in Files : \E j \in DOMAIN f :
         /\ f[j].signature_id = signatures[i].signature_id
         /\ f[j].classification = signatures[i].classification
=============================================================================
