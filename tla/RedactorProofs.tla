--------------------------- MODULE RedactorProofs ---------------------------
(* Theorems about Redactor, for every set of secrets, text and chunking. *)
EXTENDS Redactor, TLAPS

\* A position that was passed on can no longer become the beginning of a
\* secret: what was pushed already differs, or nothing more will be pushed.
Settled ==
  \A s \in Secrets, p \in raw :
    \/ ~ Agrees(s, p, pushed)
    \/ mode \in {"finish", "closed"} /\ p + Len(s) - 1 > pushed

\* Whether secret s, that begins at h, was replaced: none of it was passed on.
Replaced(s, h) ==
  Occurs(s, h, pushed) /\ (h..h + Len(s) - 1) \cap raw = {}

\* The heads of the turns so far: each turn passed its head on or replaced a
\* secret there, and the next one began behind it.
ReadFrom(heads) ==
  /\ 1 \in heads
  /\ \A h \in heads \ {First} :
       \/ h \in raw /\ (h + 1) \in heads
       \/ \E s \in Secrets : Replaced(s, h) /\ (h + Len(s)) \in heads

Read == \E heads \in SUBSET (1..First) : ReadFrom(heads)

\* Nothing is left when the command has ended.
Ended == mode = "closed" => consumed = pushed

Sound == TypeOK /\ Settled /\ Ended

IInv == Sound /\ Read

\* Nothing was read yet.
LEMMA EmptyRead == consumed = 0 => Read
<1> SUFFICES ASSUME consumed = 0 PROVE ReadFrom({1}) /\ {1} \in SUBSET (1..First)
  BY DEF Read
<1> QED
  BY DEF ReadFrom, First

\* The empty redactor satisfies the invariant.
LEMMA InitInv == Init => IInv
<1>1. Init => Sound
  BY DEF Init, Sound, TypeOK, Settled, Ended, Modes
<1> QED
  BY <1>1, EmptyRead DEF Init, IInv

\* Text that is pushed later never restores an agreement that failed.
LEMMA DisagreementStays ==
  ASSUME NEW s, NEW p \in Nat, NEW e \in Nat, NEW f \in Nat, e <= f, ~ Agrees(s, p, e)
  PROVE  ~ Agrees(s, p, f)
  BY DEF Agrees

\* Each turn of the loop, and each call, keeps the types, what is settled and the end.
LEMMA NextSound == Sound /\ [Next]_vars => Sound'
<1> USE OutputAssumption
<1> SUFFICES ASSUME Sound, [Next]_vars PROVE Sound'
  OBVIOUS
<1> USE DEF Sound
<1>0. /\ pushed \in Nat /\ consumed \in Nat /\ consumed <= pushed /\ pushed <= Len(text)
      /\ Len(text) \in Nat /\ raw \subseteq Nat
  BY DEF TypeOK
<1>s. \A s \in Secrets : s \in Seq(Byte) /\ Len(s) \in Nat /\ Len(s) > 0
  OBVIOUS
<1>1. ASSUME NEW t \in Texts, Open(t) PROVE Sound'
  BY <1>1 DEF Open, TypeOK, Settled, Ended, Modes
<1>2. ASSUME NEW n \in 1..Len(text), Push(n) PROVE Sound'
  <2>1. TypeOK'
    BY <1>0, <1>2 DEF Push, TypeOK, Modes
  <2>2. ASSUME NEW s \in Secrets, NEW p \in raw' PROVE ~ Agrees(s, p, pushed)'
    <3>1. ~ Agrees(s, p, pushed)
      BY <1>2, <2>2 DEF Push, Settled
    <3>2. \A e : Agrees(s, p, e)' <=> Agrees(s, p, e)
      BY <1>2 DEF Push, Agrees
    <3>3. pushed' = pushed + n /\ p \in Nat
      BY <1>0, <1>2, <2>2 DEF Push
    <3> QED
      BY <1>0, <1>2, <3>1, <3>3, DisagreementStays DEF Push, Agrees
  <2>3. Ended'
    BY <1>2 DEF Push, Ended
  <2> QED
    BY <2>1, <2>2, <2>3 DEF Settled
<1>3. CASE Replace
  <2>1. PICK s \in Matching : consumed' = consumed + Len(s)
    BY <1>3 DEF Replace
  <2>2. consumed' \in Nat /\ consumed < consumed' /\ consumed' <= pushed
    BY <1>0, <1>s, <2>1 DEF Matching, Occurs, First
  <2> QED
    BY <1>0, <1>3, <2>2 DEF Replace, TypeOK, Settled, Ended, Modes, Agrees
<1>4. CASE PassOn
  <2>1. TypeOK' /\ Ended'
    BY <1>0, <1>4 DEF PassOn, Working, First, TypeOK, Ended
  <2>2. ASSUME NEW s \in Secrets
        PROVE  \/ ~ Agrees(s, First, pushed)
               \/ mode \in {"finish", "closed"} /\ First + Len(s) - 1 > pushed
    BY <1>0, <1>s, <1>4, <2>2 DEF PassOn, Working, Matching, HeldBack, Occurs, First
  <2> QED
    BY <1>4, <2>1, <2>2 DEF PassOn, Settled, Agrees, First
<1>5. CASE Finish
  BY <1>5 DEF Finish, TypeOK, Settled, Ended, Modes, Agrees
<1>6. CASE Return
  BY <1>6 DEF Return, TypeOK, Settled, Ended, Modes, Agrees
<1>7. CASE UNCHANGED vars
  BY <1>7 DEF vars, TypeOK, Settled, Ended, Modes, Agrees
<1> QED
  BY <1>1, <1>2, <1>3, <1>4, <1>5, <1>6, <1>7 DEF Next

\* A secret that was replaced is one whatever is pushed later.
LEMMA ReplacedStays ==
  ASSUME Sound, NEW s \in Secrets, NEW h \in Nat, Replaced(s, h),
         text' = text, pushed' \in Nat, pushed' >= pushed,
         \A p \in raw' : p \in raw \/ p >= h + Len(s)
  PROVE  Replaced(s, h)'
<1>1. s \in Seq(Byte) /\ Len(s) \in Nat /\ pushed \in Nat
  BY OutputAssumption DEF Sound, TypeOK
<1>2. Occurs(s, h, pushed)'
  BY <1>1 DEF Replaced, Occurs, Agrees
<1>3. (h..h + Len(s) - 1) \cap raw' = {}
  BY <1>1 DEF Replaced
<1> QED
  BY <1>2, <1>3 DEF Replaced

\* What is read grows by the head of the turn.
LEMMA ReadGrows ==
  ASSUME Sound, Read, text' = text, pushed' = pushed, consumed' \in Nat,
         \/ raw' = raw \cup {First} /\ consumed' = consumed + 1
         \/ \E s \in Secrets : Occurs(s, First, pushed) /\ raw' = raw /\ consumed' = consumed + Len(s)
  PROVE  Read'
<1> USE OutputAssumption
<1>0. /\ First = consumed + 1 /\ First' = consumed' + 1
      /\ pushed \in Nat /\ consumed \in Nat /\ raw \subseteq 1..consumed
      /\ \A s \in Secrets : s \in Seq(Byte) /\ Len(s) \in Nat /\ Len(s) > 0
  BY DEF Sound, TypeOK, First
<1>f. PICK f \in Nat : f = First
  BY <1>0
<1>c. PICK c \in Nat : c = consumed'
  OBVIOUS
<1>g. PICK g \in Nat : g = c + 1
  OBVIOUS
<1>6. First' = g
  BY <1>0, <1>c, <1>g
<1>1. PICK heads \in SUBSET (1..First) : ReadFrom(heads)
  BY DEF Read
<1> DEFINE longer == heads \cup {f, g}
<1>2. consumed < c /\ longer \in SUBSET (1..g) /\ 1 \in longer
  <2>1. consumed < c
    BY <1>0, <1>c
  <2>2. 1 \in heads /\ heads \subseteq 1..f
    BY <1>1, <1>f DEF ReadFrom
  <2>3. f < g /\ 1 <= f
    BY <1>0, <1>f, <1>g, <2>1
  <2>4. 1..f \subseteq 1..g /\ f \in 1..g /\ g \in 1..g
    BY <2>3
  <2> QED
    BY <2>1, <2>2, <2>4
<1>3. ASSUME NEW h \in longer \ {f, g}
      PROVE  \/ h \in raw' /\ (h + 1) \in longer
             \/ \E s \in Secrets : Replaced(s, h)' /\ (h + Len(s)) \in longer
  <2>1. h \in heads \ {f} /\ h \in 1..f /\ h \in Nat
    <3>1. h \in heads \ {f}
      BY <1>3
    <3> QED
      BY <1>0, <1>f, <1>g, <1>1, <3>1
  <2>2. CASE h \in raw /\ (h + 1) \in heads
    BY <2>2
  <2>3. ASSUME NEW s \in Secrets, Replaced(s, h), (h + Len(s)) \in heads
        PROVE  Replaced(s, h)'
    <3>1. h + Len(s) <= f
      BY <1>0, <1>f, <1>g, <1>1, <2>3
    <3> QED
      BY <1>0, <1>f, <1>g, <2>1, <2>3, <3>1, ReplacedStays
  <2> QED
    BY <1>1, <1>f, <2>1, <2>2, <2>3 DEF ReadFrom
<1>4. \/ f \in raw' /\ (f + 1) \in longer
      \/ \E s \in Secrets : Replaced(s, f)' /\ (f + Len(s)) \in longer
  <2>1. CASE raw' = raw \cup {f} /\ consumed' = consumed + 1
    BY <1>0, <1>f, <1>c, <1>g, <2>1
  <2>2. ASSUME NEW s \in Secrets, Occurs(s, f, pushed), raw' = raw,
               consumed' = consumed + Len(s)
        PROVE  Replaced(s, f)' /\ (f + Len(s)) \in longer
    <3>1. Replaced(s, f)
      BY <1>0, <1>f, <1>g, <2>2 DEF Replaced
    <3>2. f \in Nat /\ Replaced(s, f)'
      BY <1>0, <1>f, <1>g, <2>2, <3>1, ReplacedStays DEF Replaced, Occurs, Agrees
    <3> QED
      BY <1>0, <1>f, <1>c, <1>g, <2>2, <3>2
  <2> QED
    BY <1>f, <2>1, <2>2
<1> HIDE DEF longer
<1>5. \A h \in longer \ {g} :
        \/ h \in raw' /\ (h + 1) \in longer
        \/ \E s \in Secrets : Replaced(s, h)' /\ (h + Len(s)) \in longer
  BY <1>3, <1>4 DEF longer
<1> QED
  BY <1>2, <1>5, <1>6 DEF Read, ReadFrom

\* Each turn of the loop, and each call, preserves the invariant.
LEMMA NextInv == IInv /\ [Next]_vars => IInv'
<1> USE OutputAssumption
<1> SUFFICES ASSUME IInv, [Next]_vars PROVE Read'
  BY NextSound DEF IInv
<1>0. /\ Sound /\ Read /\ Sound' /\ pushed \in Nat /\ consumed \in Nat /\ raw \subseteq 1..consumed
      /\ \A s \in Secrets : s \in Seq(Byte) /\ Len(s) \in Nat
  BY NextSound DEF IInv, Sound, TypeOK
<1>1. ASSUME NEW t \in Texts, Open(t) PROVE Read'
  <2>1. First' = 1
    BY <1>1 DEF Open, First
  <2>2. ReadFrom({1})'
    BY <2>1 DEF ReadFrom
  <2>3. {1} \in SUBSET (1..First')
    BY <2>1
  <2> QED
    BY <2>2, <2>3 DEF Read
<1>2. ASSUME UNCHANGED <<text, consumed, raw>>, pushed' >= pushed PROVE Read'
  <2>1. PICK heads \in SUBSET (1..First) : ReadFrom(heads)
    BY <1>0 DEF Read
  <2>2. pushed' \in Nat
    BY <1>0 DEF Sound, TypeOK
  <2>3. ASSUME NEW s \in Secrets, NEW h \in heads, Replaced(s, h) PROVE Replaced(s, h)'
    BY <1>0, <1>2, <2>1, <2>2, <2>3, ReplacedStays DEF First
  <2>4. ReadFrom(heads)'
    BY <1>2, <2>1, <2>3 DEF ReadFrom, First
  <2> QED
    BY <1>2, <2>4 DEF Read, First
<1>3. CASE Replace
  BY <1>0, <1>3, ReadGrows DEF Replace, Matching, Sound, TypeOK
<1>4. CASE PassOn
  BY <1>0, <1>4, ReadGrows DEF PassOn
<1>5. ASSUME NEW n \in 1..Len(text), Push(n) PROVE Read'
  BY <1>0, <1>2, <1>5 DEF Push
<1>6. CASE Finish \/ Return \/ UNCHANGED vars
  BY <1>0, <1>2, <1>6 DEF Finish, Return, vars
<1> QED
  BY <1>1, <1>3, <1>4, <1>5, <1>6 DEF Next

\* No behaviour of the redactor leaves the invariant.
THEOREM Invariance == Spec => []IInv
  BY InitInv, NextInv, PTL DEF Spec

\* Every reachable state of the redactor has its types: in particular it never
\* consumes more than was pushed.
THEOREM TypeCorrect == Spec => []TypeOK
  BY Invariance, PTL DEF IInv, Sound

\* A secret that would be passed on whole would have been recognised before.
LEMMA NonePassedOn == IInv => NoSecretPassedOn
<1> USE OutputAssumption
<1> SUFFICES ASSUME IInv, NEW s \in Secrets, NEW p \in raw, Occurs(s, p, pushed) PROVE FALSE
  BY DEF NoSecretPassedOn
<1>1. pushed \in Nat /\ p \in Nat /\ Len(s) \in Nat
  BY DEF IInv, Sound, TypeOK
<1> QED
  BY <1>1 DEF IInv, Sound, Settled, Occurs

\* No secret is passed on, for any secrets, text, chunks and end of the
\* command.
THEOREM SecretsStay == Spec => []NoSecretPassedOn
  BY NonePassedOn, Invariance, PTL

\* Of a command that has ended, what is passed on is what reading its output from
\* left to right leaves, whatever the chunks were.
LEMMA ReadIsRedaction == IInv /\ mode = "closed" => Redaction(raw)
<1> USE OutputAssumption
<1> SUFFICES ASSUME IInv, mode = "closed" PROVE Redaction(raw)
  OBVIOUS
<1>1. /\ consumed = pushed /\ pushed \in Nat /\ raw \subseteq 1..pushed
      /\ First = pushed + 1
  BY DEF IInv, Sound, Ended, TypeOK, First
<1>2. PICK heads \in SUBSET (1..First) : ReadFrom(heads)
  BY DEF IInv, Read
<1>3. ASSUME NEW h \in heads \ {pushed + 1}
      PROVE  \/ /\ h \in raw /\ (h + 1) \in heads
                /\ \A s \in Secrets : ~ Occurs(s, h, pushed)
             \/ \E s \in Secrets :
                  /\ Occurs(s, h, pushed) /\ (h + Len(s)) \in heads
                  /\ (h..h + Len(s) - 1) \cap raw = {}
  <2>1. ASSUME h \in raw, NEW s \in Secrets PROVE ~ Occurs(s, h, pushed)
    BY <1>1, <2>1 DEF IInv, Sound, Settled, Occurs
  <2> QED
    BY <1>1, <1>2, <2>1 DEF ReadFrom, Replaced
<1> QED
  BY <1>1, <1>2, <1>3 DEF Redaction, ReadFrom

\* Nothing but secrets is replaced, and all of the rest is passed on.
THEOREM OutputRedacted == Spec => []OnlySecretsReplaced
<1>1. IInv => OnlySecretsReplaced
  BY ReadIsRedaction DEF OnlySecretsReplaced
<1> QED
  BY <1>1, Invariance, PTL
=============================================================================
