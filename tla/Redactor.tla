------------------------------ MODULE Redactor ------------------------------
(***************************************************************************)
(* The redactor of a command's output (runner-go/internal/runner/          *)
(* redactor.go): bytes are pushed in chunks that cut the text anywhere; a  *)
(* secret at the head of what is pending is replaced, the head is held     *)
(* back while it may still become a secret, and passed on otherwise.       *)
(*                                                                         *)
(* "text" is all the command would ever write.  Output is described by     *)
(* where it comes from: the positions of the text that were passed on as   *)
(* they are.  Each turn of the loop in consume is a step.                  *)
(***************************************************************************)
EXTENDS CommandOutput

VARIABLES
  text,      \* what the command writes
  pushed,    \* number of bytes pushed
  consumed,  \* number of bytes that left "pending"
  raw,       \* positions passed on as they are
  mode       \* "idle", "open" between two calls, "push" or "finish" inside, "closed"

vars == <<text, pushed, consumed, raw, mode>>

Modes == {"idle", "open", "push", "finish", "closed"}

TypeOK ==
  /\ text \in Seq(Byte)
  /\ pushed \in 0..Len(text)
  /\ consumed \in 0..pushed
  /\ raw \subseteq 1..consumed
  /\ mode \in Modes

Init ==
  /\ text = << >> /\ pushed = 0 /\ consumed = 0 /\ raw = {} /\ mode = "idle"

\* newRedactor, for a command that will write t.
Open(t) ==
  /\ text' = t /\ pushed' = 0 /\ consumed' = 0 /\ raw' = {} /\ mode' = "open"

---------------------------------------------------------------------------
(* consume *)

\* Whether secret s agrees with the text from position p on, as far as "end".
Agrees(s, p, end) ==
  \A k \in 1..Len(s) : p + k - 1 <= end => text[p + k - 1] = s[k]

Occurs(s, p, end) == p + Len(s) - 1 <= end /\ Agrees(s, p, end)

First == consumed + 1
Matching == {s \in Secrets : Occurs(s, First, pushed)}

\* Mutant: nothing is held back for the next chunk.
HeldBack_Never == FALSE

\* incompleteSecretPrefix
HeldBack == \E s \in Secrets : pushed - consumed < Len(s) /\ Agrees(s, First, pushed)

Working == mode \in {"push", "finish"} /\ consumed < pushed

\* The longest secret at the head is replaced; secrets are sorted by length.
Replace ==
  /\ Working
  /\ \E s \in Matching :
       /\ \A t \in Matching : Len(t) <= Len(s)
       /\ consumed' = consumed + Len(s)
  /\ UNCHANGED <<text, pushed, raw, mode>>

PassOn ==
  /\ Working /\ Matching = {} /\ (mode = "finish" \/ ~ HeldBack)
  /\ consumed' = consumed + 1
  /\ raw' = raw \cup {First}
  /\ UNCHANGED <<text, pushed, mode>>

Push(n) ==
  /\ mode = "open" /\ pushed + n <= Len(text)
  /\ pushed' = pushed + n
  /\ mode' = "push"
  /\ UNCHANGED <<text, consumed, raw>>

\* Mutant: Finish forgets what is pending.
Finish_DropsPending ==
  /\ mode = "open"
  /\ consumed' = pushed
  /\ mode' = "finish"
  /\ UNCHANGED <<text, pushed, raw>>

\* The command has ended, or was stopped before it wrote all.
Finish ==
  /\ mode = "open"
  /\ mode' = "finish"
  /\ UNCHANGED <<text, pushed, consumed, raw>>

\* consume returns, and its output is the caller's to deliver.
Return ==
  /\ \/ mode \in {"push", "finish"} /\ consumed = pushed
     \/ mode = "push" /\ Matching = {} /\ HeldBack
  /\ mode' = IF mode = "push" THEN "open" ELSE "closed"
  /\ UNCHANGED <<text, pushed, consumed, raw>>

Next ==
  \/ mode = "idle" /\ \E t \in Texts : Open(t)
  \/ \E n \in 1..Len(text) : Push(n)
  \/ Replace \/ PassOn \/ Finish \/ Return

Spec == Init /\ [][Next]_vars

---------------------------------------------------------------------------
(* Properties *)

\* No secret the command wrote leaves the redactor: none begins at a position
\* that was passed on, however the chunks cut it and whenever the command is
\* stopped.
NoSecretPassedOn ==
  \A s \in Secrets, p \in raw : ~ Occurs(s, p, pushed)

\* "kept" is what remains of the pushed text when it is read from left to right:
\* where a secret begins, one is dropped as a whole, and any other byte is kept.
Redaction(kept) ==
  /\ kept \subseteq 1..pushed
  /\ \E heads \in SUBSET (1..pushed + 1) :
       /\ 1 \in heads
       /\ \A h \in heads \ {pushed + 1} :
            \/ /\ h \in kept /\ (h + 1) \in heads
               /\ \A s \in Secrets : ~ Occurs(s, h, pushed)
            \/ \E s \in Secrets :
                 /\ Occurs(s, h, pushed) /\ (h + Len(s)) \in heads
                 /\ (h..h + Len(s) - 1) \cap kept = {}

\* However the output was cut into chunks, all of it is passed on but secrets.
OnlySecretsReplaced == mode = "closed" => Redaction(raw)
=============================================================================
