----------------------------- MODULE PlcMessage -----------------------------
(***************************************************************************)
(* The label a PLC message carries, from the intake to the submission: two *)
(* parts of the program read it, parse_plc_message of                      *)
(* app/message_parser.py before the message is stored, and                 *)
(* payload_from_record of app/queue_worker.py each time the row is claimed.*)
(* A value is a sequence of the few things the two tell apart.             *)
(***************************************************************************)
EXTENDS Integers, Sequences, SequencesExt

CONSTANT MaxTokens  \* bound: tokens in a value

ASSUME MaxTokensAssumption == MaxTokens \in Nat

\* tab: any other blank but the newline, which the pattern's dot does not match.
\* table: T01, T02 or T03. model: text without blanks that ends in P and three
\* digits. serial: digits. text: anything else.
BlankTokens == {"space", "tab", "newline"}
Tokens == BlankTokens \cup {"table", "model", "serial", "text"}

\* valid: a JSON object of one field MN or MP whose value is a string. undecodable:
\* not UTF-8. malformed: no JSON object of one field. unsupported: another
\* field, or no string.
Envelopes == {"valid", "undecodable", "malformed", "unsupported"}

VARIABLES
    envelope,
    value,
    stage,   \* "arriving", "rejected", "stored", "submitted" or "refused"
    parsed   \* the fields parse_plc_message returned, or Rejected

vars == <<envelope, value, stage, parsed>>

Rejected == [model |-> <<>>, serial |-> <<>>]

IsBlank(t) == t \in BlankTokens
NotBlank(t) == ~IsBlank(t)

\* str.strip.
Strip(v) == LET last == SelectLastInSeq(v, NotBlank)
            IN  IF last = 0 THEN <<>> ELSE SubSeq(v, SelectInSeq(v, NotBlank), last)

\* The value without the token of its table.
Body(v) == Front(v)

\* _split_spaced_payload: what precedes and follows the last space, less the blanks
\* around it.
SplitSpaced(b) ==
    LET cut == SelectLastInSeq(b, LAMBDA t : t = "space")
    IN  [model |-> Strip(SubSeq(b, 1, cut - 1)),
         serial |-> Strip(SubSeq(b, cut + 1, Len(b)))]

\* Mutated form of SplitCompact: the serial begins at the first model's end.
SplitCompactAtFirst(b) ==
    LET cut == SelectInSeq(b, LAMBDA t : t = "model")
    IN  IF cut = 0 \/ "newline" \in ToSet(b) THEN Rejected
        ELSE [model |-> SubSeq(b, 1, cut), serial |-> SubSeq(b, cut + 1, Len(b))]

\* _split_compact_payload: the pattern is greedy, so the model goes as far as the
\* digits after it allow, and matches no newline.
SplitCompact(b) ==
    LET cut == SelectLastInSeq(b, LAMBDA t : t = "model")
    IN  IF cut = 0 \/ "newline" \in ToSet(b) THEN Rejected
        ELSE [model |-> SubSeq(b, 1, cut), serial |-> SubSeq(b, cut + 1, Len(b))]

Digits(s) == s # <<>> /\ ToSet(s) = {"serial"}

\* A value with a space in it is spaced.
Fields(b) == IF "space" \in ToSet(b) THEN SplitSpaced(b) ELSE SplitCompact(b)

\* _split_message_value: the fields, or Rejected.
SplitValue(v) ==
    LET w == Strip(v)
        f == Fields(Body(w))
    IN  IF w = <<>> THEN Rejected
        ELSE IF Last(w) # "table" \/ f.model = <<>> \/ ~Digits(f.serial) THEN Rejected
        ELSE f

\* Mutated form of Parses: no field is looked at.
ParsesTable == envelope = "valid" /\ Strip(value) # <<>> /\ Last(Strip(value)) = "table"

Parses == envelope = "valid" /\ SplitValue(value) # Rejected

\* Mutated form of Submittable: the worker asks for a compact value.
SubmittableCompact == envelope = "valid" /\ "space" \notin ToSet(value)

\* payload_from_record: the suffix is looked for in the value as it was stored.
Submittable == envelope = "valid" /\ value # <<>> /\ Last(value) = "table"

\* Types; the fields are known once the message is stored, and not before.
TypeOK ==
    /\ envelope \in Envelopes
    /\ value \in Seq(Tokens) /\ Len(value) <= MaxTokens
    /\ stage \in {"arriving", "rejected", "stored", "submitted", "refused"}
    /\ parsed \in [model : Seq(Tokens), serial : Seq(Tokens)]
    /\ parsed = Rejected <=> stage \in {"arriving", "rejected"}

Init ==
    /\ \/ envelope = "valid" /\ value \in BoundedSeq(Tokens, MaxTokens)
       \/ envelope \in Envelopes \ {"valid"} /\ value = <<>>
    /\ stage = "arriving" /\ parsed = Rejected

\* _on_message stores the message with its fields, or logs its rejection.
Receive ==
    /\ stage = "arriving"
    /\ \/ Parses /\ stage' = "stored" /\ parsed' = SplitValue(value)
       \/ ~Parses /\ stage' = "rejected" /\ UNCHANGED parsed
    /\ UNCHANGED <<envelope, value>>

\* _process_record submits the stored value, or fails the row.
Process ==
    /\ stage = "stored"
    /\ stage' = IF Submittable THEN "submitted" ELSE "refused"
    /\ UNCHANGED <<envelope, value, parsed>>

Next == Receive \/ Process

Spec == Init /\ [][Next]_vars

-----------------------------------------------------------------------------
(***************************************************************************)
(* Properties.                                                             *)
(***************************************************************************)

\* What a label is: a model up to i, blanks up to j with a space among them, a serial
\* up to k, blanks that are no spaces, and a table. A model of one line that ends
\* in its P number, without a space, stands without any blanks before the table.
IsLabelAt(v, i, j, k) ==
    /\ 0 < i /\ i <= j /\ j < k /\ k < Len(v)
    /\ NotBlank(v[1]) /\ NotBlank(v[i])
    /\ \A l \in i + 1 .. j : IsBlank(v[l])
    /\ \A l \in j + 1 .. k : v[l] = "serial"
    /\ \A l \in k + 1 .. Len(v) - 1 : v[l] \in {"tab", "newline"}
    /\ Last(v) = "table"
    /\ \/ \E l \in i + 1 .. j : v[l] = "space"
       \/ /\ i = j /\ v[i] = "model" /\ k = Len(v) - 1
          /\ \A l \in 1 .. i : v[l] \notin {"space", "newline"}

IsLabel(v) == \E i, j, k \in 0 .. Len(v) : IsLabelAt(v, i, j, k)

\* The intake stores a message if and only if it carries a label, blanks around it
\* aside, and the fields it stores are the label's model and serial: nothing is
\* cut off or moved from one field to the other.
StoredIsLabel ==
    LET w == Strip(value)
    IN  /\ stage = "rejected" => envelope # "valid" \/ ~IsLabel(w)
        /\ stage \in {"stored", "submitted", "refused"} =>
               \E i, j, k \in 0 .. Len(w) :
                   /\ IsLabelAt(w, i, j, k)
                   /\ parsed = [model |-> SubSeq(w, 1, i), serial |-> SubSeq(w, j + 1, k)]

\* The worker refuses no stored value that ends with its table.
TrimmedIsSubmitted == stage = "refused" => IsBlank(Last(value))
=============================================================================
