----------------------------- MODULE HttpHeader -----------------------------
(***************************************************************************)
(* How the proxy reads the fields of a header: two functions that give the *)
(* value of a field, and the one that reads the length of the body.  A     *)
(* text is a sequence of characters.  Each is written as what it answers   *)
(* to a header, and compared with what the header says.                    *)
(***************************************************************************)
EXTENDS SequencesExt, Integers

CONSTANTS
    None,        \* not found, not a number, or no room for it
    Wild,        \* memory beyond the text, or beyond number_buf, is touched
    DigitValue,  \* [digit -> its value]
    MaxDigits,   \* MAX_LENGTH_OF_CONTEMT_LENGTH_CHARS, ..._PARSEABLE_STRING: 9
    MaxOthers,   \* MAX_ITERATIONS: 20
    Texts,       \* the headers that are read
    Names        \* the fields that are looked for

Codes == {None, Wild}

ASSUME HeaderAssumption ==
    /\ None \notin Nat /\ Wild \notin Nat /\ None # Wild
    /\ \A t \in Texts \union Names : t \in Seq(Range(t))
    /\ DigitValue \in [DOMAIN DigitValue -> 0..9]
    /\ DOMAIN DigitValue \intersect {":", " ", "CR", "LF"} = {}
    /\ MaxDigits \in Nat \ {0} /\ MaxOthers \in Nat

Crlf == <<"CR", "LF">>

(* c_u_str_find_pattern().  The length of a text shorter than the pattern  *)
(* wraps, and the search goes on beyond it.                                *)
Occurrences(p, t) ==
    {s \in 0..(Len(t) - Len(p)) : SubSeq(t, s + 1, s + Len(p)) = p}

Find(p, t) ==
    IF Len(t) < Len(p) THEN Wild
    ELSE IF Occurrences(p, t) = {} THEN None ELSE Min(Occurrences(p, t))

After(t, n) == SubSeq(t, n + 1, Len(t))

\* Mutant of FieldStart: the colon is not counted.
FieldStartColon(header, key) ==
    LET offset == Find(Append(key, ":"), header)
    IN IF offset \in Codes THEN offset ELSE offset + Len(key)

(* _c_http_find_header_field_key(): where the value of the field begins.   *)
FieldStart(header, key) ==
    LET offset == Find(Append(key, ":"), header)
    IN IF offset \in Codes THEN offset ELSE offset + Len(key) + 1

(* c_http_get_header_field(), for a key that is not empty and a buf of     *)
(* this size, which is not 0.                                              *)
GetField(header, key, buf_size) ==
    LET start == FieldStart(header, key)
        size  == Find(Crlf, After(header, start))
    IN IF start \in Codes THEN start
       ELSE IF size \in Codes THEN size
       ELSE IF buf_size < size THEN None ELSE SubSeq(header, start + 1, start + size)

(* c_http_buf_get_header_field(): the search for the end of the value goes *)
(* as many bytes beyond the header as the key and the colon have.          *)
GetFieldView(header, key) ==
    LET start == FieldStart(header, key)
        size  == Find(Crlf, After(header, start))
    IN IF start \in Codes THEN start
       ELSE IF size \in Codes THEN Wild ELSE SubSeq(header, start + 1, start + size)

-----------------------------------------------------------------------------
(* The digits among the first characters of a text.                        *)
DigitsTo(t) ==
    LET digits[i \in 0..Len(t)] ==
            IF i = 0 THEN <<>>
            ELSE IF t[i] \in DOMAIN DigitValue THEN Append(digits[i - 1], t[i])
            ELSE digits[i - 1]
    IN digits

Digits(t) == DigitsTo(t)[Len(t)]

Value(t) ==
    LET value[i \in 0..Len(t)] == IF i = 0 THEN 0 ELSE 10 * value[i - 1] + DigitValue[t[i]]
    IN value[Len(t)]

\* Mutant of Parse: a number of MaxDigits digits is too long.
ParseShort(t) == IF Len(t) >= MaxDigits THEN None ELSE Value(t)

(* _parse_str_to_int(), of digits.                                         *)
Parse(t) == IF Len(t) > MaxDigits THEN None ELSE Value(t)

(* What the loop of _http_get_content_length_headder() looks at of this    *)
(* line: it stops with more than MaxOthers characters that are no digits   *)
(* or, too late, with more than MaxDigits that are.                        *)
Scanned(t) ==
    LET Number(i) == Len(DigitsTo(t)[i])
        stops == {i \in DOMAIN t : \/ (i - 1) - Number(i - 1) > MaxOthers
                                   \/ Number(i - 1) > MaxDigits}
    IN IF stops = {} THEN t ELSE SubSeq(t, 1, Min(stops) - 1)

(* The line from here on: the loop has no other end.                       *)
Line(t) ==
    LET ends == {i \in DOMAIN t : t[i] \in Range(Crlf)}
    IN SubSeq(t, 1, Min(ends) - 1)

(* _http_get_content_length_headder(), which begins at the colon.  The     *)
(* buffer has room for MaxDigits digits, and gets one more.                *)
ContentLength(header, key) ==
    LET start == FieldStart(header, key)
        line  == Line(After(header, start - 1))
        seen  == Scanned(line)
    IN CASE start = Wild -> Wild
         [] start = None -> 0
         [] start \notin Codes ->
              IF Len(Digits(seen)) > MaxDigits THEN Wild
              ELSE IF seen # line THEN None ELSE Parse(Digits(seen))

-----------------------------------------------------------------------------
(* What a header says: its lines, of which the last two are empty, and of  *)
(* these the first that begins with the name and a colon.                  *)
LineStarts(header) == {0} \union {s + 2 : s \in Occurrences(Crlf, header)}

Complete(header) ==
    Len(header) >= 4 /\ After(header, Len(header) - 4) = Crlf \o Crlf

FieldLines(header, key) == Occurrences(Append(key, ":"), header) \intersect LineStarts(header)

Said(header, key) ==
    LET first == Min(FieldLines(header, key)) + Len(key) + 1
        last  == Min({s \in LineStarts(header) : s > first}) - 2
    IN IF FieldLines(header, key) = {} THEN None ELSE SubSeq(header, first + 1, last)

(* The name and a colon are nowhere but at the start of a line: not in a   *)
(* value, and not at the end of a longer name.                             *)
Unambiguous(header, key) ==
    Occurrences(Append(key, ":"), header) \subseteq LineStarts(header)

Readable(header, key) ==
    Complete(header) /\ Unambiguous(header, key) /\ Len(key) < Len(header)

(* Both functions give the value that the header says, into a buf that may *)
(* be of any size up to the header's: a value is shorter than that.        *)
FieldAsSaid(header, key) ==
    /\ \A buf_size \in 1..Len(header) :
          GetField(header, key, buf_size) =
              IF Said(header, key) # None /\ buf_size < Len(Said(header, key)) THEN None
              ELSE Said(header, key)
    /\ GetFieldView(header, key) = Said(header, key)

(* So many spaces, and digits of which the buffer can hold one more.       *)
IsLength(value, spaces) ==
    /\ \A i \in DOMAIN value : IF i <= spaces THEN value[i] = " "
                              ELSE value[i] \in DOMAIN DigitValue
    /\ Len(value) - spaces \in 1..MaxDigits

(* Divided by ten again and again, the number leaves these digits, the     *)
(* last of them first, and then nothing.                                   *)
Writes(number, digits) ==
    LET n == Len(digits)
        rest[i \in 0..n] == IF i = 0 THEN number ELSE rest[i - 1] \div 10
    IN /\ number \notin Codes /\ rest[n] = 0
       /\ \A i \in 1..n : rest[n - i] % 10 = DigitValue[digits[i]]

(* The length of the body is the number that the header says.              *)
LengthAsSaid(header, key) ==
    LET value  == Said(header, key)
        length == ContentLength(header, key)
    IN IF FieldLines(header, key) = {} THEN length = 0
       ELSE /\ \A spaces \in 0..(MaxOthers - 1) :
                  IsLength(value, spaces) =>
                      Writes(length, SubSeq(value, spaces + 1, Len(value)))
            /\ Range(value) \intersect Range(Crlf) = {} /\ Len(Digits(value)) > MaxDigits =>
                  length \in Codes

=============================================================================
