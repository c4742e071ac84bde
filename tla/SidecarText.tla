----------------------------- MODULE SidecarText -----------------------------
(* The text of a .trashinfo: what trashd writes for an entry, and what it    *)
(* reads from any file of that name, its own, another program's or one that  *)
(* came with a removable medium (crates/trashd-common/src/trashinfo.rs).  A  *)
(* text is a sequence of tokens: a key with its "=", the header, a line end, *)
(* or one byte of a value.                                                   *)
EXTENDS Naturals, Sequences, FiniteSets

CONSTANTS
  Entries,    \* what may be written: [path, command, hash], each a sequence of bytes
  Texts,      \* what else may be found in info/
  Hex,        \* Hex[byte]: its two hexadecimal digits
  Unreserved, \* bytes that are written as they are
  Dates,      \* values that are dates
  None        \* no value

Header == "[Trash Info]"
NL == "\n"
Space == " "
Keys == {"Path=", "DeletionDate=", "X-Trashd-Command=", "X-Trashd-Hash=", "X-Trashd-Compressed="}

VARIABLES
  text,       \* the file
  wrote,      \* the entry it was written for, if trashd did
  pos,        \* where the next line begins
  header,     \* the header was seen
  got,        \* what was read so far
  verdict     \* "reading", "entry" or "refused"

vars == <<text, wrote, pos, header, got, verdict>>
Fields == {"path", "date", "command", "hash", "compressed"}

-----------------------------------------------------------------------------
(* Percent encoding.                                                        *)

Concat(parts) == LET f[k \in 0..Len(parts)] == IF k = 0 THEN <<>> ELSE f[k - 1] \o parts[k] IN f[Len(parts)]
Over(seq, Op(_)) == [k \in DOMAIN seq |-> Op(seq[k])]

EncodeByte(b) == IF b \in Unreserved THEN <<b>> ELSE <<"%">> \o Hex[b]
Encode(path) == Concat(Over(path, EncodeByte))

Digits == {Hex[b][k] : b \in DOMAIN Hex, k \in {1, 2}}
Escaped(v, k) == v[k] = "%" /\ k + 2 <= Len(v) /\ v[k + 1] \in Digits /\ v[k + 2] \in Digits
ByteOf(hi, lo) == IF \E b \in DOMAIN Hex : Hex[b] = <<hi, lo>> THEN CHOOSE b \in DOMAIN Hex : Hex[b] = <<hi, lo>> ELSE "?"

\* Anything but % and two digits stays as it is.
Decode(v) ==
  LET rest[k \in 1..Len(v) + 1] ==
        IF k > Len(v) THEN <<>>
        ELSE IF Escaped(v, k) THEN <<ByteOf(v[k + 1], v[k + 2])>> \o rest[k + 3]
        ELSE <<v[k]>> \o rest[k + 1]
  IN  rest[1]

\* The parts of v between separators.
Split(v) ==
  LET cuts == {0, Len(v) + 1} \cup {k \in DOMAIN v : v[k] = "/"}
      pairs == {c \in cuts \X cuts : c[1] < c[2] /\ ~(\E d \in cuts : c[1] < d /\ d < c[2])}
  IN  {SubSeq(v, c[1] + 1, c[2] - 1) : c \in pairs}

Up == <<".", ".">>
\* Each part is looked at decoded, and then, for separators that were encoded, the whole.
Climbs(v) == (\E part \in Split(v) : Decode(part) \in {<<".">>, Up}) \/ Up \in Split(Decode(v))

-----------------------------------------------------------------------------
(* Writing.                                                                 *)

\* No control character of a command ends its line.
Sanitized(command) == SelectSeq(command, LAMBDA b : b # NL)

Optional(key, value) == IF value = None THEN <<>> ELSE <<key>> \o value \o <<NL>>
Written(e) ==
  <<Header, NL, "Path=">> \o Encode(e.path) \o <<NL, "DeletionDate=">> \o e.date \o <<NL>>
    \o (IF e.command = None THEN <<>> ELSE Optional("X-Trashd-Command=", Sanitized(e.command)))
    \o Optional("X-Trashd-Hash=", e.hash)

-----------------------------------------------------------------------------
(* Reading.                                                                 *)

Trimmed(v) ==
  LET inner == {k \in DOMAIN v : v[k] # Space}
  IN  IF inner = {} THEN <<>>
      ELSE SubSeq(v, CHOOSE k \in inner : \A l \in inner : k <= l, CHOOSE k \in inner : \A l \in inner : k >= l)

Init ==
  /\ \/ \E e \in Entries : wrote = e /\ text = Written(e)
     \/ wrote = None /\ text \in Texts
  /\ pos = 1 /\ header = FALSE /\ got = [f \in Fields |-> None] /\ verdict = "reading"

EndOf(k) == LET ends == {l \in k..Len(text) : text[l] = NL} IN
            IF ends = {} THEN Len(text) + 1 ELSE CHOOSE l \in ends : \A m \in ends : l <= m
Line == SubSeq(text, pos, EndOf(pos) - 1)
\* The key is what is left of the first "=", trimmed; the value is all to the right of it.
KeyAt == {k \in DOMAIN Line : Line[k] \in Keys /\ \A l \in 1..k - 1 : Line[l] = Space}
Key == IF KeyAt = {} THEN None ELSE Line[CHOOSE k \in KeyAt : TRUE]
Value == SubSeq(Line, (CHOOSE k \in KeyAt : TRUE) + 1, Len(Line))

Take(f, v) == got' = [got EXCEPT ![f] = IF @ = None THEN v ELSE @]
DateOf(v) == IF Trimmed(v) \in Dates THEN Trimmed(v) ELSE None

Reading == verdict = "reading" /\ pos <= Len(text)
Skip == pos' = EndOf(pos) + 1 /\ UNCHANGED <<text, wrote>>
ReadHeader ==
  /\ Reading /\ ~header /\ Trimmed(Line) # <<>> /\ Skip /\ UNCHANGED got
  /\ IF Trimmed(Line) = <<Header>> THEN header' = TRUE /\ UNCHANGED verdict
     ELSE verdict' = "refused" /\ UNCHANGED header
ReadBlank == Reading /\ (Trimmed(Line) = <<>> \/ (header /\ Key = None)) /\ Skip /\ UNCHANGED <<header, got, verdict>>
ReadPath ==
  /\ Reading /\ header /\ Key = "Path=" /\ Skip /\ UNCHANGED header
  /\ IF got["path"] = None /\ Climbs(Value)
     THEN verdict' = "refused" /\ UNCHANGED got
     ELSE Take("path", Decode(Value)) /\ UNCHANGED verdict
ReadDate == Reading /\ header /\ Key = "DeletionDate=" /\ Skip /\ Take("date", DateOf(Value)) /\ UNCHANGED <<header, verdict>>
Extension == [k \in {"X-Trashd-Command=", "X-Trashd-Hash=", "X-Trashd-Compressed="} |->
               CASE k = "X-Trashd-Command=" -> "command" [] k = "X-Trashd-Hash=" -> "hash" [] OTHER -> "compressed"]
ReadExtension ==
  /\ Reading /\ header /\ Key \in DOMAIN Extension /\ Skip
  /\ Take(Extension[Key], Trimmed(Value)) /\ UNCHANGED <<header, verdict>>
\* Without a path and a date it is no entry.
EndOfText ==
  /\ verdict = "reading" /\ pos > Len(text)
  /\ verdict' = IF header /\ got["path"] # None /\ got["date"] # None THEN "entry" ELSE "refused"
  /\ UNCHANGED <<text, wrote, pos, header, got>>

Next == ReadHeader \/ ReadBlank \/ ReadPath \/ ReadDate \/ ReadExtension \/ EndOfText
Spec == Init /\ [][Next]_vars

-----------------------------------------------------------------------------
(* Properties.                                                              *)

TypeOK == pos \in 1..Len(text) + 2 /\ header \in BOOLEAN /\ DOMAIN got = Fields
          /\ verdict \in {"reading", "entry", "refused"} /\ (verdict = "entry" => header)

\* What trashd writes for a file of any name, deleted by any command, it reads back as that
\* path, hash and date, and nothing that the name or the command contains becomes a field.
RoundTrip ==
  wrote # None /\ verdict # "reading" =>
    /\ verdict = "entry" /\ got["path"] = wrote.path /\ got["date"] = wrote.date /\ got["hash"] = wrote.hash
    /\ got["compressed"] = None

\* Whatever a foreign file says, a path that is read never climbs: no part of it between
\* separators, written or encoded, is ".." (#27, #87, #256).
NeverClimbs == got["path"] # None => Up \notin Split(got["path"])

\* "A later duplicate must never override the integrity-hash marker" (#30): nothing a file says
\* after its first path, hash or compression changes them.
LinesOf(key) == {k \in DOMAIN text : text[k] = key
                  /\ \E j \in 1..k : (j = 1 \/ text[j - 1] = NL) /\ \A l \in j..k - 1 : text[l] = Space}
FirstValue(key) == LET k == CHOOSE k \in LinesOf(key) : \A l \in LinesOf(key) : k <= l IN SubSeq(text, k + 1, EndOf(k) - 1)
FirstKept ==
  verdict = "entry" =>
    /\ LinesOf("X-Trashd-Hash=") # {} => got["hash"] = Trimmed(FirstValue("X-Trashd-Hash="))
    /\ LinesOf("X-Trashd-Compressed=") # {} => got["compressed"] = Trimmed(FirstValue("X-Trashd-Compressed="))
    /\ got["path"] = Decode(FirstValue("Path="))

=============================================================================
