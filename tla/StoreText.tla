------------------------------ MODULE StoreText -----------------------------
(***************************************************************************)
(* How values become lines of a file and are read back (store-files.c),    *)
(* and the conversions of store-gen.c.  Text is a sequence of characters,  *)
(* a file a sequence of lines; the name of a field and the '=' after it    *)
(* are left out.  An item without text has no line: NoText.                *)
(***************************************************************************)
EXTENDS Naturals, Sequences, SequencesExt, FiniteSetsExt

NL == "\n"
NoText == <<>>

\* SUBSEQ[i..j], also when it is empty or reaches past the end.
Part(s, i, j) == SubSeq(s, i, IF j > Len(s) THEN Len(s) ELSE j)
\* Index of the first element from i on that is (not) in S, or one past the end.
Span(s, i, S) == Min({k \in i..Len(s) : s[k] \notin S} \cup {Len(s) + 1})
Until(s, i, S) == Min({k \in i..Len(s) : s[k] \in S} \cup {Len(s) + 1})

(***************************************************************************)
(* Strings of several lines                                                *)
(***************************************************************************)
\* The lines of s from i on; blank ones are kept.
SegmentsFrom(s, i) ==
    LET f[k \in Nat] == IF k > Len(s) THEN <<>>
                        ELSE <<Part(s, k, Until(s, k, {NL}) - 1)>> \o f[Until(s, k, {NL}) + 1]
    IN  f[i]

\* All but the first line begin with a space, and newlines after the first line
\* are taken together.
WriteStr(s) ==
    IF s = <<>> THEN NoText
    ELSE LET q == Until(s, 1, {NL}) IN
         <<Part(s, 1, q - 1)>>
         \o [k \in 1..Len(SegmentsFrom(s, Span(s, q, {NL}))) |->
                <<" ">> \o SegmentsFrom(s, Span(s, q, {NL}))[k]]

\* Lines that begin with a space continue the one before; then line ends stay.
ReadStr_TrimsAlways(lines) ==
    IF lines = NoText THEN <<>>
    ELSE FlattenSeq([k \in DOMAIN lines |->
            IF k = 1 THEN lines[1] ELSE <<NL>> \o Tail(lines[k])])

ReadStr(lines) ==
    IF lines = NoText THEN <<>>
    ELSE IF Len(lines) = 1 THEN lines[1]
    ELSE FlattenSeq([k \in DOMAIN lines |->
            IF k = 1 THEN lines[1] \o <<NL>> ELSE Tail(lines[k]) \o <<NL>>])

(***************************************************************************)
(* Lists of strings, on one line                                           *)
(***************************************************************************)
Special == {"\\", ","}
Escaped(s) == FlattenSeq([k \in DOMAIN s |-> IF s[k] \in Special THEN <<"\\", s[k]>> ELSE <<s[k]>>])

WriteStrs_NoEscape(l) == 
    IF l = <<>> THEN NoText
    ELSE <<FlattenSeq([k \in DOMAIN l |-> IF k = 1 THEN l[k] ELSE <<",">> \o l[k]])>>

WriteStrs(l) ==
    IF l = <<>> THEN NoText
    ELSE <<FlattenSeq([k \in DOMAIN l |->
             IF k = 1 THEN Escaped(l[k]) ELSE <<",">> \o Escaped(l[k])])>>

\* The text up to the first comma from i on that is not escaped, unescaped, and where it
\* ends.  (After a backslash at the end, which is never written, the code reads on.)
Element(s, i) ==
    LET f[k \in Nat] ==
          IF k > Len(s) \/ s[k] = "," \/ (s[k] = "\\" /\ k = Len(s)) THEN [text |-> <<>>, end |-> k]
          ELSE LET j == IF s[k] = "\\" THEN k + 1 ELSE k
               IN  [f[j + 1] EXCEPT !.text = <<s[j]>> \o @]
    IN  f[i]

\* Empty elements are dropped.
ParseStrs(s) ==
    LET f[i \in Nat] ==
          IF i > Len(s) THEN <<>>
          ELSE LET e == Element(s, i)
               IN  (IF e.text = <<>> THEN <<>> ELSE <<e.text>>) \o f[e.end + 1]
    IN  f[1]

ReadStrs(lines) == IF lines = NoText THEN <<>> ELSE ParseStrs(ReadStr(lines))

(***************************************************************************)
(* Certificates with nicknames.  A certificate is a sequence of lines, the *)
(* last of which, and no other, is End; a nickname is not empty but for    *)
(* Blank.                                                                  *)
(***************************************************************************)
End == "END"
Blank == "blank"

WriteNickcerts(l) ==
    FlattenSeq([k \in DOMAIN l |-> <<l[k].nickname>> \o SelectSeq(l[k].cert, LAMBDA x : x # Blank)])

\* A nickname is the rest of the line; a certificate ends with the line of its
\* END marker and the line ends after it, blank lines included.
ParseNickcerts(text) ==
    LET f[i \in Nat] ==
          IF i > Len(text) THEN <<>>
          ELSE LET first == Span(text, i + 1, {Blank})
                   last  == Until(text, first, {End})
                   item  == [nickname |-> text[i], cert |-> Part(text, first, last)]
               IN  <<item>> \o f[Span(text, last + 1, {Blank})]
    IN  IF text # <<>> /\ \A i \in DOMAIN text : text[i] # End THEN <<>> ELSE f[1]

(***************************************************************************)
(* Paths                                                                   *)
(***************************************************************************)
Slash == "/"
RemoveFrom(s, i, n) == Part(s, 1, i - 1) \o Part(s, i + n, Len(s))
EndsAt(s, i) == i > Len(s) \/ s[i] = Slash
Matches(s, i, w) == i + Len(w) - 1 <= Len(s) /\ SubSeq(s, i, i + Len(w) - 1) = w

\* One pass over s that takes w out where it is a whole component; what moves
\* into the place of w is not looked at again.
Without(s, w) ==
    LET f[i \in Nat, t \in Seq(STRING)] ==
          IF i > Len(t) THEN t
          ELSE f[i + 1, IF Matches(t, i, w) /\ EndsAt(t, i + Len(w)) THEN RemoveFrom(t, i, Len(w)) ELSE t]
    IN  f[1, s]

\* The same for "/..", which takes the component before it along.
WithoutParents_KeepsParent(s) == Without(s, <<"/", ".", ".">>)

WithoutParents(s) ==
    LET f[i \in Nat, t \in Seq(STRING)] ==
          IF i > Len(t) THEN t
          ELSE IF ~(Matches(t, i, <<"/", ".", ".">>) /\ EndsAt(t, i + 3)) THEN f[i + 1, t]
          ELSE LET before == {q \in 1..(i - 1) : t[q] = Slash} IN
               IF before = {} THEN t
               ELSE f[i + 1, Part(t, 1, Max(before) - 1) \o Part(t, i + 3, Len(t))]
    IN  f[1, s]

\* cwd is absolute and canonical.
cm_store_canonicalize_path(cwd, path) ==
    LET last == Max({i \in DOMAIN path : path[i] # Slash} \cup {1})
        tmp  == Part(path, 1, last)
        full == IF tmp # <<>> /\ tmp[1] = Slash THEN tmp ELSE cwd \o <<"/", "/">> \o tmp
    IN  WithoutParents(Without(Without(full, <<"/">>), <<"/", ".">>))

(***************************************************************************)
(* Serial numbers: hexadecimal digits, as numbers, an even number of them  *)
(***************************************************************************)
cm_store_increment_serial_Unsigned(old) ==
    LET i == Max({k \in DOMAIN old : old[k] # 15} \cup {0}) IN
    IF Len(old) < 2 THEN <<0, 1>>
    ELSE [k \in 1..Len(old) |-> IF k > i THEN 0 ELSE IF k = i THEN old[k] + 1 ELSE old[k]]

cm_store_increment_serial(old) ==
    LET i    == Max({k \in DOMAIN old : old[k] # 15} \cup {0})     \* all F below it
        next == [k \in 1..Len(old) |-> IF k > i THEN 0 ELSE IF k = i THEN old[k] + 1 ELSE old[k]]
    IN  IF Len(old) < 2 THEN <<0, 1>>
        ELSE IF i = 0 THEN <<0, 1>> \o next
        ELSE IF next[1] >= 8 THEN <<0, 0>> \o next ELSE next

\* DER: the tag, the length in bytes in one byte, the number.
cm_store_serial_to_der(serial) ==
    <<0, 2, ((Len(serial) \div 2) \div 16) % 16, (Len(serial) \div 2) % 16>> \o serial

(***************************************************************************)
(* Binary data as text: bytes, hexadecimal digits and base64 digits, all   *)
(* as numbers; Pad is '='                                                  *)
(***************************************************************************)
cm_store_hex_from_bin(b) ==
    [k \in 1..2 * Len(b) |-> IF k % 2 = 1 THEN b[(k + 1) \div 2] \div 16 ELSE b[k \div 2] % 16]

\* Stops after `room` bytes.
cm_store_hex_to_bin(h, room) ==
    LET n == IF Len(h) \div 2 > room THEN room ELSE Len(h) \div 2
    IN  [k \in 1..n |-> h[2 * k - 1] * 16 + h[2 * k]]

Pad == 64
ByteOr0(b, k) == IF k <= Len(b) THEN b[k] ELSE 0

cm_store_base64_from_bin(b) ==
    LET groups == (Len(b) + 2) \div 3
        acc(g) == ByteOr0(b, 3 * g - 2) * 65536 + ByteOr0(b, 3 * g - 1) * 256 + ByteOr0(b, 3 * g)
        digits(g) == <<acc(g) \div 262144, (acc(g) \div 4096) % 64,
                       IF 3 * g - 1 > Len(b) THEN Pad ELSE (acc(g) \div 64) % 64,
                       IF 3 * g > Len(b) THEN Pad ELSE acc(g) % 64>>
    IN  FlattenSeq([g \in 1..groups |-> digits(g)])

\* Up to the first '='; other characters that are not digits are passed over.
\* Digits that do not make up three bytes give as many as are complete.
cm_store_base64_to_bin_Whole(t, room) ==
    LET d == SelectSeq(Part(t, 1, Until(t, 1, {Pad}) - 1), LAMBDA c : c \in 0..63)
        acc(g) == ByteOr0(d, 4 * g - 3) * 262144 + ByteOr0(d, 4 * g - 2) * 4096
                  + ByteOr0(d, 4 * g - 1) * 64 + ByteOr0(d, 4 * g)
        bytes == FlattenSeq([g \in 1..(Len(d) \div 4) |->
                    <<acc(g) \div 65536, (acc(g) \div 256) % 256, acc(g) % 256>>])
    IN  Part(bytes, 1, room)

cm_store_base64_to_bin(t, room) ==
    LET d == SelectSeq(Part(t, 1, Until(t, 1, {Pad}) - 1), LAMBDA c : c \in 0..63)
        n == CASE Len(d) % 4 \in {0, 1} -> 3 * (Len(d) \div 4)
               [] Len(d) % 4 = 2 -> 3 * (Len(d) \div 4) + 1
               [] OTHER -> 3 * (Len(d) \div 4) + 2
        acc(g) == ByteOr0(d, 4 * g - 3) * 262144 + ByteOr0(d, 4 * g - 2) * 4096
                  + ByteOr0(d, 4 * g - 1) * 64 + ByteOr0(d, 4 * g)
        bytes == FlattenSeq([g \in 1..((Len(d) + 3) \div 4) |->
                    <<acc(g) \div 65536, (acc(g) \div 256) % 256, acc(g) % 256>>])
    IN  Part(bytes, 1, IF n < room THEN n ELSE room)

cm_store_base64_as_bin(t) == cm_store_base64_to_bin(t, ((Len(t) + 3) \div 4) * 3)
cm_store_base64_from_hex(h) == cm_store_base64_from_bin(cm_store_hex_to_bin(h, Len(h) \div 2))
-----------------------------------------------------------------------------
(* Reference definitions *)

\* Where a path leads, without symbolic links: its components, ".." undone.
RECURSIVE Resolve(_)
Resolve(components) ==
    IF components = <<>> THEN <<>>
    ELSE LET up == Resolve(Front(components)) c == Last(components) IN
         CASE c \in {<<>>, <<".">>} -> up
           [] c = <<".", ".">> -> IF up = <<>> THEN <<>> ELSE Front(up)
           [] OTHER -> Append(up, c)

Components(path) ==
    LET f[k \in Nat] == IF k > Len(path) THEN <<>>
                        ELSE <<Part(path, k, Until(path, k, {Slash}) - 1)>> \o f[Until(path, k, {Slash}) + 1]
    IN  f[1]
Place(cwd, path) ==
    Resolve(Components(IF path # <<>> /\ path[1] = Slash THEN path ELSE cwd \o <<Slash>> \o path))

RECURSIVE NumberOf(_)
NumberOf(digits) == IF digits = <<>> THEN 0 ELSE 16 * NumberOf(Front(digits)) + Last(digits)

(***************************************************************************)
(* Properties of all texts in a set of bounded ones                        *)
(***************************************************************************)
\* What has been saved and read once stays as it is from then on, whatever line
\* ends it has; one line, and a PEM text, do at once.
StrKept(s) ==
    LET once == ReadStr(WriteStr(s)) IN
    /\ ReadStr(WriteStr(once)) = once
    /\ (\A k \in DOMAIN s : s[k] # NL) => once = s
    /\ (/\ s # <<>> /\ Last(s) = NL /\ s[1] # NL /\ Cardinality({k \in DOMAIN s : s[k] = NL}) > 1
        /\ \A k \in 1..(Len(s) - 1) : ~(s[k] = NL /\ s[k + 1] = NL)) => once = s

\* A list comes back element by element, separators and escapes included, but
\* for elements that are empty.
StrsKept(l) == ReadStrs(WriteStrs(l)) = SelectSeq(l, LAMBDA s : s # <<>>)

\* A list of certificates comes back, with its nicknames, if only the first
\* nickname is empty.
NickcertsKept(l) ==
    (\A k \in 2..Len(l) : l[k].nickname # Blank) => ParseNickcerts(WriteNickcerts(l)) = l

\* The canonical form of a path leads where the path does, and is absolute.
\* Not so for the root itself, which becomes empty, and where what moves into the
\* place of a component that was taken out is one, too: a///.. and a/././.. end at a.
PathKept(cwd, path) ==
    LET c == cm_store_canonicalize_path(cwd, path)
        twice(w) == \E i \in DOMAIN path : Matches(path, i, w \o w \o <<Slash>>)
    IN  \/ Place(cwd, path) = <<>> \/ twice(<<"/">>) \/ twice(<<"/", ".">>)
        \/ c # <<>> /\ c[1] = Slash /\ Place(cwd, c) = Place(cwd, path)

\* The next serial number is the next number, in whole bytes, and positive, as
\* the first bit of a DER integer is its sign.
SerialNext(s) ==
    LET n == cm_store_increment_serial(s) IN
    /\ Len(n) % 2 = 0 /\ n[1] < 8
    /\ Len(s) >= 2 => NumberOf(n) = NumberOf(s) + 1
    /\ NumberOf(SubSeq(cm_store_serial_to_der(n), 3, 4)) * 2 = Len(n)

\* Encoding and decoding give the bytes back, and never more than there is room for.
BinaryKept(b, room) ==
    /\ cm_store_base64_as_bin(cm_store_base64_from_bin(b)) = b
    /\ cm_store_base64_to_bin(cm_store_base64_from_bin(b), room) = Part(b, 1, room)
    /\ cm_store_hex_to_bin(cm_store_hex_from_bin(b), room) = Part(b, 1, room)
    /\ cm_store_base64_from_hex(cm_store_hex_from_bin(b)) = cm_store_base64_from_bin(b)
=============================================================================
