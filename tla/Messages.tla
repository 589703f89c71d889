------------------------------ MODULE Messages ------------------------------
(***************************************************************************)
(* The arguments of D-Bus messages (tdbusm.c): what the daemon and getcert *)
(* put into them and take out of them.  An argument is a pair of its type  *)
(* and its value; types have the letters of the bus: "s" a string, "o" an  *)
(* object's path, "b" a truth, "x", "i", "u" and "q" a number of 64, 32,   *)
(* 32 unsigned and 16 bits, "as" and "ao" lists, "ss" a list of pairs, "v" *)
(* a variant, "d" a dictionary of variants.  In C, a list that is NULL is  *)
(* None, here and in the other modules of the interface.                   *)
(***************************************************************************)
EXTENDS Integers, Sequences, SequencesExt

CONSTANTS None, Empty

Lists == {"as", "ao", "ss", "d"}
Widths == {"x", "i", "u", "q"}

(***************************************************************************)
(* Putting arguments in and taking them out, by signature                  *)
(***************************************************************************)
\* Strings and lists that there are not are empty ones; numbers have 64 bits.
SetArg(type, v) ==
    CASE type = "s" -> <<"s", IF v = None THEN Empty ELSE v>>
      [] type = "n" -> <<"x", v>>
      [] type \in Lists -> <<type, IF v = None THEN <<>> ELSE v>>
      [] OTHER -> <<type, v>>
Set(signature, values) == [i \in DOMAIN signature |-> SetArg(signature[i], values[i])]

\* The arguments are of exactly these types; there can be more than are asked for.
HasTypes(msg, types) == Len(types) <= Len(msg) /\ \A i \in DOMAIN types : msg[i][1] = types[i]

\* Lists without members are NULL.
Taken(arg) == IF arg[1] \in Lists /\ arg[2] = <<>> THEN None ELSE arg[2]

Accepted_Only64(signature) == {"x"}

\* All numbers of a message have one width; only get_n knows unsigned ones.
\* (get_sn, which nothing uses, would read the narrower ones wrongly.)
Accepted(signature) == IF signature = <<"n">> THEN {"x", "i", "u", "q"} ELSE {"x", "i", "q"}
Of(signature, width) == [i \in DOMAIN signature |-> IF signature[i] = "n" THEN width ELSE signature[i]]

Refused == None
Get(signature, msg) ==
    IF \E w \in Accepted(signature) : HasTypes(msg, Of(signature, w))
          /\ \A i \in DOMAIN signature : signature[i] = "ss" => msg[i][2] # <<>>
    THEN [i \in DOMAIN signature |-> Taken(msg[i])]
    ELSE Refused

\* get_ssosos, get_sososos, get_ssoas: the longest signature that there is.
GetOptional_Short(signature, least, msg) == Get(SubSeq(signature, 1, least), msg)

GetOptional(signature, least, msg) ==
    LET fitting == {n \in least..Len(signature) : Get(SubSeq(signature, 1, n), msg) # Refused}
        longest == CHOOSE n \in fitting : \A m \in fitting : m <= n
    IN  IF fitting = {} THEN Refused
        ELSE [i \in DOMAIN signature |-> IF i <= longest THEN Get(SubSeq(signature, 1, longest), msg)[i] ELSE None]

(***************************************************************************)
(* Dictionaries                                                            *)
(***************************************************************************)
\* An entry is a key with an argument.  A variant is read back as its value,
\* but a list without members says nothing of its type.
Variants == {"b", "o", "s", "q", "i", "x", "as", "ss", "d"}
DictValue(arg) ==
    CASE arg[1] \in Lists /\ arg[2] = <<>> -> <<"invalid", None>>
      [] arg[1] \in {"q", "i", "x"} -> <<"n", arg[2]>>
      [] OTHER -> arg
DictItem(entry) == <<entry[1], DictValue(entry[2])>>

\* get_d: any number of dictionaries, none of them empty.
GetDict_LastOnly(msg) ==
    IF msg = <<>> \/ \E i \in DOMAIN msg : msg[i][1] # "d" \/ msg[i][2] = <<>> THEN Refused
    ELSE [j \in DOMAIN msg[Len(msg)][2] |-> DictItem(msg[Len(msg)][2][j])]

GetDict(msg) ==
    LET bad(arg) == \/ arg[1] # "d" \/ arg[2] = <<>>
                    \/ \E j \in DOMAIN arg[2] : arg[2][j][2][1] \notin Variants
    IN  IF msg = <<>> \/ \E i \in DOMAIN msg : bad(msg[i]) THEN Refused
        ELSE FlattenSeq([i \in DOMAIN msg |-> [j \in DOMAIN msg[i][2] |-> DictItem(msg[i][2][j])]])

SetDict(d) ==
    LET arg(value) == CASE value[1] = "n" -> <<"x", value[2]>> [] value[1] = "invalid" -> <<"invalid", None>>
                        [] OTHER -> SetArg(value[1], value[2])
    IN  <<<<"d", [i \in DOMAIN d |-> <<d[i][1], arg(d[i][2])>>]>>>>

\* The last entry with the key, in upper or lower case, and the type; a path may
\* be a string and a string a path.  SameKey is strcasecmp.
SameKey(a, b) == a = b \/ {a, b} = {"ca", "CA"}
Matches(entry, key, type) ==
    SameKey(entry[1], key) /\ (entry[2][1] = type \/ {entry[2][1], type} = {"s", "o"})
FindEntry_First(d, key, type) ==
    LET at == {i \in DOMAIN d : Matches(d[i], key, type)}
    IN  IF at = {} THEN None ELSE d[CHOOSE i \in at : \A j \in at : i <= j][2][2]

FindEntry(d, key, type) ==
    LET at == {i \in DOMAIN d : Matches(d[i], key, type)}
    IN  IF at = {} THEN None ELSE d[CHOOSE i \in at : \A j \in at : j <= i][2][2]
-----------------------------------------------------------------------------
(* Properties *)

\* What was put into a message with a signature is taken out with it, but that
\* an empty string or list stands for one that there is not; an empty list of
\* pairs cannot be taken out.
Same(type, given, taken) ==
    IF type \in Lists THEN taken = (IF given = <<>> THEN None ELSE given)
    ELSE taken = (IF given = None THEN Empty ELSE given)
ArgumentsRead(signature, values) ==
    LET taken == Get(signature, Set(signature, values)) IN
    IF \E i \in DOMAIN signature : signature[i] = "ss" /\ values[i] \in {None, <<>>} THEN taken = Refused
    ELSE taken # Refused /\ \A i \in DOMAIN signature : Same(signature[i], values[i], taken[i])

\* A number of another client arrives whatever width it has, if all have the same.
WidthsRead(signature, values) ==
    \A w \in {"x", "i", "q"} :
        Get(signature, [i \in DOMAIN signature |->
                           IF signature[i] = "n" THEN <<w, values[i]>> ELSE SetArg(signature[i], values[i])]) # Refused

\* Trailing arguments can be left out, and those that are there are read.
OptionalRead(signature, least, n, values) ==
    LET sent == SubSeq(signature, 1, n)
        taken == GetOptional(signature, least, Set(sent, SubSeq(values, 1, n)))
    IN  IF n < least THEN taken = Refused
        ELSE /\ taken # Refused
             /\ \A i \in DOMAIN signature : IF i <= n THEN Same(signature[i], values[i], taken[i]) ELSE taken[i] = None

\* In a dictionary, sent as one or in two parts, every parameter arrives with
\* its type, but for lists without members; only no parameters at all are
\* refused.  A parameter that is given twice has its last value.
DictRead(d, cut, keys) ==
    LET one == SetDict(SubSeq(d, 1, cut))
        msg == IF cut = Len(d) THEN one ELSE one \o SetDict(SubSeq(d, cut + 1, Len(d)))
        taken == GetDict(msg)
    IN  IF cut = 0 THEN taken = Refused
        ELSE /\ taken # Refused
             /\ Len(taken) = Len(d)
             /\ \A i \in DOMAIN d : taken[i] = IF d[i][2][1] \in Lists /\ d[i][2][2] = <<>>
                                               THEN <<d[i][1], <<"invalid", None>>>> ELSE d[i]
             /\ \A key \in keys, type \in {"s", "o", "b", "n", "as"} :
                   LET like == IF type \in {"s", "o"} THEN {"s", "o"} ELSE {type}
                       at == {i \in DOMAIN d : SameKey(d[i][1], key) /\ d[i][2][1] \in like
                                                       /\ (type = "as" => d[i][2][2] # <<>>)}
                   IN  IF at = {} THEN FindEntry(taken, key, type) = None
                       ELSE FindEntry(taken, key, type) = d[CHOOSE i \in at : \A j \in at : j <= i][2][2]
=============================================================================
