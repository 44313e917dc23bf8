------------------------------- MODULE Filters -------------------------------
(***************************************************************************)
(* What a reader asks to see (gui/filters.py), as values: a filter is a    *)
(* record of its terms, a text a sequence of characters.  Three things are *)
(* enough of a character: case ("A" folds to "a"), being a digit, and the  *)
(* characters the text form must quote.  Of regular expressions there are  *)
(* those that read as they stand, those that repeat one character and can  *)
(* match nothing at all, and those that are half written.                  *)
(***************************************************************************)
EXTENDS Integers, Sequences, FiniteSets, SequencesExt

Debug == 10
LOCAL Digits == {"0", "1", "2"}
LOCAL Value(digit) == CHOOSE d \in 0..2 : ToString(d) = digit
LOCAL Folded(c) == IF c = "A" THEN "a" ELSE c

Casefold(text) == [i \in DOMAIN text |-> Folded(text[i])]
IsDigits(text) == text # <<>> /\ ToSet(text) \subseteq Digits
Number(text) == FoldLeft(LAMBDA n, digit : 10 * n + Value(digit), 0, text)

Strip(text) ==
    LET solid == {i \in DOMAIN text : text[i] # " "}
    IN  IF solid = {} THEN <<>> ELSE SubSeq(text, Min(solid), Max(solid))

OccursAt(needle, text, i) ==
    i + Len(needle) - 1 <= Len(text) /\ SubSeq(text, i, i + Len(needle) - 1) = needle
Occurs(needle, text) ==
    \E i \in 1..(Len(text) + 1) : OccursAt(needle, text, i)

-----------------------------------------------------------------------------
(* Patterns: a text, and whether it is a regular expression.               *)

IsStar(text, regex) == regex /\ Len(text) = 2 /\ text[2] = "*"

(* What _compile refuses. *)
Compiles(text, regex) == ~(regex /\ "(" \in ToSet(text))

Hits(text, regex, message) ==
    \/ IsStar(text, regex)
    \/ Occurs(Casefold(text), Casefold(message))

(* _spans(): where a pattern sits, from the left; an empty match is dropped. *)
Spans(text, regex, message) ==
    LET star == IsStar(text, regex)
        m == Casefold(message)
        needle == Casefold(text)
        here(i) == IF star
                   THEN Cardinality({j \in i..Len(m) : \A k \in i..j : m[k] = needle[1]})
                   ELSE IF OccursAt(needle, m, i) THEN Len(needle) ELSE 0
        found[i \in 0..Len(m)] ==
            IF i = 0 THEN <<>>
            ELSE IF here(i) = 0 \/ (found[i - 1] # <<>> /\ i < Last(found[i - 1])[2])
                 THEN found[i - 1]
                 ELSE Append(found[i - 1], <<i, i + here(i)>>)
    IN  IF text = <<>> THEN <<>> ELSE found[Len(m)]

Before(a, b) == a[1] < b[1] \/ (a[1] = b[1] /\ a[2] < b[2])

(* sorted(): each range put in behind those that are not after it. *)
Insert(list, x) ==
    InsertAt(list, 1 + Max({0} \cup {i \in DOMAIN list : ~Before(x, list[i])}), x)
Sorted(list) ==
    LET sorted[n \in 0..Len(list)] ==
            IF n = 0 THEN <<>> ELSE Insert(sorted[n - 1], list[n])
    IN  sorted[Len(list)]

(* Mutation of Joined: a range inside another ends it early. *)
JoinedToLast(merged, span) ==
    IF merged # <<>> /\ span[1] <= Last(merged)[2]
    THEN [merged EXCEPT ![Len(merged)] = <<@[1], span[2]>>]
    ELSE Append(merged, span)

(* A range folded into the last one, or put behind it. *)
Joined(merged, span) ==
    IF merged # <<>> /\ span[1] <= Last(merged)[2]
    THEN [merged EXCEPT ![Len(merged)] = <<@[1], Max({@[2], span[2]})>>]
    ELSE Append(merged, span)

(* merge_spans(): two washes as one. *)
MergeSpans(left, right) ==
    LET all == Sorted(left \o right)
        merged[n \in 0..Len(all)] ==
            IF n = 0 THEN <<>> ELSE Joined(merged[n - 1], all[n])
    IN  IF left = <<>> THEN right
        ELSE IF right = <<>> THEN left
        ELSE merged[Len(all)]

-----------------------------------------------------------------------------
(* Filter.                                                                 *)

NoFilter ==
    [minimum_level |-> Debug, process |-> <<>>, subsystem |-> <<>>, search |-> <<>>,
     regex |-> FALSE, process_exclude |-> FALSE, subsystem_exclude |-> FALSE]

IsEmpty(f) ==
    f.minimum_level = Debug /\ f.process = <<>> /\ f.subsystem = <<>> /\ f.search = <<>>

(* _matches_process: a pid is compared whole, a name is looked for. *)
MatchesProcess(f, r) ==
    LET needle == Casefold(f.process)
    IN  IF IsDigits(needle) THEN r.pid = Number(needle)
                            ELSE Occurs(needle, Casefold(r.process))

(* _matches_subsystem: a record without one is a miss. *)
MatchesSubsystem(f, r) == Occurs(Casefold(f.subsystem), Casefold(r.subsystem))

(* matches(): a term rejects when its hit and its exclusion agree. *)
Matches(f, r) ==
    /\ r.level >= f.minimum_level
    /\ f.process # <<>> => MatchesProcess(f, r) # f.process_exclude
    /\ f.subsystem # <<>> => MatchesSubsystem(f, r) # f.subsystem_exclude
    /\ f.search # <<>> => Hits(f.search, f.regex, r.message)

(* summary: the terms that are set, in order. *)
Summary(f) ==
    (IF f.minimum_level = Debug THEN <<>> ELSE << <<"level", ToString(f.minimum_level)>> >>)
    \o (IF f.process = <<>> THEN <<>> ELSE << <<"process", f.process_exclude, f.process>> >>)
    \o (IF f.subsystem = <<>> THEN <<>> ELSE << <<"subsystem", f.subsystem_exclude, f.subsystem>> >>)
    \o (IF f.search = <<>> THEN <<>> ELSE << <<"search", f.regex, f.search>> >>)

(* _quote(): bare where it can be. *)
Quote(value) ==
    IF ToSet(value) \cap {" ", "\"", "\\"} = {} THEN value
    ELSE <<"\"">> \o FlattenSeq([i \in DOMAIN value |->
            IF value[i] \in {"\"", "\\"} THEN <<"\\", value[i]>> ELSE <<value[i]>>]) \o <<"\"">>

(* as_text(): one line, a key being one symbol of it. *)
AsText(f) ==
    LET term(set, key, value) == IF set THEN << <<key>> \o value >> ELSE <<>>
        signed(excludes, key) == IF excludes THEN "-" \o key ELSE key
        terms == term(f.minimum_level # Debug, "level:", <<ToString(f.minimum_level)>>)
                 \o term(f.process # <<>>, signed(f.process_exclude, "process:"), Quote(f.process))
                 \o term(f.subsystem # <<>>, signed(f.subsystem_exclude, "subsystem:"), Quote(f.subsystem))
                 \o term(f.search # <<>>, IF f.regex THEN "regex:" ELSE "search:", Quote(f.search))
    IN  FlattenSeq([i \in DOMAIN terms |-> IF i = 1 THEN terms[i] ELSE <<" ">> \o terms[i]])

(* as_fields() is the record; from_fields() reads one that another version  *)
(* may have left: without the exclusions, or unreadable.                    *)
Required == {"minimum_level", "process", "subsystem", "search", "regex"}
Unreadable == [unreadable |-> TRUE]
FromFields(stored) ==
    LET flag(name) == name \in DOMAIN stored /\ stored[name]
    IN  IF ~(Required \subseteq DOMAIN stored) THEN Unreadable
        ELSE IF ~Compiles(stored.search, stored.regex) THEN Unreadable
        ELSE [name \in DOMAIN NoFilter |->
                IF name \in Required THEN stored[name] ELSE flag(name)]

-----------------------------------------------------------------------------
(* The lists of filters.  A saved filter has a name, compared as it reads.  *)

(* A list without the entries a comprehension passes over. *)
Without(list, S) ==
    FlattenSeq([i \in DOMAIN list |-> IF list[i] \in S THEN <<>> ELSE <<list[i]>>])

NameKey(name) == Casefold(Strip(name))
SameName(a, b) == NameKey(a) = NameKey(b)

(* SavedFilter.from_stored: one that has no name is unreadable. *)
FromStored(stored) ==
    LET terms == FromFields(stored.filter)
    IN  IF Strip(stored.name) = <<>> \/ terms = Unreadable THEN Unreadable
        ELSE [name |-> stored.name, terms |-> terms]

Save(saved, entry) ==
    IF \E i \in DOMAIN saved : SameName(saved[i].name, entry.name)
    THEN [i \in DOMAIN saved |-> IF SameName(saved[i].name, entry.name) THEN entry ELSE saved[i]]
    ELSE Append(saved, entry)

Forget(saved, name) ==
    Without(saved, {entry \in ToSet(saved) : SameName(entry.name, name)})

(* remember(): to the front, once. *)
Remember(recent, f, kept) ==
    LET all == <<f>> \o Without(recent, {f})
    IN  IF IsEmpty(f) THEN recent
        ELSE SubSeq(all, 1, IF Len(all) < kept THEN Len(all) ELSE kept)
=============================================================================
