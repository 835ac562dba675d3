------------------------------- MODULE Topics -------------------------------
(***************************************************************************)
(* Topic names and topic filters (src/src/mqtt_proto/topic.rs and          *)
(* filter.rs).  A string is a sequence of characters, of which only the    *)
(* special ones are told apart; "share" stands for the five letters of the *)
(* prefix $share/, and Disallowed is any code point that                   *)
(* validate_mqtt_string refuses.                                           *)
(***************************************************************************)
EXTENDS Integers, SequencesExt

CONSTANTS
    Disallowed,
    MaxString           \* u16::MAX

ASSUME TopicsAssumption == MaxString \in Nat

Separator == "/"
Dollar == "$"
Single == "+"
Multi == "#"
Wildcards == {Single, Multi}
SharePrefix == <<Dollar, "share", Separator>>

\* str::split(SEPARATOR)
Levels(s) ==
    FoldLeft(LAMBDA acc, c : IF c = Separator THEN Append(acc, <<>>)
                             ELSE [acc EXCEPT ![Len(acc)] = Append(@, c)],
             << <<>> >>, s)

validate_mqtt_string(s) == ~Contains(s, Disallowed)
HasWildcard(s) == \E c \in Wildcards : Contains(s, c)
After(s, i) == SubSeq(s, i + 1, Len(s))

IsMqttString(s) == s # <<>> /\ Len(s) <= MaxString /\ validate_mqtt_string(s)

-----------------------------------------------------------------------------
\* Whether Topic::new accepts s.
ValidTopic(s) == IsMqttString(s) /\ ~HasWildcard(s)

FilterKind(s) ==
    IF s[1] # Dollar THEN "Regular" ELSE IF IsPrefix(SharePrefix, s) THEN "Shared" ELSE "Dollar"

\* index_group_name_and_filter: the first separator after the prefix, or none.
Separators(s) == {i \in Len(SharePrefix) + 1 .. Len(s) : s[i] = Separator}
GroupEnd(s) == Min(Separators(s))
GroupName(s) == SubSeq(s, Len(SharePrefix) + 1, GroupEnd(s) - 1)

\* The scan of the group name stops at a wildcard with an error.
ValidGroup(s) ==
    /\ Separators(s) # {}
    /\ GroupName(s) # <<>>
    /\ ~HasWildcard(GroupName(s))

\* What classify() and the parser take for the filter.
SubFilter(s) == IF FilterKind(s) = "Shared" THEN After(s, GroupEnd(s)) ELSE s

\* Fault: a level may go on after a single-level wildcard.
ParseStateLoose(state, c) ==
    CASE state \in {"Multiple", "Error"} -> "Error"
      [] c = Separator -> "Separator"
      [] state = "Separator" /\ c = Single -> "Single"
      [] state = "Separator" /\ c = Multi -> "Multiple"
      [] c \in Wildcards -> "Error"
      [] OTHER -> "Literal"

\* The transition table of the parser.
ParseState(state, c) ==
    CASE state \in {"Multiple", "Error"} -> "Error"
      [] c = Separator -> "Separator"
      [] state = "Separator" /\ c = Single -> "Single"
      [] state = "Separator" /\ c = Multi -> "Multiple"
      [] state \in {"Separator", "Literal"} /\ c \notin Wildcards -> "Literal"
      [] OTHER -> "Error"

\* Whether Filter::new accepts s.
ValidFilter(s) ==
    /\ IsMqttString(s)
    /\ FilterKind(s) = "Shared" => ValidGroup(s)
    /\ SubFilter(s) # <<>>
    /\ FoldLeft(ParseState, "Separator", SubFilter(s)) # "Error"

-----------------------------------------------------------------------------
\* A level of the topic that a wildcard may stand for.
Matchable(level) == level = <<>> \/ level[1] # Dollar

\* Fault: the levels are compared with zip, which stops with the shorter side.
match_levelsZip(filter, topic) ==
    LET matches[i \in 1 .. Len(filter) + 1] ==
            CASE i > Len(filter) \/ i > Len(topic) -> TRUE
              [] Matchable(topic[i]) /\ filter[i] = <<Multi>> -> TRUE
              [] Matchable(topic[i]) /\ filter[i] = <<Single>> -> matches[i + 1]
              [] OTHER -> filter[i] = topic[i] /\ matches[i + 1]
    IN matches[1]

match_levels(filter, topic) ==
    LET matches[i \in 1 .. Len(filter) + 1] ==
            CASE i > Len(filter) \/ i > Len(topic) -> Len(filter) = Len(topic)
              [] Matchable(topic[i]) /\ filter[i] = <<Multi>> -> TRUE
              [] Matchable(topic[i]) /\ filter[i] = <<Single>> -> matches[i + 1]
              [] OTHER -> filter[i] = topic[i] /\ matches[i + 1]
    IN matches[1]

matches_topic(filter, topic) == match_levels(Levels(SubFilter(filter)), Levels(topic))

-----------------------------------------------------------------------------
(***************************************************************************)
(* The rules of MQTT 5, sections 4.7 and 4.8.2, level by level.            *)
(***************************************************************************)
WellFormed(levels) ==
    \A i \in DOMAIN levels :
        \/ levels[i] = <<Multi>> /\ i = Len(levels)
        \/ levels[i] = <<Single>>
        \/ ~HasWildcard(levels[i])

IsShared(levels) == Len(levels) > 1 /\ levels[1] = <<Dollar, "share">>

\* The levels that are compared with those of a topic.
OwnLevels(levels) == IF IsShared(levels) THEN After(levels, 2) ELSE levels

MqttFilter(s) ==
    /\ IsMqttString(s)
    /\ IsShared(Levels(s)) =>
          /\ Levels(s)[2] # <<>>
          /\ ~HasWildcard(Levels(s)[2])
          /\ OwnLevels(Levels(s)) \notin {<<>>, << <<>> >>}
    /\ WellFormed(OwnLevels(Levels(s)))

MqttLevelMatches(f, t) == f = <<Single>> \/ f = t

MqttMatches(f, t) ==
    LET multi == Last(f) = <<Multi>>
        fixed == IF multi THEN Len(f) - 1 ELSE Len(f)
    IN /\ IF multi THEN Len(t) >= fixed ELSE Len(t) = fixed
       /\ \A i \in 1..fixed : MqttLevelMatches(f[i], t[i])
       /\ f[1] \in {<<Single>>, <<Multi>>} => Matchable(t[1])

\* Where match_levels is stricter than MQTT: "a/#" leaves out "a" itself, and a
\* wildcard stands for no level that starts with $, the first or not.
ParentLevel(f, t) == Last(f) = <<Multi>> /\ Len(t) = Len(f) - 1
DollarBelow(f, t) ==
    \E i \in 2 .. Min({Len(f), Len(t)}) : f[i] \in {<<Single>>, <<Multi>>} /\ ~Matchable(t[i])
=============================================================================
