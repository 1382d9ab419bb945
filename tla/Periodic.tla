------------------------------- MODULE Periodic -------------------------------
(* Which note a date names, and which date a note's name stands for           *)
(* (periodic.rs). A format is a sequence of tokens of the code's token table:  *)
(* Y year, G year of the ISO week, Q quarter, M month, D day, V ISO week;      *)
(* a name is the sequence of their values. Literals and digits are left out.   *)
EXTENDS Naturals, Sequences, SequencesExt, FiniteSetsExt

CONSTANTS
    Days,       \* dates, in their order
    Calendar,   \* for each its fields Y, G, Q, M, D, V and u, the day of the week
    Nothing     \* no such thing

ASSUME DaysAssumption ==
    /\ Days \subseteq Nat
    /\ \A d \in Days : {"Y", "G", "Q", "M", "D", "V", "u"} \subseteq DOMAIN Calendar[d]

Periods == {"daily", "weekly", "monthly", "quarterly", "yearly"}

DefaultFormat(period) ==
    CASE period = "daily"     -> <<"Y", "M", "D">>
      [] period = "weekly"    -> <<"G", "V">>
      [] period = "monthly"   -> <<"Y", "M">>
      [] period = "quarterly" -> <<"Y", "Q">>
      [] period = "yearly"    -> <<"Y">>

\* momentjs_to_chrono: the years and weeks of a locale become those of ISO.
Chrono(token) == CASE token = "g" -> "G" [] token = "w" -> "V" [] OTHER -> token
FormatDate(format, day) ==
    [i \in DOMAIN format |-> <<Chrono(format[i]), Calendar[day][Chrono(format[i])]>>]

-----------------------------------------------------------------------------
(* The configuration in .obsidian: the plugin's entry of the period if it is   *)
(* enabled, for days the core plugin's, else the default. An empty format is   *)
(* none; folder <<>> is the root.                                              *)

Config(format, folder, template, period) ==
    [format |-> IF format = <<>> THEN DefaultFormat(period) ELSE format,
     folder |-> folder, template |-> template]

\* The plugin has an entry of the period, and it is enabled.
HasEntry(plugin, period) ==
    plugin # Nothing /\ period \in DOMAIN plugin /\ plugin[period].enabled

ReadPeriodicConfig(plugin, core, period) ==
    IF HasEntry(plugin, period)
    THEN Config(plugin[period].format, plugin[period].folder, plugin[period].template, period)
    ELSE IF period = "daily" /\ core # Nothing
    THEN Config(core.format, core.folder, core.template, period)
    ELSE Config(<<>>, <<>>, Nothing, period)

\* With files of it that cannot be read or parsed: a damaged file fails the call
\* that comes to it.
ConfigFails(plugin, period, damaged) ==
    \/ "plugin" \in damaged
    \/ "core" \in damaged /\ period = "daily" /\ ~HasEntry(plugin, period)

PeriodicNotePath(config, day) == Append(config.folder, FormatDate(config.format, day))

-----------------------------------------------------------------------------
(* Names back to dates.                                                        *)

Tokens(format) == {Chrono(format[i]) : i \in DOMAIN format}

\* A year, month and day or an ISO week and its day make a date.
Determine(tokens) == {"Y", "M", "D"} \subseteq tokens \/ {"G", "V", "u"} \subseteq tokens

\* The dates a name can stand for once the fields of more are added to it.
Read(name, format, more) ==
    IF ~Determine(Tokens(format) \cup DOMAIN more) THEN {}
    ELSE {d \in Days : /\ \A i \in DOMAIN name : Calendar[d][name[i][1]] = name[i][2]
                       /\ \A f \in DOMAIN more : Calendar[d][f] = more[f]}

TheDate(S) == IF S = {} THEN Nothing ELSE CHOOSE d \in S : TRUE

\* try_parse_quarter_date: the first day of the quarter of a year.
ParseQuarter(name, format) ==
    LET field(t) == name[CHOOSE i \in DOMAIN name : name[i][1] = t][2] IN
    IF Tokens(format) # {"Y", "Q"} THEN Nothing
    ELSE TheDate(Read(name, format, [M |-> 3 * (field("Q") - 1) + 1, D |-> 1, Y |-> field("Y")]))

\* Mutant: a week has no day to stand for it.
ParseWithoutWeek(name, format) ==
    LET tries == <<Read(name, format, <<>>), Read(name, format, [D |-> 1]),
                   Read(name, format, [M |-> 1, D |-> 1])>>
        good  == {i \in DOMAIN tries : tries[i] # {}}
    IN IF Len(name) # Len(format)
          \/ \E i \in DOMAIN name : name[i][1] # Chrono(format[i]) THEN Nothing
       ELSE IF "Q" \in Tokens(format) THEN ParseQuarter(name, format)
       ELSE IF good = {} THEN Nothing ELSE TheDate(tries[Min(good)])

\* try_parse_date: as it is, with the Monday of its week, the first of its
\* month, the first of its year.
TryParseDate(name, format) ==
    LET weekly == IF Tokens(format) \cap {"G", "V"} = {} THEN {}
                  ELSE Read(name, format, [u |-> 1])
        tries  == <<Read(name, format, <<>>), weekly, Read(name, format, [D |-> 1]),
                    Read(name, format, [M |-> 1, D |-> 1])>>
        good   == {i \in DOMAIN tries : tries[i] # {}}
    IN IF Len(name) # Len(format)
          \/ \E i \in DOMAIN name : name[i][1] # Chrono(format[i]) THEN Nothing
       ELSE IF "Q" \in Tokens(format) THEN ParseQuarter(name, format)
       ELSE IF good = {} THEN Nothing ELSE TheDate(tries[Min(good)])

\* The notes of the folder whose names are dates, the newest first. The walk goes
\* below the folder as well, but the name of a file there has a "/" in it, which
\* the format of a single name does not take. Formats with a "/" are left out.
ListRecentPeriodicNotes(files, names, config, limit) ==
    LET in(p)   == Len(p) = Len(config.folder) + 1 /\ IsPrefix(config.folder, p)
                   /\ Last(p) \in names
        date(p) == TryParseDate(Last(p), config.format)
        dated   == {p \in files : in(p) /\ date(p) # Nothing}
        sorted  == CHOOSE s \in SetToSeqs(dated) :
                       \A i, j \in DOMAIN s : i < j => date(s[i]) >= date(s[j])
    IN SubSeq(sorted, 1, Min({limit, Len(sorted)}))
=============================================================================
