--------------------------------- MODULE Config ---------------------------------
(***************************************************************************)
(* Global::parse_config: the configuration file and what it says.  The     *)
(* file is a sequence of lines, each a text.  Left out: whether the file   *)
(* can be opened and the save path be written, without which the process   *)
(* ends before any thread is started.                                      *)
(***************************************************************************)
EXTENDS Utility

CONSTANTS
    Lines,          \* the configuration file
    LineMax,        \* what fgets reads at once
    UintMax         \* the largest uint32_t

ASSUME LinesType == \A n \in DOMAIN Lines : Lines[n] \in Seq(STRING)
ASSUME LineMaxType == LineMax \in Nat \ {0}
ASSUME UintMaxType == UintMax \in Nat

\* What the constructor, Global::init and load_default_file_types set before.
Defaults ==
    [SAVEPATH |-> << <<".">> >>, LOGFILEPATH |-> << <<>> >>, ERRFILEPATH |-> << <<>> >>,
     DEPTH |-> << <<"5">> >>, DOWNLOADERS |-> << <<"5">> >>, EXTRACTORS |-> << <<"5">> >>,
     SCHEDULERS |-> << <<"1">> >>, DNSERS |-> << <<"1">> >>,
     CREATE_CONNECTION_TIMEOUT |-> << <<"2">> >>, SEND_TIMEOUT |-> << <<"5">> >>,
     RECV_TIMEOUT |-> << <<"3", "0">> >>,
     FILETYPES |-> << <<".htm">>, <<".html">> >>, SEEDURLS |-> <<>>]

\* A line that is longer than the buffer is read as several.
Pieces(line) ==
    [n \in 1..((Len(line) + LineMax - 1) \div LineMax) |->
        SubSeq(line, (n - 1) * LineMax + 1, Min({n * LineMax, Len(line)}))]

\* Mutant: set_seed_urls takes the name of the setting for the first url.
ApplyWithName(conf, line) ==
    LET items == Split(Trim(line), {" ", "\t"}) IN
    IF Len(items) >= 2 /\ Head(items) \in {<<key>> : key \in DOMAIN conf}
    THEN [conf EXCEPT ![items[1][1]] = Front(items)]
    ELSE conf

\* A line "KEY value ..." replaces what was set for its key; comments and lines
\* with another key or no value are skipped.
Apply(conf, line) ==
    LET text == Trim(line)
        items == Split(text, {" ", "\t"})
    IN  IF /\ Len(items) >= 2 /\ Head(text) # "#"
           /\ Head(items) \in {<<key>> : key \in DOMAIN conf}
        THEN [conf EXCEPT ![items[1][1]] = Tail(items)]
        ELSE conf

ConfiguredBy(lines) ==
    FoldLeft(Apply, Defaults, FlattenSeq([n \in DOMAIN lines |-> Pieces(lines[n])]))
Configured == ConfiguredBy(Lines)

\* A number goes through atoi into a uint32_t; of several values the first counts.
Number(key) == Atoi(Head(Configured[key])) % (UintMax + 1)

-------------------------------------------------------------------------------
(* What a file asks for, read as its user does: by lines of any length. *)

Words(line) == Split(Trim(line), {" ", "\t"})
Sets(line, key) == Len(Words(line)) >= 2 /\ Words(line)[1] = <<key>>
IsLong(line) == Len(line) > LineMax

\* The last line for a key counts.
Asked(lines, key) ==
    LET setting == {n \in DOMAIN lines : Sets(lines[n], key)} IN
    IF setting = {} THEN Defaults[key] ELSE Tail(Words(lines[Max(setting)]))

\* The last line that is about the key is a long one: it sets the key, which loses
\* the values behind the cut, or it has the name of the key for a word, a comment may,
\* which sets the key if the cut is right before it.
IsCut(lines, key) ==
    LET about == {n \in DOMAIN lines :
                     \/ Sets(lines[n], key)
                     \/ IsLong(lines[n]) /\ <<key>> \in ToSet(Words(lines[n]))}
    IN  about # {} /\ IsLong(lines[Max(about)])
===============================================================================
