----------------------------- MODULE CommandLine -----------------------------
(***************************************************************************)
(* What the four processes make of their arguments: RestServerArgsParser    *)
(* (http and https server), the player's ArgsParser and the SSL daemon's.   *)
(*                                                                          *)
(* An argument is its word and what it reads as: no number, a number, or    *)
(* one too large for 32 bits.                                               *)
(***************************************************************************)
EXTENDS Integers, SequencesExt

Argument == [word : STRING, reads : {"nothing", "number", "too large"}, number : Int]

(* Instead of a port; an exception. *)
Refused == -1

-----------------------------------------------------------------------------
(* The ports *)

(* parsePort_: read as uint32_t, returned as uint16_t. *)
RestPort(arg) == CASE arg.reads = "nothing"                      -> Refused
                   [] arg.reads = "too large"                    -> 65535
                   [] arg.reads = "number" /\ arg.number = 0     -> Refused
                   [] arg.reads = "number" /\ arg.number # 0     -> arg.number % 65536

(* Read as uint16_t: the stream fails on what is larger, which nobody looks  *)
(* at, and leaves the largest; a minus sign is taken.                        *)
PlayerPort(arg) == CASE arg.reads = "nothing"                    -> Refused
                     [] arg.reads = "number" /\ arg.number = 0   -> Refused
                     [] /\ arg.reads = "number" /\ arg.number # 0
                        /\ arg.number \in -65535 .. 65535        -> arg.number % 65536
                     [] OTHER                                    -> 65535

(* std::stoi, cut to uint16_t. *)
DaemonPort(arg) == IF arg.reads = "number" THEN arg.number % 65536 ELSE Refused

-----------------------------------------------------------------------------
(* The options *)

RestOption(word) == CASE word \in {"-c", "--cache-path"}  -> "cachePath"
                      [] word \in {"-p", "--port"}        -> "port"
                      [] word \in {"-l", "--player-port"} -> "playerPort"
                      [] word \in {"-h", "--help"}        -> "help"
                      [] OTHER                            -> "unknown"

PlayerOption(word) == CASE word \in {"-c", "--cache-path"} -> "cachePath"
                        [] word \in {"-p", "--port"}       -> "port"
                        [] word \in {"-h", "--help"}       -> "help"
                        [] OTHER                           -> "unknown"

DaemonOption(word) == CASE word = "-l"                 -> "listenPort"
                        [] word = "-o"                 -> "outputPort"
                        [] word \in {"-h", "--help"}   -> "help"
                        [] OTHER                       -> "unknown"

-----------------------------------------------------------------------------
(* The loop over the arguments.  expects is the option whose value comes;   *)
(* end is "" while the loop goes on.  An option that is given twice counts  *)
(* the second time; one that is not given is not in config.                 *)

Start(config) == [expects |-> "nothing", config |-> config, end |-> ""]

With(config, option, value) ==
    [o \in DOMAIN config \cup {option} |-> IF o = option THEN value ELSE config[o]]

TakeValue(state, value) ==
    IF value = [port |-> Refused] THEN [state EXCEPT !.end = "invalid argument"]
    ELSE [state EXCEPT !.expects = "nothing", !.config = With(@, state.expects, value)]

TakeOption(state, option) ==
    CASE option = "help"    -> [state EXCEPT !.end = "help"]
      [] option = "unknown" -> [state EXCEPT !.end = "invalid argument"]
      [] OTHER              -> [state EXCEPT !.expects = option]

(* Each argument as the option it names, the port it reads as and its word. *)
Loop(args, config) ==
    LET Take(state, arg) ==
            IF state.end # "" THEN state
            ELSE IF state.expects = "nothing" THEN TakeOption(state, arg.option)
            ELSE TakeValue(state, IF state.expects = "cachePath" THEN [path |-> arg.word]
                                  ELSE [port |-> arg.port])
        last == FoldLeft(Take, Start(config), args)
    IN  CASE last.end # ""                                 -> [end |-> last.end]
          [] last.end = "" /\ last.expects # "nothing"     -> [end |-> "invalid argument"]
          [] last.end = "" /\ last.expects = "nothing"     -> [config |-> last.config]

RestReads(arg) == [word |-> arg.word, option |-> RestOption(arg.word), port |-> RestPort(arg)]

PlayerReads(arg) ==
    [word |-> arg.word, option |-> PlayerOption(arg.word), port |-> PlayerPort(arg)]

DaemonReads(arg) ==
    [word |-> arg.word, option |-> DaemonOption(arg.word), port |-> DaemonPort(arg)]

(* The first of these arguments is the program's name. *)
Required(args, config) == IF Len(args) < 2 THEN [end |-> "usage"] ELSE config

Nothing == [option \in {} |-> [port |-> 0]]

RestServerArgsParser(args) ==
    Required(args, Loop([i \in 1 .. Len(args) - 1 |-> RestReads(args[i + 1])], Nothing))

PlayerArgsParser(args) ==
    Required(args, Loop([i \in 1 .. Len(args) - 1 |-> PlayerReads(args[i + 1])], Nothing))

DaemonArgsParser(args) ==
    Loop([i \in 1 .. Len(args) |-> DaemonReads(args[i])],
         [listenPort |-> [port |-> 443], outputPort |-> [port |-> 7777]])
=============================================================================
