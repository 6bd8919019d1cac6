----------------------------- MODULE MCSslDaemon -----------------------------
(* Values for TLC: bodies of two bytes and of one, and a response without. *)
EXTENDS SslDaemon, TLC

ThreeResponses == <<1, 2, 0>>

-----------------------------------------------------------------------------
(* How the processes are told their ports, over short command lines.          *)

CL == INSTANCE CommandLine

Word(word) == [word |-> word, reads |-> "nothing", number |-> 0]
PortNumber(n) == [word |-> "port", reads |-> "number", number |-> n]

Arguments == {Word(w) : w \in {"-p", "-l", "-c", "-o", "--help", "x"}}
             \cup {PortNumber(0), PortNumber(4444)}

CommandLines == UNION {[1 .. n -> Arguments] : n \in 0 .. 4}

(* What the arguments say: options and values in turn, none of them refused. *)
OptionAt(args, k, Option(_)) == Option(args[2 * k - 1].word)

ValueAt(args, k, Option(_), Read(_)) ==
    IF OptionAt(args, k, Option) = "cachePath" THEN [path |-> args[2 * k].word]
    ELSE [port |-> Read(args[2 * k])]

Says(args, Option(_), Read(_)) ==
    /\ Len(args) % 2 = 0
    /\ \A k \in 1 .. Len(args) \div 2 :
          /\ OptionAt(args, k, Option) \notin {"help", "unknown"}
          /\ ValueAt(args, k, Option, Read) # [port |-> CL!Refused]

(* The last value that was given of each option. *)
LastValues(args, config, Option(_), Read(_)) ==
    \A k \in 1 .. Len(args) \div 2 :
       (\A l \in k + 1 .. Len(args) \div 2 : OptionAt(args, l, Option) # OptionAt(args, k, Option))
          => config[OptionAt(args, k, Option)] = ValueAt(args, k, Option, Read)

(* A command line starts a process exactly if every option on it is known and *)
(* has its value, and the last value of an option counts.                     *)
ASSUME EveryOptionIsRead ==
    \A args \in CommandLines :
       LET daemon == CL!DaemonArgsParser(args)
           rest == CL!RestServerArgsParser(<<Word("http-server")>> \o args)
           player == CL!PlayerArgsParser(<<Word("elevation-player")>> \o args)
       IN  /\ "config" \in DOMAIN daemon <=> Says(args, CL!DaemonOption, CL!DaemonPort)
           /\ "config" \in DOMAIN rest <=> args # <<>> /\ Says(args, CL!RestOption, CL!RestPort)
           /\ "config" \in DOMAIN player <=> args # <<>> /\ Says(args, CL!PlayerOption, CL!PlayerPort)
           /\ "config" \in DOMAIN daemon
                 => LastValues(args, daemon.config, CL!DaemonOption, CL!DaemonPort)
           /\ "config" \in DOMAIN rest
                 => LastValues(args, rest.config, CL!RestOption, CL!RestPort)

(* The three agree on what is a port, and on nothing else: one too large is   *)
(* cut to 16 bits, or taken for the largest, or another one.                  *)
ASSUME PortsAgree ==
    \A n \in {1, 80, 443, 7777, 65535} :
       \A Read \in {CL!RestPort(PortNumber(n)), CL!PlayerPort(PortNumber(n)),
                     CL!DaemonPort(PortNumber(n))} : Read = n

ASSUME LargePortsDiffer ==
    /\ CL!RestPort(PortNumber(65536)) = 0
    /\ CL!RestPort(PortNumber(70000)) = 4464 /\ CL!DaemonPort(PortNumber(70000)) = 4464
    /\ CL!PlayerPort(PortNumber(70000)) = 65535
=============================================================================
