------------------------- MODULE GenericCollectors --------------------------
(* The collectors of builtins/collector/generic, over gopsutil.  A failed    *)
(* call is only logged: Collect ends well with what it has, and a value that *)
(* is not a number is left out.                                              *)
EXTENDS CollectorRun

GenericRefusals == {"bad config file", "bad run_ttl"}

GenericCPU ==
    << Unless({"percent fails", "percent not a number"}, {"cpu_used"}),
       Ends({"times fails"}, "stop"),
       Unless({"user not a number"}, {"cpu_user"}),
       Gives({"cpu_idle"}) >>

NewGenericCPU == GenericRefusals \cup {"bad report_all_cpus"}

GenericDisk ==
    << Ends({"io counters fail"}, "stop"),
       Gives({"reads", "writes"}) >>

NewGenericDisk == GenericRefusals

(* Percentages of an empty filesystem are not numbers.                       *)
GenericFS ==
    << Ends({"partitions fail"}, "stop"),
       Unless({"fs excluded", "fs type excluded", "usage fails"}, {"total"}),
       Unless({"fs excluded", "fs type excluded", "usage fails", "used not a number"}, {"used percent"}) >>

NewGenericFS ==
    GenericRefusals \cup {"bad include regex", "bad exclude regex", "bad include_all_devices"}

GenericLoad ==
    << Unless({"avg fails", "load not a number"}, {"load_1min"}),
       Ends({"misc fails"}, "stop"),
       Gives({"running", "ctxt"}) >>

NewGenericLoad == GenericRefusals

GenericIF ==
    << Ends({"io counters fail"}, "stop"),
       Unless({"interface excluded"}, {"sent", "recv"}) >>

NewGenericIF == GenericRefusals \cup {"bad include regex", "bad exclude regex"}

(* A counter is a metric whatever its name; the names that are known have a  *)
(* unit.                                                                     *)
GenericEmitIP      == << Gives({"ip"}) >>
GenericEmitICMP    == << Gives({"icmp"}) >>
GenericEmitICMPMsg == << Gives({"icmpmsg"}) >>
GenericEmitTCP     == << Gives({"tcp"}) >>
GenericEmitUDP     == << Gives({"udp"}) >>
GenericEmitUDPLite == << Gives({"udplite"}) >>

(* No counters is an error that Collect returns without setStatus.           *)
GenericProto ==
    << Ends({"counters fail"}, "stop"),
       Ends({"no counters"}, "left") >>
    \o GenericEmitIP \o GenericEmitICMP \o GenericEmitICMPMsg
    \o GenericEmitTCP \o GenericEmitUDP \o GenericEmitUDPLite

NewGenericProto == GenericRefusals

GenericVM ==
    << Unless({"swap fails"}, {"swap_total"}),
       Unless({"swap fails", "swap used not a number"}, {"swap_used percent"}),
       Ends({"memory fails"}, "stop"),
       Gives({"memory_total"}),
       Unless({"memory used not a number"}, {"memory_used percent"}) >>

NewGenericVM == GenericRefusals

GenericCollect(name) ==
    CASE name = "cpu"   -> GenericCPU
      [] name = "disk"  -> GenericDisk
      [] name = "fs"    -> GenericFS
      [] name = "load"  -> GenericLoad
      [] name = "if"    -> GenericIF
      [] name = "proto" -> GenericProto
      [] name = "vm"    -> GenericVM

NewGeneric(name) ==
    CASE name = "cpu"   -> NewGenericCPU
      [] name = "disk"  -> NewGenericDisk
      [] name = "fs"    -> NewGenericFS
      [] name = "load"  -> NewGenericLoad
      [] name = "if"    -> NewGenericIF
      [] name = "proto" -> NewGenericProto
      [] name = "vm"    -> NewGenericVM

GenericNames == {"cpu", "disk", "fs", "load", "if", "proto", "vm"}
=============================================================================
