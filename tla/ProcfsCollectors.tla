-------------------------- MODULE ProcfsCollectors --------------------------
(* The collectors of builtins/collector/linux/procfs: what Collect does, and *)
(* the options for which the constructor returns an error.  The lines of a   *)
(* file stand for the lines of their kind.                                   *)
EXTENDS CollectorRun

(* A configuration that exists and cannot be loaded, a run TTL that is no    *)
(* duration, and a file of /proc that is not there refuse every one.         *)
ProcfsRefusals == {"bad config file", "bad run_ttl", "no proc file"}

(* A field that is no number ends the run.  Counters that did not move since *)
(* the run before give 0/0.                                                  *)
ParseCPU ==
    << Ends({"cpu field unparsable"}, "fail"),
       Gives({"cpu_user", "cpu_idle"}),
       NaN({"counters unchanged"}, {"cpu_used"}) >>

(* "cpu" is both the id and the prefix of the lines: under another id no     *)
(* line is a cpu line.                                                       *)
ProcfsCPU(holding) ==
    << Ends({"stat unreadable"}, "fail"),
       Gives({"num_cpu"}),
       Cancelled("left"),
       Unless({"count unparsable"}, {"processes"}) >>
    \o (IF "renamed" \in holding THEN << >> ELSE ParseCPU)

NewProcfsCPU == ProcfsRefusals \cup {"bad clock_hz", "bad report_all_cpus"}

(* One line of diskstats: a line that is short or has a field that is no     *)
(* number is dropped as a whole.                                             *)
ParseDisk(device, metrics) ==
    Unless({device \o " line short", device \o " field unparsable", device \o " excluded"}, metrics)

(* The timings of an array include those of its members.  The path of mdstat *)
(* is made by replacing the id in the path of diskstats, which only gives    *)
(* /proc/mdstat for the id that is the name of that file: under any other id *)
(* the file read is not there, and that is not an error.                     *)
MdMembers(holding) ==
    IF "id is diskstats" \in holding
    THEN << Unless({"no mdstat", "mdstat line short", "md0 line short", "md0 field unparsable", "md0 excluded"},
                   {"timings of md0's members"}) >>
    ELSE << >>

(* Returns the error of the read without setStatus.                          *)
DiskForgetsStatus(holding) ==
    << Ends({"diskstats unreadable"}, "left"),
       ParseDisk("sda", {"reads of sda"}) >>

ProcfsDisk(holding) ==
    << Ends({"diskstats unreadable"}, "fail"),
       Cancelled("left"),
       ParseDisk("sda", {"reads of sda"}),
       ParseDisk("md0", {"timings of md0"}) >>
    \o MdMembers(holding)

NewProcfsDisk == ProcfsRefusals \cup {"bad include regex", "bad exclude regex", "bad sector size"}

(* Returns the error of a line without setStatus.                            *)
LoadLeavesOnBadLine ==
    << Ends({"loadavg unreadable"}, "fail"),
       Gives({"load_1min", "load_5min", "load_15min"}),
       Ends({"stat unreadable"}, "fail"),
       Ends({"stat line unparsable"}, "left"),
       Gives({"total", "ctxt"}) >>

(* A line of stat that does not parse ends Collect with an error, but what   *)
(* is passed to setStatus is the error of the read before, which is nil.     *)
ProcfsLoad ==
    << Ends({"loadavg unreadable"}, "fail"),
       Cancelled("left"),
       Unless({"loadavg line short", "1min unparsable"}, {"load_1min"}),
       Unless({"loadavg line short", "1min unparsable", "5min unparsable"}, {"load_5min"}),
       Unless({"loadavg line short", "1min unparsable", "5min unparsable", "15min unparsable"}, {"load_15min"}),
       Ends({"stat unreadable"}, "fail"),
       Ends({"stat line unparsable"}, "tell"),
       Gives({"total", "ctxt"}) >>

NewProcfsLoad == ProcfsRefusals

NetDev ==
    << Ends({"net/dev unreadable"}, "fail"),
       Cancelled("fail"),
       Unless({"interface excluded", "field count wrong", "recv unparsable"}, {"recv"}),
       Unless({"interface excluded", "field count wrong"}, {"sent"}) >>

NewProcfsIF == ProcfsRefusals \cup {"bad include regex", "bad exclude regex"}

(* A number of a protocol is a metric whatever its name; the names that are  *)
(* known have a unit.                                                        *)
Emit(proto) == Unless({proto \o " excluded", proto \o " field unparsable"}, {proto})
EmitIP      == << Emit("ip"), Emit("ip6") >>
EmitICMP    == << Emit("icmp"), Emit("icmp6") >>
EmitICMPMsg == << Emit("icmpmsg") >>
EmitTCP     == << Emit("tcp") >>
EmitUDP     == << Emit("udp"), Emit("udp6") >>
EmitUDPLite == << Emit("udplite"), Emit("udplite6") >>

(* snmp6 is read as snmp is: without IPv6 the kernel has no such file, and   *)
(* the metrics of IPv4 are lost with it.                                     *)
Snmp ==
    << Ends({"snmp unreadable"}, "fail"),
       Cancelled("fail"),
       Ends({"snmp6 unreadable"}, "fail") >>
    \o EmitIP \o EmitICMP \o EmitICMPMsg \o EmitTCP \o EmitUDP \o EmitUDPLite

NewProcfsProto == ProcfsRefusals \cup {"bad include regex", "bad exclude regex"}

(* A line with another number of fields is dropped, and so is what comes     *)
(* after a field that is no number.                                          *)
SockLine(kind, metrics) == Unless({kind \o " line of wrong length", kind \o " unparsable"}, metrics)
SocketsLine == << SockLine("sockets", {"used"}) >>
TCPLine ==
    LET stop(n) == {"tcp line of wrong length"} \cup
            {<<"tcp inuse unparsable", "tcp orphan unparsable", "tcp tw unparsable",
               "tcp alloc unparsable">>[i] : i \in 1 .. n}
    IN  << Unless(stop(1), {"tcp inuse"}), Unless(stop(2), {"tcp orphan"}),
           Unless(stop(3), {"tcp time_wait"}), Unless(stop(4), {"tcp allocated"}) >>
UDPLine     == << SockLine("udp", {"udp inuse"}) >>
UDPLiteLine == << SockLine("udplite", {"udplite inuse"}) >>
RawLine     == << SockLine("raw", {"raw inuse"}) >>
FragLine    == << SockLine("frag", {"frag inuse"}) >>

(* Here the error is only logged, a context that is done included: Collect   *)
(* ends well with what it has.                                               *)
Sockstat ==
    << Ends({"sockstat unreadable"}, "stop"),
       Cancelled("stop") >>
    \o SocketsLine \o TCPLine \o UDPLine \o UDPLiteLine \o RawLine \o FragLine

Sockstat6 ==
    << Ends({"sockstat6 unreadable"}, "stop"),
       SockLine("tcp6", {"tcp6 inuse"}), SockLine("udp6", {"udp6 inuse"}),
       SockLine("udplite6", {"udplite6 inuse"}), SockLine("raw6", {"raw6 inuse"}),
       SockLine("frag6", {"frag6 inuse"}) >>

NewProcfsSocket == ProcfsRefusals \cup {"bad include regex", "bad exclude regex"}

(* The percentages divide by MemTotal.                                       *)
Meminfo ==
    << Ends({"meminfo unreadable"}, "fail"),
       Cancelled("fail"),
       Unless({"dirty unparsable"}, {"dirty"}),
       NaN({"no MemTotal"}, {"memory_used"}) >>

VMstat ==
    << Ends({"vmstat unreadable"}, "fail"),
       Gives({"pg_fault"}) >>

NewProcfsVM == ProcfsRefusals

ProcfsCollect(name, holding) ==
    CASE name = "cpu"    -> ProcfsCPU(holding)
      [] name = "disk"   -> ProcfsDisk(holding)
      [] name = "load"   -> ProcfsLoad
      [] name = "if"     -> NetDev
      [] name = "proto"  -> Snmp
      [] name = "socket" -> Sockstat \o Sockstat6
      [] name = "vm"     -> Meminfo \o VMstat

NewProcfs(name) ==
    CASE name = "cpu"    -> NewProcfsCPU
      [] name = "disk"   -> NewProcfsDisk
      [] name = "load"   -> NewProcfsLoad
      [] name = "if"     -> NewProcfsIF
      [] name = "proto"  -> NewProcfsProto
      [] name = "socket" -> NewProcfsSocket
      [] name = "vm"     -> NewProcfsVM

ProcfsNames == {"cpu", "disk", "load", "if", "proto", "socket", "vm"}
=============================================================================
