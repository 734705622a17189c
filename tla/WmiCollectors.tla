---------------------------- MODULE WmiCollectors ---------------------------
(* The collectors of builtins/collector/windows/wmi.  Each is one query or   *)
(* two, one for each class; a query that fails is an error of the run, and   *)
(* the context is tested for every item of an answer.                        *)
EXTENDS CollectorRun

WmiRefusals == {"bad config file", "bad metric name regex", "bad run_ttl"}

Query(class, metrics) ==
    << Ends({class \o " query fails"}, "fail"),
       Cancelled("left"),
       Gives(metrics) >>

(* The include and exclude expressions are applied to the cleaned name.      *)
NamedItems(class, metrics) ==
    << Ends({class \o " query fails"}, "fail"),
       Cancelled("left"),
       Unless({"total excluded"}, {"total"}),
       Unless({"item excluded"}, metrics) >>

(* A class that is switched off is not asked for.                            *)
Switched(off, steps, holding) == IF off \in holding THEN << >> ELSE steps

WmiCache    == Query("cache", {"copy_reads"})
NewWmiCache == WmiRefusals

WmiDisk(holding) ==
    Switched("logical off", NamedItems("logical", {"free of C:"}), holding)
        \o Switched("physical off", NamedItems("physical", {"reads of 0 C:"}), holding)
NewWmiDisk ==
    WmiRefusals \cup {"bad logical_disks", "bad physical_disks", "bad include regex", "bad exclude regex"}

WmiMemory    == Query("memory", {"available"})
NewWmiMemory == WmiRefusals

WmiInterface    == NamedItems("interface", {"sent of eth0"})
NewWmiInterface == WmiRefusals \cup {"bad include regex", "bad exclude regex"}

WmiIP(holding) ==
    Switched("ipv4 off", Query("ipv4", {"ipv4"}), holding)
        \o Switched("ipv6 off", Query("ipv6", {"ipv6"}), holding)
NewWmiIP       == WmiRefusals \cup {"bad enable_ipv4", "bad enable_ipv6"}

WmiTCP(holding) ==
    Switched("ipv4 off", Query("ipv4", {"tcpv4"}), holding)
        \o Switched("ipv6 off", Query("ipv6", {"tcpv6"}), holding)
NewWmiTCP       == WmiRefusals \cup {"bad enable_ipv4", "bad enable_ipv6"}

WmiUDP(holding) ==
    Switched("ipv4 off", Query("ipv4", {"udpv4"}), holding)
        \o Switched("ipv6 off", Query("ipv6", {"udpv6"}), holding)
NewWmiUDP       == WmiRefusals \cup {"bad enable_ipv4", "bad enable_ipv6"}

WmiObjects    == Query("objects", {"processes", "threads"})
NewWmiObjects == WmiRefusals

WmiPagingFile    == NamedItems("paging file", {"usage of pagefile"})
NewWmiPagingFile == WmiRefusals \cup {"bad include regex", "bad exclude regex"}

WmiProcesses    == NamedItems("processes", {"threads of a process"})
NewWmiProcesses == WmiRefusals \cup {"bad include regex", "bad exclude regex"}

(* Without the option only the total is reported.                            *)
WmiProcessor ==
    << Ends({"processor query fails"}, "fail"),
       Cancelled("left"),
       Gives({"total"}),
       Unless({"all cpus off"}, {"cpu 0"}) >>
NewWmiProcessor == WmiRefusals \cup {"bad report_all_cpus"}

WmiSystem    == Query("system", {"context_switches"})
NewWmiSystem == WmiRefusals

WmiCollect(name, holding) ==
    CASE name = "cache"       -> WmiCache
      [] name = "disk"        -> WmiDisk(holding)
      [] name = "memory"      -> WmiMemory
      [] name = "interface"   -> WmiInterface
      [] name = "ip"          -> WmiIP(holding)
      [] name = "tcp"         -> WmiTCP(holding)
      [] name = "udp"         -> WmiUDP(holding)
      [] name = "objects"     -> WmiObjects
      [] name = "paging_file" -> WmiPagingFile
      [] name = "processes"   -> WmiProcesses
      [] name = "processor"   -> WmiProcessor
      [] name = "system"      -> WmiSystem

NewWmi(name) ==
    CASE name = "cache"       -> NewWmiCache
      [] name = "disk"        -> NewWmiDisk
      [] name = "memory"      -> NewWmiMemory
      [] name = "interface"   -> NewWmiInterface
      [] name = "ip"          -> NewWmiIP
      [] name = "tcp"         -> NewWmiTCP
      [] name = "udp"         -> NewWmiUDP
      [] name = "objects"     -> NewWmiObjects
      [] name = "paging_file" -> NewWmiPagingFile
      [] name = "processes"   -> NewWmiProcesses
      [] name = "processor"   -> NewWmiProcessor
      [] name = "system"      -> NewWmiSystem

WmiNames == {"cache", "disk", "memory", "interface", "ip", "tcp", "udp", "objects",
             "paging_file", "processes", "processor", "system"}
=============================================================================
