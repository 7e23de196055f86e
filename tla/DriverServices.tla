--------------------------- MODULE DriverServices ---------------------------
(***************************************************************************)
(* The services of the three drivers: ai_shield_driverctl installing,      *)
(* starting, stopping and removing them one after the other, the service   *)
(* manager that does it, and what the drivers' entry and unload routines   *)
(* register in the kernel and take back.                                   *)
(***************************************************************************)
EXTENDS Integers, Sequences

CONSTANT MaxBoots       \* bound on the restarts of the machine

ASSUME BootAssumption == MaxBoots \in Nat

VARIABLES
    service,    \* the service manager's entry of each driver
    loaded,     \* what each driver has registered in the kernel
    running,    \* the drivers in the kernel
    leaving,    \* those of them that go as soon as their device is closed
    opened,     \* the drivers whose device a program has open
    tool,       \* the driverctl that runs, or how the last one ended
    boots       \* restarts of the machine

serviceVars == <<service, loaded, running, leaving, opened, tool, boots>>

\* service_specs, in this order.
Specs == <<"wfp", "minifilter", "process">>
DriverNames == {Specs[i] : i \in 1 .. Len(Specs)}

NoService == [is |-> "absent", configured |-> FALSE, marked |-> FALSE]
Ready  == [is |-> "idle"]

\* An entry: whether the minifilter's instance is in the registry, and whether the
\* service is marked for deletion.
ServiceEntry(configured) == [is |-> "entry", configured |-> configured, marked |-> FALSE]

Installed(d) == service[d] # NoService

ServicesInit ==
    /\ service = [d \in DriverNames |-> NoService]
    /\ loaded = [d \in DriverNames |-> {}]
    /\ running = {} /\ leaving = {} /\ opened = {}
    /\ tool = Ready /\ boots = 0

-----------------------------------------------------------------------------
(* The drivers *)

\* What DriverEntry registers, in this order.
Stages(d) ==
    CASE d = "wfp"        -> <<"device", "link", "redirect", "callouts", "engine", "filters">>
      [] d = "minifilter" -> <<"device", "link", "filter", "port", "filtering">>
      [] d = "process"    -> <<"device", "link", "create_notify", "image_notify", "object_callbacks">>

FirstStages(d, n) == {Stages(d)[i] : i \in 1 .. n}

\* What is left when DriverEntry fails after its first n registrations: the unload routine,
\* or its like, takes back what there is.  The minifilter that cannot start filtering
\* unregisters its filter with the port still open.
AfterFailure(d, n) == IF d = "minifilter" /\ n = 4 THEN {"port"} ELSE {}

\* A minifilter needs its altitude to register.
EntrySucceeds(d) ==
    /\ d = "minifilter" => service[d].configured
    /\ loaded' = [loaded EXCEPT ![d] = FirstStages(d, Len(Stages(d)))]
    /\ running' = running \union {d}

EntryFails(d) ==
    /\ loaded' \in {[loaded EXCEPT ![d] = AfterFailure(d, n)] : n \in 0 .. Len(Stages(d)) - 1}
    /\ UNCHANGED running

\* An entry marked for deletion goes when nothing uses it any more.
Swept(entries, alive) ==
    [d \in DriverNames |->
        IF entries[d].marked /\ d \notin alive THEN NoService ELSE entries[d]]

Unload(d) ==
    /\ loaded' = [loaded EXCEPT ![d] = {}]
    /\ running' = running \ {d} /\ leaving' = leaving \ {d}

OpenDevice(d) ==
    /\ d \in running \ (leaving \union opened)
    /\ opened' = opened \union {d}
    /\ UNCHANGED <<service, loaded, running, leaving, tool, boots>>

CloseDevice(d) ==
    /\ d \in opened
    /\ opened' = opened \ {d}
    /\ IF d \in leaving
         THEN Unload(d) /\ service' = Swept(service, running \ {d})
         ELSE UNCHANGED <<service, loaded, running, leaving>>
    /\ UNCHANGED <<tool, boots>>

\* The service manager stops a driver: at once, when its device is closed, or not at all.
\* It answers TRUE in the first two cases and when the driver does not run.
Stop(d) ==
    IF d \in opened THEN leaving' = leaving \union {d} /\ UNCHANGED <<loaded, running>>
                    ELSE Unload(d)

-----------------------------------------------------------------------------
(* driverctl *)

\* A command begins; without the service manager it ends with 2.
Command(name) ==
    /\ tool.is \in {"idle", "done"}
    /\ tool' = [is |-> "runs", command |-> name, at |-> 1, served |-> {}, ok |-> TRUE]
    /\ UNCHANGED <<service, loaded, running, leaving, opened, boots>>

\* install takes three flags with a path as they come, the same one more than once too; the
\* others go through service_specs.
Turn(name, d) ==
    /\ tool.is = "runs" /\ tool.command = name
    /\ name # "install" => d = Specs[tool.at]

\* ok = ... && ok: a failure does not end the command.
Proceed(d, result) ==
    tool' = IF tool.at < Len(Specs)
            THEN [tool EXCEPT !.at = @ + 1, !.served = @ \union {d}, !.ok = @ /\ result]
            ELSE [is |-> "done", command |-> tool.command, served |-> tool.served \union {d},
                  ok |-> tool.ok /\ result]

\* Fault: the registry of the instance may fail.
Configure_Ignored(d, configured) == TRUE

\* The minifilter's instance is written to the registry, or the service counts as not
\* installed.
Configure(d, configured) == d = "minifilter" => configured

\* install_service: an entry there keeps its image path and gets its start type again.
InstallService(d) ==
    /\ Turn("install", d)
    /\ \/ /\ ~service[d].marked
          /\ \E configured \in BOOLEAN :
               /\ service' = [service EXCEPT ![d] =
                     ServiceEntry(configured \/ @.configured)]
               /\ Proceed(d, Configure(d, configured))
       \* the file is not there, the entry is marked, or the service manager refuses
       \/ Proceed(d, FALSE) /\ UNCHANGED service
    /\ UNCHANGED <<loaded, running, leaving, opened, boots>>

StartService(d) ==
    /\ Turn("start", d)
    /\ \/ /\ Installed(d) /\ ~service[d].marked /\ d \notin running
          /\ \/ EntrySucceeds(d) /\ Proceed(d, TRUE)
             \/ EntryFails(d) /\ Proceed(d, FALSE)
       \/ /\ d \in running \ leaving /\ Installed(d)
          /\ Proceed(d, TRUE) /\ UNCHANGED <<loaded, running>>
       \/ Proceed(d, FALSE) /\ UNCHANGED <<loaded, running>>
    /\ UNCHANGED <<service, leaving, opened, boots>>

\* stop_service: neither a missing service nor one that does not run is an error.
StopService(d) ==
    /\ Turn("stop", d)
    /\ \/ /\ d \in running /\ Stop(d)
          /\ service' = Swept(service, running') /\ Proceed(d, TRUE)
       \/ /\ d \notin running /\ Proceed(d, TRUE)
          /\ UNCHANGED <<service, loaded, running, leaving>>
       \/ Proceed(d, FALSE) /\ UNCHANGED <<service, loaded, running, leaving>>
    /\ UNCHANGED <<opened, boots>>

\* A driver that runs on is marked for deletion.
Removed(d, alive) ==
    [service EXCEPT ![d] = IF d \in alive THEN [@ EXCEPT !.marked = TRUE] ELSE NoService]

\* uninstall_service: the stop may fail, the entry is deleted all the same.
UninstallService(d) ==
    /\ Turn("uninstall", d)
    /\ \/ /\ ~Installed(d)
          /\ Proceed(d, TRUE) /\ UNCHANGED <<service, loaded, running, leaving>>
       \/ /\ Installed(d) /\ ~service[d].marked
          /\ \/ d \in running /\ Stop(d)
             \/ UNCHANGED <<loaded, running, leaving>>
          /\ service' = Removed(d, running') /\ Proceed(d, TRUE)
       \/ Proceed(d, FALSE) /\ UNCHANGED <<service, loaded, running, leaving>>
    /\ UNCHANGED <<opened, boots>>

\* The command is interrupted.
Interrupt ==
    /\ tool.is = "runs"
    /\ tool' = Ready
    /\ UNCHANGED <<service, loaded, running, leaving, opened, boots>>

\* The machine restarts: marked entries are gone, system-start drivers are loaded, but for
\* one that fails.
Boot ==
    /\ boots < MaxBoots
    /\ boots' = boots + 1
    /\ service' = Swept(service, {})
    /\ opened' = {} /\ leaving' = {} /\ tool' = Ready
    /\ \E failed \in SUBSET {d \in DriverNames : service'[d] # NoService} :
         /\ running' = {d \in DriverNames : service'[d] # NoService} \ failed
         /\ \A d \in running' : d = "minifilter" => service'[d].configured
         /\ loaded' \in {[d \in DriverNames |->
                             IF d \in running' THEN FirstStages(d, Len(Stages(d)))
                             ELSE IF d \in failed THEN AfterFailure(d, last)
                             ELSE {}] : last \in 0 .. 4}

Commands == {"install", "start", "stop", "uninstall"}

ServicesNext ==
    \/ \E name \in Commands : Command(name)
    \/ \E d \in DriverNames :
         \/ InstallService(d) \/ StartService(d) \/ StopService(d) \/ UninstallService(d)
         \/ OpenDevice(d) \/ CloseDevice(d)
    \/ Interrupt \/ Boot

-----------------------------------------------------------------------------
(* Properties *)

\* What a command that ended with 0 promised holds, for every service it went through, until
\* the next command or restart: installed drivers can be loaded, started ones run with all
\* they register, stopped ones are about to go or have left nothing in the kernel but perhaps
\* the minifilter's port, and removed ones will not come with the next start of the machine,
\* even if they could not be stopped.  For all but install these are the three drivers; install
\* went through the flags it was given, so a repeated one leaves another driver out.
ExitIsTrue ==
    tool.is = "done" /\ tool.ok =>
        \A d \in tool.served :
            CASE tool.command = "install"   -> /\ Installed(d)
                                               /\ d = "minifilter" => service[d].configured
              [] tool.command = "uninstall" -> Installed(d) => service[d].marked
              [] tool.command = "start"     -> d \in running /\ loaded[d] = FirstStages(d, Len(Stages(d)))
              [] tool.command = "stop"      -> d \in leaving \/ (d \notin running /\ loaded[d] \subseteq {"port"})

=============================================================================
