----------------------------- MODULE Executive -----------------------------
(***************************************************************************)
(* The kernel's life cycle: the boot sequence of app_main, the two state   *)
(* machines with their transition matrices, and the two host commands that *)
(* move applications between states.  The executive is one thread; a       *)
(* restart may strike between any two steps.                               *)
(***************************************************************************)
EXTENDS Naturals

CONSTANTS
    Apps,     \* the applications, mk_app_id_t
    Default   \* MK_APP_BLE_HID, the active application after boot

ASSUME DefaultIsApp == Default \in Apps

VARIABLES
    kernel,     \* kernel.state
    app,        \* the state of each entry of kernel.apps
    activeApp,  \* kernel.active_app
    faulted,    \* whether the fault log holds a refused transition
    stage       \* the step of app_main that comes next
execVars == <<kernel, app, activeApp, faulted, stage>>

KernelStates ==
    {"RESET", "INIT", "READY", "RUNNING", "SLEEPING", "FAULT", "SHUTDOWN"}
AppStates == {"OFF", "INIT", "READY", "ACTIVE", "STOPPING", "ERROR"}
Stages == {"kernel_boot", "fault_init", "kernel_init", "service_init",
           "register_apps", "apps_ready", "kernel_ready", "kernel_run", "loop"}

(* s_kernel_transition_matrix: everything but RESET can fail, everything   *)
(* can be shut down.                                                       *)
KernelMoves ==
    {<<"RESET", "INIT">>, <<"INIT", "READY">>, <<"READY", "RUNNING">>,
     <<"RUNNING", "READY">>, <<"RUNNING", "SLEEPING">>, <<"SLEEPING", "RUNNING">>}
    \cup {"INIT", "READY", "RUNNING", "SLEEPING"} \X {"FAULT"}
    \cup (KernelStates \ {"SHUTDOWN"}) \X {"SHUTDOWN"}

(* s_app_transition_matrix.                                                *)
AppMoves ==
    {<<"OFF", "INIT">>, <<"INIT", "READY">>, <<"INIT", "ERROR">>,
     <<"READY", "OFF">>, <<"READY", "ACTIVE">>,
     <<"ACTIVE", "STOPPING">>, <<"ACTIVE", "ERROR">>,
     <<"STOPPING", "READY">>, <<"STOPPING", "ERROR">>, <<"ERROR", "INIT">>}

(* mk_kernel_transition: a refused move leaves the state and a fault.      *)
KernelTo(state) ==
    LET legal == <<kernel, state>> \in KernelMoves
    IN  /\ kernel' = IF legal THEN state ELSE kernel
        /\ faulted' = (faulted \/ ~legal)

(* mk_app_transition of the given applications, which are in the states    *)
(* from, one after the other.                                              *)
AppsTo(apps, from, state) ==
    LET legal(a) == <<from[a], state>> \in AppMoves
    IN  /\ app' = [a \in Apps |-> IF a \in apps /\ legal(a) THEN state ELSE from[a]]
        /\ faulted' = (faulted \/ \E a \in apps : ~legal(a))

AllOff == [a \in Apps |-> "OFF"]

(* Memory as the reset leaves it: zero.                                    *)
PoweredUp ==
    /\ kernel = "RESET" /\ app = AllOff
    /\ activeApp = Default
    /\ faulted = FALSE
    /\ stage = "kernel_boot"

Reset ==
    /\ kernel' = "RESET" /\ app' = AllOff
    /\ activeApp' = Default
    /\ faulted' = FALSE
    /\ stage' = "kernel_boot"
-----------------------------------------------------------------------------
AtStage(here, next) == stage = here /\ stage' = next

KernelBoot ==
    /\ AtStage("kernel_boot", "fault_init")
    /\ KernelTo("INIT")
    /\ activeApp' = Default
    /\ UNCHANGED app

FaultManagerInit ==
    /\ AtStage("fault_init", "kernel_init")
    /\ faulted' = FALSE
    /\ UNCHANGED <<kernel, app, activeApp>>

(* mk_kernel_init refuses to run in any state but INIT; app_main returns.  *)
KernelInit ==
    /\ kernel = "INIT"
    /\ AtStage("kernel_init", "service_init")
    /\ app' = AllOff
    /\ UNCHANGED <<kernel, activeApp, faulted>>

(* hal_init, vfs_init and protocol_service_init: what fails there is       *)
(* reported and boot goes on.                                              *)
ServiceInit ==
    /\ AtStage("service_init", "register_apps")
    /\ UNCHANGED <<kernel, app, activeApp, faulted>>

(* mk_kernel_register_app puts an application OFF and then into INIT.      *)
RegisterApps ==
    /\ AtStage("register_apps", "apps_ready")
    /\ AppsTo(Apps, AllOff, "INIT")
    /\ UNCHANGED <<kernel, activeApp>>

(* Faulty variant: an application that is not started is not made READY.   *)
BadAppsReady ==
    /\ AtStage("apps_ready", "kernel_ready")
    /\ AppsTo({Default}, app, "READY")
    /\ UNCHANGED <<kernel, activeApp>>

AppsReady ==
    /\ AtStage("apps_ready", "kernel_ready")
    /\ AppsTo(Apps, app, "READY")
    /\ UNCHANGED <<kernel, activeApp>>

(* Faulty variant: the kernel goes to RUNNING without having been READY.   *)
BadKernelReady ==
    /\ AtStage("kernel_ready", "kernel_run")
    /\ KernelTo("RUNNING")
    /\ UNCHANGED <<app, activeApp>>

KernelReady ==
    /\ AtStage("kernel_ready", "kernel_run")
    /\ KernelTo("READY")
    /\ UNCHANGED <<app, activeApp>>

KernelRun ==
    /\ kernel = "READY"
    /\ AtStage("kernel_run", "loop")
    /\ KernelTo("RUNNING")
    /\ UNCHANGED <<app, activeApp>>

BootStep ==
    \/ KernelBoot \/ FaultManagerInit \/ KernelInit \/ ServiceInit
    \/ RegisterApps \/ AppsReady \/ KernelReady \/ KernelRun
-----------------------------------------------------------------------------
(* The loop of mk_kernel_run, in which commands are handled.               *)
Looping == stage = "loop" /\ kernel = "RUNNING"

(* Faulty variant: active_app is set, the transition is forgotten.         *)
BadHandleLaunch(a) ==
    /\ Looping
    /\ activeApp' = a
    /\ UNCHANGED <<kernel, app, faulted, stage>>

(* SLVR_CMD_LAUNCH_APP: the application becomes the active one whether or  *)
(* not its transition was allowed; the one active before is left ACTIVE.   *)
HandleLaunch(a) ==
    /\ Looping
    /\ AppsTo({a}, app, "ACTIVE")
    /\ activeApp' = a
    /\ UNCHANGED <<kernel, stage>>

(* SLVR_CMD_EXIT_APP asks for READY.                                       *)
HandleExit(a) ==
    /\ Looping
    /\ AppsTo({a}, app, "READY")
    /\ UNCHANGED <<kernel, activeApp, stage>>

ExecNext ==
    \/ BootStep
    \/ \E a \in Apps : HandleLaunch(a) \/ HandleExit(a)
    \/ Reset

ExecSpec == PoweredUp /\ [][ExecNext]_execVars
-----------------------------------------------------------------------------
ExecTypeOK ==
    /\ kernel \in KernelStates
    /\ app \in [Apps -> AppStates]
    /\ activeApp \in Apps
    /\ faulted \in BOOLEAN
    /\ stage \in Stages

(* Boot asks for no transition its own matrices refuse: the log is empty   *)
(* when the loop starts, so every refusal in it was asked for by the host. *)
BootFaultless == stage # "loop" => ~faulted

(* In the loop every application can be launched or has been: no command   *)
(* and no order of commands leaves one in a state it cannot be used from.  *)
AppsServe == Looping => \A a \in Apps : app[a] \in {"READY", "ACTIVE"}

(* The application reported as active is ACTIVE, or none was launched      *)
(* since boot: neither repeated launches nor refused exits separate        *)
(* active_app from the state machine.                                      *)
LaunchedIsActive == Looping => app[activeApp] = "ACTIVE" \/ activeApp = Default
=============================================================================
