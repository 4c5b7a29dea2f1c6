---------------------------- MODULE HookManager ----------------------------
(***************************************************************************)
(* usvfs::HookManager of src/usvfs/hookmanager.cpp: the per-process        *)
(* singleton that patches API functions when usvfs is injected and         *)
(* unpatches them when it is destroyed, and the application threads that   *)
(* keep calling those functions meanwhile.                                 *)
(*                                                                         *)
(* A function f can be found at two addresses: <<f, 1>> in module1         *)
(* (kernelbase.dll, ntdll.dll, ...) and <<f, 2>> in the fallback module2   *)
(* (kernel32.dll).  Funcs in Stubs get installStub (a logging stub), the   *)
(* others installHook (a detour, whose body is outside this file).        *)
(* HookLib's InstallHook/InstallStub may fail at any address.  A call by   *)
(* an application thread into a stubbed address runs logStub.             *)
(***************************************************************************)
EXTENDS FiniteSets

CONSTANTS
  Funcs,      \* function names initHooks installs
  Stubs,      \* those installed with installStub
  Fallback,   \* those installed with a module2 (kernel32.dll)
  Threads,    \* application threads of the process
  NoAddr      \* no address

ASSUME Stubs \subseteq Funcs /\ Fallback \subseteq Funcs

Addrs == Funcs \X {1, 2}

VARIABLES
  exports,    \* exports[f]: the modules in which MyGetProcAddress finds f
  mgr,        \* lifecycle of the HookManager object
  inst,       \* HookManager::s_Instance: "null" or "set"
  registered, \* m_Context.registerProcess was called and not undone
  todo,       \* functions initHooks has still to install
  cur,        \* <<f, address>> patched, not yet entered in the tables
  patched,    \* addresses HookLib has patched
  hooks,      \* m_Hooks as a set of <<name, address of the handle>>
  stubTab,    \* m_Stubs as a set of <<address, name>>
  tpc         \* per thread: "out", "stub", "log", "crashed"

vars == <<exports, mgr, inst, registered, todo, cur, patched, hooks, stubTab,
          tpc>>
thrVars == <<tpc>>

\* m_Hooks.find(name)
HookOf(f) == {h \in hooks : h[1] = f}

-----------------------------------------------------------------------------
(* Constructor: refuse a second instance, set s_Instance, register the     *)
(* process, then initHooks.                                                *)
Construct ==
  /\ mgr = "none"
  /\ inst = "null"
  /\ inst' = "set"
  /\ registered' = TRUE
  /\ mgr' = "init"
  /\ todo' = Funcs
  /\ UNCHANGED <<exports, cur, patched, hooks, stubTab, thrVars>>

\* The address installHook/installStub ends up patching: module1 first, then
\* module2 when module1 is null, lacks f or HookLib refused it; ok1/ok2 are
\* the results of InstallHook at the two addresses.
UsedAddr(f, ok1, ok2) ==
  IF 1 \in exports[f] /\ ok1 THEN <<f, 1>>
  ELSE IF f \in Fallback /\ 2 \in exports[f] /\ ok2 THEN <<f, 2>>
  ELSE NoAddr

\* Mutant: the tables record module1's address although module2 was hooked.
InstallFirstAddr(f) ==
  /\ mgr = "init"
  /\ f \in todo
  /\ \E ok1, ok2 \in BOOLEAN :
       LET a == UsedAddr(f, ok1, ok2) IN
       IF a = NoAddr
       THEN /\ todo' = todo \ {f}
            /\ UNCHANGED <<mgr, cur, patched>>
       ELSE /\ patched' = patched \cup {a}
            /\ cur' = <<f, <<f, 1>>>>
            /\ mgr' = "record"
            /\ UNCHANGED todo
  /\ UNCHANGED <<exports, inst, registered, hooks, stubTab, thrVars>>

\* Mutant: the handle == INVALID_HOOK test is dropped, so a failed hook is
\* recorded with the address it never got.
InstallRecordsFailure(f) ==
  /\ mgr = "init"
  /\ f \in todo
  /\ \E ok1, ok2 \in BOOLEAN :
       LET a == UsedAddr(f, ok1, ok2) IN
       /\ patched' = IF a = NoAddr THEN patched ELSE patched \cup {a}
       /\ cur' = <<f, a>>
       /\ mgr' = "record"
       /\ UNCHANGED todo
  /\ UNCHANGED <<exports, inst, registered, hooks, stubTab, thrVars>>

(* installHook / installStub(module1, module2, f): patch f at the first    *)
(* address where HookLib succeeds; with none, log the error and go on.     *)
Install(f) ==
  /\ mgr = "init"
  /\ f \in todo
  /\ \E ok1, ok2 \in BOOLEAN :
       LET a == UsedAddr(f, ok1, ok2) IN
       IF a = NoAddr
       THEN /\ todo' = todo \ {f}
            /\ UNCHANGED <<mgr, cur, patched>>
       ELSE /\ patched' = patched \cup {a}
            /\ cur' = <<f, a>>
            /\ mgr' = "record"
            /\ UNCHANGED todo
  /\ UNCHANGED <<exports, inst, registered, hooks, stubTab, thrVars>>

(* ... then m_Stubs.insert and m_Hooks.insert, each of which keeps an      *)
(* existing entry for the key.  The patch is live before this step.       *)
Record ==
  /\ mgr = "record"
  /\ LET f == cur[1]
         a == cur[2]
     IN /\ stubTab' = IF \E e \in stubTab : e[1] = a THEN stubTab
                      ELSE stubTab \cup {<<a, f>>}
        /\ hooks' = IF HookOf(f) # {} THEN hooks ELSE hooks \cup {<<f, a>>}
        /\ todo' = todo \ {f}
  /\ cur' = NoAddr
  /\ mgr' = "init"
  /\ UNCHANGED <<exports, inst, registered, patched, thrVars>>

\* initHooks returns: the constructor is done.
InitDone ==
  /\ mgr = "init"
  /\ todo = {}
  /\ mgr' = "running"
  /\ UNCHANGED <<exports, inst, registered, todo, cur, patched, hooks,
                 stubTab, thrVars>>

(* removeHook(f): unpatch and erase the m_Hooks entry; m_Stubs keeps its   *)
(* entry.  An unknown name is only logged.                                 *)
RemoveHook(f) ==
  /\ mgr = "running"
  /\ HookOf(f) # {}
  /\ LET h == CHOOSE h \in HookOf(f) : TRUE IN
     /\ patched' = patched \ {h[2]}
     /\ hooks' = hooks \ {h}
  /\ UNCHANGED <<exports, mgr, inst, registered, todo, cur, stubTab, thrVars>>

\* ~HookManager starts: removeHooks().
Destruct ==
  /\ mgr = "running"
  /\ mgr' = "removing"
  /\ UNCHANGED <<exports, inst, registered, todo, cur, patched, hooks,
                 stubTab, thrVars>>

\* Mutant: the loop erases the m_Hooks entry without RemoveHook.
RemoveFirstEraseOnly ==
  /\ mgr = "removing"
  /\ hooks # {}
  /\ LET h == CHOOSE h \in hooks : TRUE IN
     hooks' = hooks \ {h}
  /\ UNCHANGED <<exports, mgr, inst, registered, todo, cur, patched, stubTab,
                 thrVars>>

\* One turn of removeHooks' loop: RemoveHook(begin()) and erase it.
RemoveFirst ==
  /\ mgr = "removing"
  /\ hooks # {}
  /\ LET h == CHOOSE h \in hooks : TRUE IN
     /\ patched' = patched \ {h[2]}
     /\ hooks' = hooks \ {h}
  /\ UNCHANGED <<exports, mgr, inst, registered, todo, cur, stubTab, thrVars>>

(* The loop ends on an empty m_Hooks; unregisterCurrentProcess, then the   *)
(* members are destroyed.  s_Instance is not reset.                        *)
Unregister ==
  /\ mgr = "removing"
  /\ hooks = {}
  /\ registered' = FALSE
  /\ mgr' = "destroyed"
  /\ UNCHANGED <<exports, inst, todo, cur, patched, hooks, stubTab, thrVars>>

-----------------------------------------------------------------------------
(* Application threads.                                                    *)

\* A thread calls a function at a stubbed address and enters the stub.
CallStub(t, a) ==
  /\ tpc[t] = "out"
  /\ a \in patched
  /\ a[1] \in Stubs
  /\ tpc' = [tpc EXCEPT ![t] = "stub"]
  /\ UNCHANGED <<exports, mgr, inst, registered, todo, cur, patched, hooks,
                 stubTab>>

(* logStub: instance() throws on a null s_Instance, which logStub catches  *)
(* as "called after shutdown"; otherwise it returns the object.            *)
Instance(t) ==
  /\ tpc[t] = "stub"
  /\ tpc' = [tpc EXCEPT ![t] = IF inst = "null" THEN "out" ELSE "log"]
  /\ UNCHANGED <<exports, mgr, inst, registered, todo, cur, patched, hooks,
                 stubTab>>

(* logStubInt: m_Stubs.find and m_Stubs[address] on the object.  On a      *)
(* destroyed object that is undefined behaviour: a fault, or garbage that  *)
(* happens to be harmless.                                                 *)
LogStubInt(t) ==
  /\ tpc[t] = "log"
  /\ IF mgr = "destroyed"
     THEN \E r \in {"crashed", "out"} : tpc' = [tpc EXCEPT ![t] = r]
     ELSE tpc' = [tpc EXCEPT ![t] = "out"]
  /\ UNCHANGED <<exports, mgr, inst, registered, todo, cur, patched, hooks,
                 stubTab>>

-----------------------------------------------------------------------------
\* The loader state is any: kernelbase.dll may be absent (before Windows 7),
\* and a module may lack an export; only Fallback functions have a module2.
Init ==
  /\ exports \in [Funcs -> SUBSET {1, 2}]
  /\ \A f \in Funcs \ Fallback : 2 \notin exports[f]
  /\ mgr = "none"
  /\ inst = "null"
  /\ registered = FALSE
  /\ todo = {}
  /\ cur = NoAddr
  /\ patched = {}
  /\ hooks = {}
  /\ stubTab = {}
  /\ tpc = [t \in Threads |-> "out"]

Next ==
  \/ Construct \/ \E f \in Funcs : Install(f) \/ RemoveHook(f)
  \/ Record \/ InitDone \/ Destruct \/ RemoveFirst \/ Unregister
  \/ \E t \in Threads :
       \/ \E a \in Addrs : CallStub(t, a)
       \/ Instance(t) \/ LogStubInt(t)

Spec == Init /\ [][Next]_vars

-----------------------------------------------------------------------------
(* Properties.                                                             *)

TypeOK ==
  /\ exports \in [Funcs -> SUBSET {1, 2}]
  /\ mgr \in {"none", "init", "record", "running", "removing", "destroyed"}
  /\ inst \in {"null", "set"}
  /\ registered \in BOOLEAN
  /\ todo \subseteq Funcs
  /\ cur \in (Funcs \X Addrs) \cup {NoAddr}
  /\ patched \subseteq Addrs
  /\ hooks \subseteq Funcs \X Addrs
  /\ stubTab \subseteq Addrs \X Funcs
  /\ tpc \in [Threads -> {"out", "stub", "log", "crashed"}]

(* Every patched stub that can run logs under its own name: m_Stubs maps  *)
(* the address installStub actually patched, also when it fell back from   *)
(* module1 to module2, to the stubbed function (the table entry is written *)
(* right after the patch, so the address being recorded is exempt).        *)
StubsNameTheirFunction ==
  \A a \in patched :
    (a[1] \in Stubs /\ (cur = NoAddr \/ cur[2] # a)) =>
       <<a, a[1]>> \in stubTab

(* When ~HookManager has finished, no function of the process is patched  *)
(* any more and the process is unregistered: removeHooks unpatches every   *)
(* hook and stub initHooks installed.                                      *)
UnhookedOnShutdown ==
  mgr = "destroyed" => (patched = {} /\ ~registered)

(* A thread in logStub never uses a destroyed HookManager: after shutdown, *)
(* instance() is expected to throw, which logStub reports as "called after *)
(* shutdown" (hookmanager.cpp, logStub).                                   *)
NoUseAfterShutdown ==
  \A t \in Threads : tpc[t] = "log" => mgr # "destroyed"

(* No thread reads m_Stubs in logStubInt while initHooks inserts into it:  *)
(* a stub is live as soon as it is patched, before its table entry is     *)
(* written.                                                                *)
NoStubTableRace ==
  ~(mgr = "record" /\ \E t \in Threads : tpc[t] = "log")

=============================================================================
