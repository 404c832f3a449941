----------------------------- MODULE MCLJProfile -----------------------------
(* Programs of LJProfile for TLC. *)
EXTENDS LJProfile

Profiler == {"lj_profile_interpreter", "luaJIT_profile_start", "luaJIT_profile_stop"}
\* hooks, and a timer thread
Threaded == [variant |-> "thread", ops |-> {"callhook"} \cup Profiler]
\* everything that keeps out hooks or traces, and a timer signal
Signalled ==
  [variant |-> "signal",
   ops |-> {"callhook", "callhook_throw", "gc_call_finalizer", "lj_vmevent_call", "lua_pcall",
            "lua_sethook", "sethook_signal", "trace_start", "trace_stop"} \cup Profiler]
Both == {Threaded, Signalled}

\* finalizers, and a timer thread
Finalizers == {[variant |-> "thread", ops |-> {"gc_call_finalizer"} \cup Profiler]}
=============================================================================
