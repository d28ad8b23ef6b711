--------------------------- MODULE MCAsyncExecutor ---------------------------
(* greenify's root m owns a thread_group g0: it creates f1, constructs f2  *)
(* and adds it, joins all, removes f1 and destroys the group, while f1     *)
(* and f2 ask is_this_thread_in() and use a fiber_specific_ptr: f1 resets *)
(* it twice around a yield and leaves the last value to the cleaner, f2   *)
(* resets it and destroys the pointer.  f2 then runs an async_executor    *)
(* with a pool of two workers w1, w2 on the group gE: it gives it two tasks,   *)
(* gets the first task's result, and destroys the executor (close,        *)
(* join_all, ~thread_group).  f1 ends with async(fn) on a fiber a1 that   *)
(* shares its strand, and gets the result.  Once the group is destroyed,  *)
(* m makes an async_function whose thread_ is x, calls it twice, starts   *)
(* an operation with use_future (its completion handler runs on a fiber   *)
(* h), gets the first call's result, destroys the function (close, join)  *)
(* and gets the other two results.  x and h run on the strands of w1 and  *)
(* w2, which have stopped by then; the other fibers have strands of their *)
(* own.                                                                    *)
EXTENDS AsyncExecutor

CONSTANTS m, f1, f2, w1, w2, a1, x, h, s0, s1, s2, s3, s4, g0, gE, gF

MCFibers == {m, f1, f2, w1, w2, a1, x, h}

MCStrandOf == [f \in MCFibers |->
                 CASE f = m -> s0 [] f \in {f1, a1} -> s1 [] f = f2 -> s2 [] f \in {w1, x} -> s3
                   [] f \in {w2, h} -> s4]

MCNoJoins == [f \in MCFibers |-> {}]

Call(o, g) == [op |-> o, fib |-> g, grp |-> g0]
ECall(o, g) == [op |-> o, fib |-> g, grp |-> gE]
FCall(o, g) == [op |-> o, fib |-> g, grp |-> gF]

MCProgram ==
    [f \in MCFibers |->
        CASE f = m  -> <<Call("create", f1), Call("spawn", f2), Call("add", f2),
                         Call("joinall", NoFiber), Call("remove", f1), Call("destroy", NoFiber),
                         FCall("fn_make", x), FCall("fn_call", NoFiber), FCall("fn_call", NoFiber),
                         Call("uf_start", h), Call("get", NoFiber), FCall("fn_destroy", x),
                         Call("get", NoFiber), Call("get", NoFiber)>>
          [] f = f1 -> <<Call("read", NoFiber), Call("tss_reset", NoFiber), Call("yield", NoFiber),
                         Call("tss_reset", NoFiber), Call("async", a1), Call("get", NoFiber)>>
          [] f = f2 -> <<Call("read", NoFiber), Call("tss_reset", NoFiber),
                         Call("tss_unset", NoFiber),
                         ECall("create", w1), ECall("create", w2), ECall("push", NoFiber), ECall("push", NoFiber),
                         ECall("get", NoFiber), ECall("close", NoFiber),
                         ECall("joinall", NoFiber), ECall("destroy", NoFiber)>>
          [] f \in {w1, w2} -> <<ECall("serve", NoFiber)>>
          [] f = a1 -> <<Call("run", NoFiber)>>
          [] f = x  -> <<FCall("execute", NoFiber)>>
          [] f = h  -> <<Call("invoke", NoFiber)>>]
=============================================================================
