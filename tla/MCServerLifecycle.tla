--------------------------- MODULE MCServerLifecycle ---------------------------
(* Model checking of ServerLifecycle: two listener pairs; one pair with
   everything on, with one warmup domain and a semaphore of one; a negative
   concurrency; bad configurations; a traced resolution. *)
EXTENDS ServerLifecycle

Plain == [wrong |-> {}, trace |-> FALSE, listeners |-> 0, warmup |-> FALSE,
          concurrency |-> 0, tlds |-> 0, xdp |-> FALSE, snapshot |-> FALSE]

MCConfigs ==
    { [Plain EXCEPT !.listeners = 2],
      [Plain EXCEPT !.warmup = TRUE, !.xdp = TRUE, !.snapshot = TRUE],
      [Plain EXCEPT !.warmup = TRUE, !.concurrency = -1],
      [Plain EXCEPT !.wrong = {"hosts"}],
      [Plain EXCEPT !.listeners = -1],
      [Plain EXCEPT !.trace = TRUE] }
=============================================================================
