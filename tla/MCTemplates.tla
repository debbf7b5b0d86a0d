----------------------------- MODULE MCTemplates -----------------------------
(***************************************************************************)
(* The templates of model-uppaal.xml.in in a network written by hand, that *)
(* uses what the converter never prints: a point that is not urgent, and   *)
(* so skips, and a kill that comes at any time.  A cue on P starts a rigid *)
(* and a flexible interval; both are fed into the control K; what follows  *)
(* K is the point Q and the interval G.  When P times out all is skipped.  *)
(***************************************************************************)
EXTENDS TANetwork, TLC

Cue(c, m) == [kind |-> "Event_ND", message |-> m, event |-> c, date |-> 0, val |-> 1]
At(d, c, m) == [kind |-> "Event", message |-> m, event |-> c, date |-> d, val |-> 1]

Interaction(s, skip_p, e, ev, m, urgent, skip, ok) ==
    [kind |-> "Point", condition |-> 1, conditionValue |-> 1, conditionMessage |-> m,
     event |-> ev, urgent |-> urgent, event_s |-> s, skip_p |-> skip_p, event_e |-> e,
     kill_p |-> "kill", skip |-> skip, event_t |-> ok]

Lasting(lo, hi, finite, s, skip_p, e1, e2, skip, kill) ==
    [kind |-> "Flexible", dmin |-> lo, dmax |-> hi, finite |-> finite, event_s |-> s,
     event_min |-> e1, event_i |-> "end", event_max |-> e2, skip_p |-> skip_p,
     kill_p |-> "kill", skip |-> skip, kill |-> kill]

Templates ==
    "Start" :> At(1, "go", "m0") @@ "Late" :> At(3, "late", "m0")
    @@ "CueP" :> Cue("cue", "m1") @@ "Killer" :> Cue("kill", "m2") @@ "Ender" :> Cue("end", "m2")
    @@ "P" :> Interaction("go", "never", "late", "cue", "m1", FALSE, "skip_P", "ok_P")
    @@ "R" :> [kind |-> "Rigid", dur |-> 1, event_s |-> "ok_P", event_e1 |-> "k_s1",
               skip_p |-> "skip_P", kill_p |-> "kill", skip |-> "k_skip_p",
               kill |-> "kill_R", event_e2 |-> "R_over"]
    @@ "F" :> Lasting(1, 2, TRUE, "ok_P", "skip_P", "k_s1", "F_over", "k_skip_p", "kill_F")
    @@ "K" :> [kind |-> "Control", num_prev_rels |-> 2, event_s1 |-> "k_s1",
               skip_p |-> "k_skip_p", skip |-> "k_skip", event_e |-> "k_end",
               kill_p |-> "kill", event_s2 |-> "k_s2"]
    @@ "M" :> [kind |-> "Mix", event_in |-> "k_end", event_out |-> "q_end",
               skip_p |-> "k_skip", kill_p |-> "kill"]
    @@ "Q" :> Interaction("k_end", "k_skip", "q_end", "cue_Q", "m0", TRUE, "skip_Q", "ok_Q")
    @@ "G" :> Lasting(1, 0, FALSE, "ok_Q", "skip_Q", "G_min", "G_over", "G_skip", "kill_G")

=============================================================================
