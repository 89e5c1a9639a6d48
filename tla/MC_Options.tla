----------------------------- MODULE MC_Options -----------------------------
(***************************************************************************)
(* Every provider, with any one option given in all ways, and any two      *)
(* given in one way each.                                                  *)
(***************************************************************************)
EXTENDS Options, TLC

OneGiven(s, e) ==
  {o :> S : o \in OptionsOf(s, e), S \in SUBSET {"arg", "signal", "general", "library"}}

TwoGiven(s, e) ==
  {(p[1] :> {f}) @@ (p[2] :> {g}) :
     p \in OptionsOf(s, e) \X OptionsOf(s, e), f \in {"arg", "general"}, g \in {"arg", "signal"}}

Legal(g) == \A o \in DOMAIN g : g[o] \subseteq SourcesOf(o)

InputsOf(s, e) ==
  {i \in [signal : {s}, exporter : {e},
          given : {g \in OneGiven(s, e) \cup TwoGiven(s, e) : Legal(g)},
          plain : BOOLEAN, stream : BOOLEAN] :
     /\ i.plain => e = "file" /\ "file_size" \in DOMAIN i.given
     /\ i.stream => e = "file" /\ "file_pattern" \in DOMAIN i.given
                    /\ i.given["file_pattern"] /= {}}

MC_Inputs == UNION {InputsOf(s, e) : s \in Signals, e \in Exporters}

MC_ClientKey ==
  {[signal |-> s, exporter |-> "http", plain |-> FALSE, stream |-> FALSE,
    given |-> "ssl_client_key_path" :> {"arg"}] : s \in Signals}
=============================================================================
