---------------------------- MODULE MCConfigReload ----------------------------
(***************************************************************************)
(* ConfigReload on small instances: requests of which any two may overlap, *)
(* one of them with a body that does not load.  What Load accepts is       *)
(* checked on configurations of one monitor and one target, of which it    *)
(* looks at each alone.                                                    *)
(***************************************************************************)
EXTENDS ConfigReload, TLC

File == INSTANCE ConfigFile

Numbers == {-1, 0, 1}

Contents ==
  [threshold : Numbers, reminder : Numbers,
   monitors : {{m} : m \in File!Monitors(Numbers)}, targets : {{t} : t \in File!Targets({0, 1})}]

ASSUME LoadedRuns == \A cfg \in Contents : File!DefaultsSuffice(cfg)

=============================================================================
