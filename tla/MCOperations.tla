----------------------------- MODULE MCOperations -----------------------------
(* Hosts, options and config files for TLC. *)
EXTENDS Operations

Grouped == [Defaults EXCEPT !.backend = "slurm", !.nodes = << "n1", "n2" >>,
                            !.operator = "ops"]
Placed  == [Defaults EXCEPT !.log = "/var/log", !.key = "/etc/key", !.nodes = << >>,
                            !.backend = "ipmi", !.user = "admin"]
Loose   == [Defaults EXCEPT !.log = "log", !.nodes = << "n2" >>, !.namespace = "ns",
                            !.collector = "http"]

MCContents == {Defaults, Grouped, Placed, Loose, Malformed}

\* A config at each location or none, HALTPROOF_CONFIG set or not.
MCHosts ==
  {[files |-> [given |-> g, var |-> v, dir1 |-> d, dir2 |-> Absent] @@ (HomeConfig :> h),
    variable |-> e, tools |-> t, cert |-> IF t = {} THEN "cert" ELSE None, user |-> "user"] :
     g \in {Absent, Grouped, Malformed}, v \in {Absent, Placed}, d \in {Absent, Loose},
     h \in {Absent, Grouped, Placed}, e \in {None, "var"}, t \in {{}, {"slurm", "ipmi"}}}

Plain == [via : {"cli", "mcp"}, config : {None}, nodes : {None, << >>, << "n1" >>},
          backend : {None, "kubernetes", "bogus"}, log : {None}, key : {None},
          grouped : {TRUE}, operator : {None}, collector : {None}]
Full  == [via : {"cli"}, config : {None, "given"}, nodes : {None, << "n3" >>, << "n3", "" >>},
          backend : {"ipmi", "kubernetes"}, log : {None, "", "/tmp/log", "log"},
          key : {"", "/tmp/key"}, grouped : {TRUE}, operator : {"me"},
          collector : {None, "https"}]

MCArguments == Plain \union Full
EmptyLists  == {a \in Plain : a.nodes = << >>}
=============================================================================
