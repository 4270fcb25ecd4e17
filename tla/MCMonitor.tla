------------------------------ MODULE MCMonitor ------------------------------
(* Instances of Monitor for TLC. *)
EXTENDS Monitor, TLC

CONSTANTS a, b, c

Costs(x, y, z) == a :> x @@ b :> y @@ c :> z

\* Two web requests and another; a and c do not fit together.
Admission ==
    [web |-> {a, b}, cpu |-> Costs(3, 1, 2), memory |-> Costs(2, 2, 1),
     estimated |-> Costs(0, 0, 0), maxMemory |-> 6, source |-> "cgroup",
     loads |-> {"low"}, cpuSamples |-> {0, 1}, memorySamples |-> {0, 2}]

\* A machine that may be overloaded, by two small requests or with one that takes
\* all of it.
Overload ==
    [Admission EXCEPT !.web = {}, !.cpu = Costs(1, 1, 4), !.memory = Costs(1, 1, 1),
                      !.maxMemory = 0, !.source = "proc_rss", !.loads = {"low", "high"},
                      !.cpuSamples = {1, 2}, !.memorySamples = {0}]

\* Memory that may be over its limit.
Memory ==
    [Admission EXCEPT !.web = {}, !.cpu = Costs(1, 1, 1), !.maxMemory = 5,
                      !.cpuSamples = {1}, !.memorySamples = {0, 6}]

AllWorkloads == {Admission, Overload, Memory}

\* A request that estimates its cpu below its cost.
Estimates ==
    {[Admission EXCEPT !.web = {}, !.maxMemory = 0, !.source = "proc_rss",
                       !.estimated = Costs(1, 0, 0)]}
=============================================================================
