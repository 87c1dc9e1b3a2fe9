------------------------------ MODULE MCFleet ------------------------------
(* Fleets of up to three instances for TLC. *)
EXTENDS Fleet

CONSTANTS a, b, c

Ep(bind, host, port) == [bind |-> bind, host |-> host, port |-> port]
NoEp == Ep("", "", 0)
Plain(id, egm) == [id |-> id, egm |-> egm, group |-> "bank", bind |-> "",
                   wire |-> 0, control |-> 0, ep |-> NoEp, adv |-> "",
                   url |-> "", xml |-> ""]

\* Instances with no port of their own, with ports of their own that agree or
\* clash with the position of another, with a bind host and an endpoint of
\* their own, two that the fleet accepts and their child does not (a port above
\* MaxPort, an unknown XML mode), and instances that are refused.
MCInstances ==
    {Plain(a, "e1"), Plain(b, "e2"), Plain(c, "e3"),
     [Plain(b, "e2") EXCEPT !.wire = 10, !.control = 32, !.url = "good"],
     [Plain(c, "e3") EXCEPT !.wire = 19, !.control = 31],
     [Plain(c, "e3") EXCEPT !.ep = Ep("", "h2", 19)],
     [Plain(c, "e2") EXCEPT !.adv = "h2"],
     [Plain(c, "e3") EXCEPT !.wire = 25],
     [Plain(b, "e2") EXCEPT !.xml = "other"],
     [Plain(b, "e3") EXCEPT !.group = "none"],
     [Plain(a, "e1") EXCEPT !.url = "bad"],
     [Plain(a, "e1") EXCEPT !.wire = -1]}

\* A few of them.
MCInstancesFew ==
    {Plain(a, "e1"), Plain(b, "e2"),
     [Plain(b, "e2") EXCEPT !.wire = 10, !.control = 30, !.url = "good"]}

\* With a bind host of their own.
MCInstancesHosts ==
    MCInstances \cup
    {[Plain(b, "e2") EXCEPT !.bind = "h2", !.control = 30],
     [Plain(c, "e3") EXCEPT !.ep = Ep("h2", "", 0)]}

MCSettings ==
    {[listen |-> "h1", wire |-> 10, control |-> 30, ep |-> Ep("h1", "h1", 10),
      url |-> "good", xml |-> "xsd_g2s_message"],
     [listen |-> "h2", wire |-> 11, control |-> 31, ep |-> NoEp, url |-> "",
      xml |-> ""]}

MCDefaults == [listen |-> "h1", wireBase |-> 10, controlBase |-> 30,
               ep |-> NoEp, url |-> "", xml |-> "xsd_g2s_message"]
============================================================================
