----------------------------- MODULE ClockViews -----------------------------
(***************************************************************************)
(* How `debug clock` shows what it computed: the lines of the text (rows   *)
(* in debug/clock.rs), and with --html two diagrams of boxes and links, by *)
(* module and by source (debug/clockhtml.rs).  Every view is drawn by a    *)
(* recursion from a clock to the clocks that run from it; registers may    *)
(* wire clocks in a loop.                                                  *)
(*                                                                         *)
(* A report has, for each clock, the clock it runs from now, if known, its *)
(* group, and whether it is a selector, with the inputs it does not use.   *)
(* Names, frequencies and markup are left out.                             *)
(***************************************************************************)
EXTENDS Naturals, Sequences, FiniteSets, SequencesExt

CONSTANTS
  ViewReports,   (* reports that are drawn                                 *)
  NoGroup

NoParent == 0

VARIABLES
  report,        (* the clocks: parent, group, selects, others             *)
  rows,          (* text: clocks in order, with their depth                *)
  boxes,         (* pages: [view, clock, panel, under], in order           *)
  links,         (* pages: [view, to]                                      *)
  panels,        (* groups still to be drawn                               *)
  viewAt         (* the next step                                          *)

viewVars == <<report, rows, boxes, links, panels, viewAt>>

(* Report::children, in the order of the description.                      *)
Children(parent) ==
  SelectSeq([i \in DOMAIN report |-> i], LAMBDA i : report[i].parent = parent)

Flat(sequences) == FlattenSeq(sequences)

(* rows, visit: a clock, then what runs from it, one deeper.               *)
RECURSIVE Visit(_, _)
Visit(clock, depth) ==
  <<[clock |-> clock, depth |-> depth]>>
    \o Flat([k \in DOMAIN Children(clock) |-> Visit(Children(clock)[k], depth + 1)])

Rows == Flat([k \in DOMAIN Children(NoParent) |-> Visit(Children(NoParent)[k], 0)])

(* Mutant: a clock that another group feeds is drawn where it comes from.  *)
StartsRowAnyGroup(i) == report[i].parent = NoParent \/ report[i].selects

(* starts_row: a source, a selector, or fed by another group.              *)
StartsRow(i) ==
  LET parent == report[i].parent IN
  \/ parent = NoParent
  \/ report[i].selects
  \/ report[parent].group # report[i].group

(* fed *)
Fed(clock, view) ==
  SelectSeq(Children(clock), LAMBDA i : view = "tree" \/ ~StartsRow(i))

(* node: the box, and to its right the clocks fed.                         *)
RECURSIVE Node(_, _, _, _)
Node(clock, view, panel, under) ==
  LET fed == Fed(clock, view) IN
  <<[view |-> view, clock |-> clock, panel |-> panel, under |-> under]>>
    \o Flat([k \in DOMAIN fed |-> Node(fed[k], view, panel, clock)])

Linked(view, clocks_named) == {[view |-> view, to |-> c] : c \in clocks_named}

(* row: the inputs of the clock it starts with, and its node.              *)
RowLinks(clock) ==
  LET parent == report[clock].parent IN
  Linked("modules", report[clock].others \cup ({parent} \ {NoParent}))

(* modules: the groups in the order in which they appear.                  *)
Groups ==
  LET first(i) == \A j \in 1 .. i - 1 : report[j].group # report[i].group
      starts == SelectSeq([i \in DOMAIN report |-> i], first)
  IN  [k \in DOMAIN starts |-> report[starts[k]].group]

-----------------------------------------------------------------------------
ViewInit ==
  /\ report \in ViewReports
  /\ rows = <<>> /\ boxes = <<>> /\ links = {} /\ panels = <<>> /\ viewAt = "text"

(* human; then render, whose module view needs a group.                    *)
PrintText ==
  /\ viewAt = "text" /\ rows' = Rows
  /\ panels' = IF \E i \in DOMAIN report : report[i].group # NoGroup THEN Groups ELSE <<>>
  /\ viewAt' = "panels"
  /\ UNCHANGED <<report, boxes, links>>

(* A panel: a row for each clock of the group that starts one.             *)
DrawPanel ==
  /\ viewAt = "panels" /\ panels # <<>>
  /\ LET group == Head(panels)
         starts == SelectSeq([i \in DOMAIN report |-> i],
                             LAMBDA i : report[i].group = group /\ StartsRow(i))
     IN  /\ boxes' = boxes \o Flat([k \in DOMAIN starts |->
                                      Node(starts[k], "modules", group, NoParent)])
         /\ links' = links \cup UNION {RowLinks(starts[k]) : k \in DOMAIN starts}
  /\ panels' = Tail(panels)
  /\ UNCHANGED <<report, rows, viewAt>>

(* The tree: a selector names the inputs it does not use.                  *)
DrawTree ==
  /\ viewAt = "panels" /\ panels = <<>>
  /\ LET roots == Children(NoParent)
         drawn == Flat([k \in DOMAIN roots |-> Node(roots[k], "tree", NoGroup, NoParent)])
     IN  /\ boxes' = boxes \o drawn
         /\ links' = links \cup
              UNION {Linked("tree", report[drawn[k].clock].others) : k \in DOMAIN drawn}
  /\ viewAt' = "drawn"
  /\ UNCHANGED <<report, rows, panels>>

ViewNext == PrintText \/ DrawPanel \/ DrawTree

-----------------------------------------------------------------------------
(* Clocks from which no source is reached: on a loop, or behind one.       *)
Above(i) ==
  LET after[n \in Nat, c \in Nat] ==
        IF c = NoParent THEN {} ELSE {c} \cup (IF n = 0 THEN {} ELSE after[n - 1, report[c].parent])
  IN  after[Len(report), i]
Looped(i) == \A c \in Above(i) : report[c].parent # NoParent

Drawn(view) == SelectSeq(boxes, LAMBDA b : b.view = view)
Shown(view) == {boxes[k].clock : k \in {k \in DOMAIN boxes : boxes[k].view = view}}

(* clockhtml.rs says that every clock has a box in each view, and the      *)
(* user's guide that the text has the whole tree; clocks of a loop have    *)
(* none.  (The view by module is drawn if a clock has a group.)            *)
EveryClockHasABox ==
  viewAt = "drawn" =>
    /\ Shown("tree") = DOMAIN report
    /\ (\E i \in DOMAIN report : report[i].group # NoGroup) => Shown("modules") = DOMAIN report

(* Property: whatever the registers select, a loop included, every view is *)
(* finished and shows every clock that has a source once, never twice: in  *)
(* the text below the clock it runs from, with nothing in between that is  *)
(* not below that clock too; in the diagrams in the panel of its own group *)
(* and beside the clock it runs from; and a link leads to a box, unless it *)
(* names a clock of a loop.  A clock of a loop has no line and no box by   *)
(* source, and by module only where the loop passes a selector or another  *)
(* group, which is not what is promised of it (EveryClockHasABox).  (rows  *)
(* of clock.rs; starts_row, fed, node, row, modules.)                      *)
ViewsShowEveryClockOnce ==
  viewAt = "drawn" =>
    LET sourced == {i \in DOMAIN report : ~Looped(i)}
        grouped == \E i \in DOMAIN report : report[i].group # NoGroup
    IN  /\ {rows[k].clock : k \in DOMAIN rows} = sourced /\ Len(rows) = Cardinality(sourced)
        /\ \A k \in DOMAIN rows :
             IF report[rows[k].clock].parent = NoParent THEN rows[k].depth = 0
             ELSE \E p \in 1 .. k - 1 :
                    /\ rows[p].clock = report[rows[k].clock].parent
                    /\ rows[k].depth = rows[p].depth + 1
                    /\ \A between \in p + 1 .. k : rows[between].depth > rows[p].depth
        /\ Shown("tree") = sourced /\ Len(Drawn("tree")) = Cardinality(sourced)
        /\ grouped => sourced \subseteq Shown("modules")
        /\ Len(Drawn("modules")) = Cardinality(Shown("modules"))
        /\ \A k \in DOMAIN boxes :
             LET box == boxes[k] IN
             /\ box.view = "modules" => box.panel = report[box.clock].group
             /\ box.under # NoParent => box.under = report[box.clock].parent
             /\ box.view = "tree" => box.under = report[box.clock].parent
        /\ \A link \in links : link.to \in Shown(link.view) \/ Looped(link.to)
=============================================================================
