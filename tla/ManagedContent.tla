---------------------------- MODULE ManagedContent ----------------------------
(***************************************************************************)
(* What administrators keep for an organization: pages with their          *)
(* sections, services, menus with their items, notification templates      *)
(* with their rules, and modules.  They are saved, deleted into a trash,   *)
(* restored and purged, the first three with numbered revisions that can   *)
(* be brought back.  A request is a series of statements without a         *)
(* transaction: it reads the row, writes it, and then the revision or the  *)
(* trash; several requests overlap and any may stop in between.            *)
(*                                                                         *)
(* A row's columns are its status, whether it is deleted, and one text     *)
(* that stands for the rest; a resource is known by its unique key and is  *)
(* not made again once purged.  The audit log and events are left out.     *)
(***************************************************************************)
EXTENDS Naturals, Sequences

CONSTANTS
    Resources,
    Kind,       \* [Resources -> kinds]
    Parent,     \* of each resource that has one, the resource it refers to
    Missing,    \* resources that are made by a request
    Requests,
    Operations, \* the operations that are asked for
    Statuses    \* what may be saved: of "draft", "active", "published", "deleted"

VARIABLES
    row,    \* the row of each resource
    trash,  \* deleted_items
    revs,   \* content_revisions
    req     \* the requests

vars == <<row, trash, revs, req>>

NoRow == [st |-> "absent", status |-> "none", deleted |-> FALSE, text |-> 0]
NoTrash == [listed |-> FALSE, marks |-> {}]
NoReq == [pc |-> "new", op |-> "none", r |-> "none", status |-> "none", cur |-> NoRow, saved |-> NoRow,
          version |-> 0, answer |-> "none"]

Content == {"page", "section", "service", "menu", "item"}
Revised == {"page", "section", "service"}
Notified == {"template", "rule"}
K(p) == Kind[req[p].r]
Open(r) == trash[r].listed /\ trash[r].marks = {}
Children(r) == {c \in DOMAIN Parent : Parent[c] = r}

Answer(p, a) == req' = [req EXCEPT ![p] = [@ EXCEPT !.pc = "done", !.answer = a, !.cur = NoRow, !.version = 0]]
Goto(p, pc) == req' = [req EXCEPT ![p].pc = pc]
Is(p, kinds, op) == req[p].pc = "write" /\ K(p) \in kinds /\ req[p].op = op

-----------------------------------------------------------------------------
(* A request begins: what it is about is looked up in the organization.    *)

owned(r) == row[r].st = "there"

\* What a new or changed section or item belongs to must not be deleted; a rule's
\* template only has to be there.
ParentThere(r) == r \in DOMAIN Parent =>
    owned(Parent[r]) /\ (Kind[r] = "rule" \/ ~row[Parent[r]].deleted)

Applies(op, r) ==
    CASE op = "upsert" -> TRUE
      [] op = "delete" -> Kind[r] \notin {"module", "menu"}
      [] op = "restore" -> Kind[r] \notin {"module", "menu", "item"}
      [] op = "purge" -> Kind[r] = "page"
      [] OTHER -> TRUE

Begin(p) ==
    /\ req[p].pc = "new" /\ \A q \in Requests : q < p => req[q].pc # "new"
    /\ \E op \in Operations \ {"revision"}, r \in Resources :
         /\ Applies(op, r)
         /\ \E status \in IF op = "upsert" THEN Statuses ELSE {"none"} :
              LET asked == [NoReq EXCEPT !.op = op, !.r = r, !.status = status, !.cur = row[r]]
                  found == CASE op = "upsert" -> ParentThere(r) /\ (owned(r) \/ r \in Missing)
                             [] op = "purge" -> owned(r) /\ row[r].status = "deleted"
                             [] op \in {"trash.restore", "trash.purge"} -> Open(r)
                             [] OTHER -> owned(r)
              IN req' = [req EXCEPT ![p] = IF found THEN [asked EXCEPT !.pc = "write"]
                                           ELSE [asked EXCEPT !.pc = "done", !.answer = "notFound", !.cur = NoRow]]
    /\ UNCHANGED <<row, trash, revs>>

\* revision.restore reads a saved revision and the resource it is of.
ReadRevision(p) ==
    /\ req[p].pc = "new" /\ \A q \in Requests : q < p => req[q].pc # "new"
    /\ "revision" \in Operations
    /\ \E r \in Resources : \E v \in DOMAIN revs[r] :
         /\ owned(r)
         /\ req' = [req EXCEPT ![p] = [NoReq EXCEPT !.op = "revision", !.r = r, !.cur = row[r],
                                                    !.saved = revs[r][v], !.pc = "write"]]
    /\ UNCHANGED <<row, trash, revs>>

-----------------------------------------------------------------------------
(* The row is written.                                                     *)

\* UPDATE ... WHERE id: nothing where the row is gone.
Update(p, written, next, orElse) ==
    LET r == req[p].r
        there == owned(r)
    IN /\ row' = IF there THEN [row EXCEPT ![r] = written] ELSE row
       /\ IF there THEN req' = [req EXCEPT ![p] = [@ EXCEPT !.saved = written, !.pc = next]]
          ELSE IF orElse = "error" THEN Answer(p, "error") ELSE Goto(p, next)

\* INSERT: another request may have used the key, or purged what it refers to.
Insert(p, written, next) ==
    LET r == req[p].r
    IN IF row[r].st # "absent" THEN Answer(p, "conflict") /\ UNCHANGED row
       ELSE IF ~(r \in DOMAIN Parent => owned(Parent[r])) THEN Answer(p, "error") /\ UNCHANGED row
       ELSE /\ row' = [row EXCEPT ![r] = written]
            /\ req' = [req EXCEPT ![p] = [@ EXCEPT !.saved = written, !.pc = next]]

Save(p, written, next) ==
    IF req[p].cur.st = "absent" THEN Insert(p, written, next) ELSE Update(p, written, next, "error")

\* Saving decides with the status whether the row is deleted.
Managed(p) == [st |-> "there", status |-> req[p].status, deleted |-> req[p].status = "deleted", text |-> p]
\* Saving a template or rule leaves it deleted.
Kept(p) == [row[req[p].r] EXCEPT !.st = "there", !.status = req[p].status, !.text = p]

AfterSave(p) == IF req[p].status = "deleted" THEN "trash" ELSE "answer"

page_upsert(p) == Is(p, {"page"}, "upsert") /\ Save(p, Managed(p), "version")
section_upsert(p) == Is(p, {"section"}, "upsert") /\ Save(p, Managed(p), "version")
service_upsert(p) == Is(p, {"service"}, "upsert") /\ Save(p, Managed(p), "version")
menu_upsert(p) == Is(p, {"menu"}, "upsert") /\ Save(p, Managed(p), AfterSave(p))
menu_item_upsert(p) == Is(p, {"item"}, "upsert") /\ Save(p, Managed(p), AfterSave(p))
module_update(p) == Is(p, {"module"}, "upsert") /\ Save(p, Managed(p), AfterSave(p))
template_upsert(p) == Is(p, {"template"}, "upsert") /\ Save(p, Kept(p), "answer")
rule_upsert(p) == Is(p, {"rule"}, "upsert") /\ Save(p, Kept(p), "answer")

Deleted(p) == [row[req[p].r] EXCEPT !.status = IF K(p) \in Notified THEN "disabled" ELSE "deleted", !.deleted = TRUE]
Restored(p) == [row[req[p].r] EXCEPT !.status = IF K(p) = "page" THEN "draft" ELSE "active", !.deleted = FALSE]

page_delete(p) == Is(p, {"page"}, "delete") /\ Update(p, Deleted(p), "trash", "goOn")
page_restore(p) == Is(p, {"page"}, "restore") /\ Update(p, Restored(p), "mark", "goOn")
section_delete(p) == Is(p, {"section"}, "delete") /\ Update(p, Deleted(p), "trash", "goOn")
section_restore(p) == Is(p, {"section"}, "restore") /\ Update(p, Restored(p), "mark", "goOn")
service_delete(p) == Is(p, {"service"}, "delete") /\ Update(p, Deleted(p), "trash", "goOn")
service_restore(p) == Is(p, {"service"}, "restore") /\ Update(p, Restored(p), "mark", "goOn")
menu_item_delete(p) == Is(p, {"item"}, "delete") /\ Update(p, Deleted(p), "trash", "goOn")
template_delete(p) == Is(p, {"template"}, "delete") /\ Update(p, Deleted(p), "disable", "error")
template_restore(p) == Is(p, {"template"}, "restore") /\ Update(p, Restored(p), "mark", "error")
rule_delete(p) == Is(p, {"rule"}, "delete") /\ Update(p, Deleted(p), "trash", "error")
rule_restore(p) == Is(p, {"rule"}, "restore") /\ Update(p, Restored(p), "mark", "error")

\* A page that was published comes back as a draft, another with the status that
\* was read; a section or a service is active.
revision_restore(p) ==
    LET status == IF K(p) # "page" THEN "active"
                  ELSE IF req[p].saved.status = "published" THEN "draft" ELSE req[p].cur.status
    IN /\ Is(p, Revised, "revision")
       /\ Update(p, [row[req[p].r] EXCEPT !.status = status, !.text = req[p].saved.text], "version", "error")

restoreTrashResource(p) ==
    Is(p, Content \union Notified \union {"module"}, "trash.restore") /\ Update(p, Restored(p), "mark", "goOn")

\* A row goes with those that cannot be without it: an item loses only its page.
Purge(r) == row' = [x \in Resources |->
    IF x = r \/ x \in Children(r) THEN [row[x] EXCEPT !.st = IF @ = "absent" THEN @ ELSE "purged"] ELSE row[x]]

\* page.purge looks at the status first.
page_purge(p) ==
    /\ Is(p, {"page"}, "purge")
    /\ Purge(req[p].r) /\ Goto(p, "markPurged")

\* DELETE ... WHERE id and still deleted, for what has such a column.
stillDeleted(p) ==
    LET here == row[req[p].r]
    IN IF K(p) \in Content THEN here.status = "deleted" ELSE here.deleted

purgeExtendedTrashResource(p) ==
    /\ Is(p, Content \union Notified, "trash.purge")
    /\ IF stillDeleted(p) THEN Purge(req[p].r) ELSE UNCHANGED row
    /\ Goto(p, "markPurged")
purgeTrashResource(p) ==
    /\ Is(p, {"module"}, "trash.purge")
    /\ Purge(req[p].r) /\ Goto(p, "markPurged")

Write(p) ==
    /\ \/ page_upsert(p) \/ section_upsert(p) \/ service_upsert(p) \/ menu_upsert(p) \/ menu_item_upsert(p)
       \/ module_update(p) \/ template_upsert(p) \/ rule_upsert(p)
       \/ page_delete(p) \/ section_delete(p) \/ service_delete(p) \/ menu_item_delete(p)
       \/ template_delete(p) \/ rule_delete(p)
       \/ page_restore(p) \/ section_restore(p) \/ service_restore(p) \/ template_restore(p) \/ rule_restore(p)
       \/ revision_restore(p) \/ restoreTrashResource(p)
       \/ page_purge(p) \/ purgeExtendedTrashResource(p) \/ purgeTrashResource(p)
    /\ UNCHANGED <<trash, revs>>

-----------------------------------------------------------------------------
(* What follows.                                                           *)

\* revision(): the next number is read, and the revision inserted under it.
ReadVersion(p) ==
    /\ req[p].pc = "version"
    /\ req' = [req EXCEPT ![p] = [@ EXCEPT !.version = Len(revs[req[p].r]), !.pc = "insert"]]
    /\ UNCHANGED <<row, trash, revs>>

\* Its number is unique.
InsertRevision(p) ==
    LET r == req[p].r
    IN /\ req[p].pc = "insert"
       /\ IF Len(revs[r]) # req[p].version THEN Answer(p, "conflict") /\ UNCHANGED revs
          ELSE /\ revs' = [revs EXCEPT ![r] = Append(@, [st |-> "there", status |-> req[p].saved.status,
                                                         deleted |-> FALSE, text |-> req[p].saved.text])]
               /\ IF AfterSave(p) = "trash" THEN Goto(p, "trash") ELSE Answer(p, "saved")
       /\ UNCHANGED <<row, trash>>

\* The rules of a deleted template are disabled.
DisableRules(p) ==
    /\ req[p].pc = "disable"
    /\ row' = [x \in Resources |-> IF x \in Children(req[p].r) THEN [row[x] EXCEPT !.status = "disabled"] ELSE row[x]]
    /\ Goto(p, "trash")
    /\ UNCHANGED <<trash, revs>>

putTrash(p) ==
    /\ req[p].pc = "trash"
    /\ trash' = [trash EXCEPT ![req[p].r] = [listed |-> TRUE, marks |-> {}]]
    /\ Answer(p, "saved")
    /\ UNCHANGED <<row, revs>>

\* Templates and rules keep the mark of a purge.
markRestored(p) ==
    LET r == req[p].r
    IN /\ req[p].pc = "mark"
       /\ trash' = IF trash[r].listed /\ ~(req[p].op = "restore" /\ K(p) \in Notified /\ "purged" \in trash[r].marks)
                   THEN [trash EXCEPT ![r].marks = @ \union {"restored"}] ELSE trash
       /\ Answer(p, "saved")
       /\ UNCHANGED <<row, revs>>
markPurged(p) ==
    LET r == req[p].r
    IN /\ req[p].pc = "markPurged"
       /\ trash' = IF trash[r].listed THEN [trash EXCEPT ![r].marks = @ \union {"purged"}] ELSE trash
       /\ Answer(p, "saved")
       /\ UNCHANGED <<row, revs>>

End(p) == req[p].pc = "answer" /\ Answer(p, "saved") /\ UNCHANGED <<row, trash, revs>>

\* The process or the database fails between two statements.
Crash(p) ==
    /\ req[p].pc \notin {"new", "done"} /\ Answer(p, "error")
    /\ UNCHANGED <<row, trash, revs>>

-----------------------------------------------------------------------------
Init ==
    /\ row = [r \in Resources |-> IF r \in Missing THEN NoRow
                                  ELSE [st |-> "there", status |-> "active", deleted |-> FALSE, text |-> 0]]
    /\ trash = [r \in Resources |-> NoTrash]
    /\ revs = [r \in Resources |-> <<>>]
    /\ req = [p \in Requests |-> NoReq]

Next == \E p \in Requests :
    Begin(p) \/ ReadRevision(p) \/ Write(p) \/ ReadVersion(p) \/ InsertRevision(p) \/ DisableRules(p)
    \/ putTrash(p) \/ markRestored(p) \/ markPurged(p) \/ End(p) \/ Crash(p)

Spec == Init /\ [][Next]_vars

-----------------------------------------------------------------------------
TypeOK ==
    \A r \in Resources : /\ row[r].st \in {"absent", "there", "purged"}
                         /\ trash[r].marks \subseteq {"restored", "purged"}

\* Whoever was told that a page, section or service is saved can bring that state
\* back: it is among the revisions, however the saves overlap (revision() numbers
\* them by what it read before).
SavedIsRevised ==
    \A p \in Requests :
      (req[p].op = "upsert" /\ req[p].answer = "saved" /\ K(p) \in Revised) =>
        \E v \in DOMAIN revs[req[p].r] : revs[req[p].r][v].text = p /\ revs[req[p].r][v].status = req[p].status

\* The trash removes only what is deleted at that moment, and what cannot be
\* without it: whoever restored something meanwhile keeps it
\* (purgeExtendedTrashResource).  A page's own purge and a module's do not.
PurgeSparesLive ==
    \A p \in Requests : \A r \in Resources :
      (/\ purgeExtendedTrashResource(p)
       /\ row[r].st = "there" /\ row'[r].st = "purged")
      => IF r = req[p].r THEN row[r].deleted \/ row[r].status = "deleted" ELSE Parent[r] = req[p].r
SparesLive == [][PurgeSparesLive]_vars

=============================================================================
