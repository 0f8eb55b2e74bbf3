---------------------------- MODULE AccessControl ----------------------------
(***************************************************************************)
(* security/acl.cpp: the acl lines of the configuration and what they      *)
(* grant.  Any rule may grant and none denies.                             *)
(*                                                                         *)
(* A line is [who, dn, permission, target]: the word who, with the name    *)
(* after its colon if it has one, and a target that is RootDse for "*" or  *)
(* for none.  A rule is [who |-> [kind, dn], target, write].               *)
(*                                                                         *)
(* whoMatches reads the tree for a group rule, with one lookup of the      *)
(* group and one of the user.  Here the two reads are one.                 *)
(***************************************************************************)
EXTENDS Entries

\* parseAclLine: a line that is not well formed gives no rule.
parseAclLine(line) ==
  LET named == line.who \in {"dn", "group"}
      legal == /\ named \/ line.who \in {"*", "anyone", "anonymous", "users"}
               /\ named => line.dn # RootDse
               /\ line.permission \in {"search", "write", "*"}
      rule  == [who |-> [kind |-> IF line.who = "*" THEN "anyone" ELSE line.who,
                         dn |-> IF named THEN line.dn ELSE RootDse],
                target |-> line.target, write |-> line.permission # "search"]
  IN  IF legal THEN <<rule>> ELSE << >>

\* config_.acls.  A line without a rule keeps the daemon from starting.
acls(lines) == FlattenSeq([i \in DOMAIN lines |-> parseAclLine(lines[i])])
WellFormed(lines) == Len(acls(lines)) = Len(lines)

Holds(tree, dn, t, v) ==
  found(tree, dn) /\ t \in DOMAIN tree[dn] /\ Contains(tree[dn][t], v)

\* The uid that memberUid is compared with: the first uid value of the user's
\* entry, or the uid of the bind name itself when there is no such value.
memberName(tree, who) ==
  IF /\ found(tree, who) /\ "uid" \in DOMAIN tree[who]
     /\ tree[who]["uid"] # << >> /\ Head(tree[who]["uid"]) # ""
  THEN Head(tree[who]["uid"])
  ELSE IF rdnType(dnRdn(who)) = "uid" THEN rdnValue(dnRdn(who)) ELSE ""

\* A value that holds a name is the name's sequence; member, uniqueMember and
\* memberOf are compared as names, memberUid as text.
inGroup(tree, who, group) ==
  /\ who # RootDse
  /\ found(tree, group)
  /\ \/ Holds(tree, group, "member", who)
     \/ Holds(tree, group, "uniqueMember", who)
     \/ Holds(tree, who, "memberOf", group)
     \/ /\ memberName(tree, who) # ""
        /\ Holds(tree, group, "memberUid", memberName(tree, who))

whoMatches(rule, tree, who) ==
  CASE rule.who.kind = "anyone"    -> TRUE
    [] rule.who.kind = "anonymous" -> who = RootDse
    [] rule.who.kind = "users"     -> who # RootDse
    [] rule.who.kind = "dn"        -> who = rule.who.dn
    [] rule.who.kind = "group"     -> inGroup(tree, who, rule.who.dn)

covers(rule, dn) == dnEndsWith(dn, rule.target)

isRoot(rootDn, who) == who # RootDse /\ who = rootDn

\* Reading is open until a rule is configured; every rule grants it.
maySearch(rules, rootDn, tree, who, dn) ==
  \/ dn = RootDse
  \/ isRoot(rootDn, who)
  \/ rules = {}
  \/ \E r \in rules : whoMatches(r, tree, who) /\ covers(r, dn)

\* Writing is closed to all but root until a write rule is configured.
mayWrite(rules, rootDn, tree, who, dn) ==
  \/ isRoot(rootDn, who)
  \/ \E r \in rules : r.write /\ whoMatches(r, tree, who) /\ covers(r, dn)
=============================================================================
