----------------------------- MODULE RegionPicker -----------------------------
(* The field for a province, city and district: components/region-cascader, the
   division data it loads (lib/china-region.ts) and the chain of services that it
   asks where the user is (lib/detect-current-region.ts).
   A district is a path of three names; its code is the path.
   Paths are relative to src/web/src/.                                         *)
EXTENDS Integers, Sequences, FiniteSets, FiniteSetsExt

CONSTANTS
  Districts,  \* the data: a sequence of paths <<province, city, district>>
  Alike,      \* pairs of names one of which contains the other, or that have one stem
  Answers,    \* what the services may answer: a code or None, and three names
  Given,      \* what a form may be opened with
  Empty,      \* no name, no code
  MaxActs     \* bound on what the user does

VARIABLES
  form,      \* "register", which locates the user, or "edit", which does not; or "shut"
  chunk,     \* the data: "none", "pending", "ok", "failed"
  ready,     \* what the field shows of it: "wait", "data", "error"
  value,     \* the names and the code of the field
  locating,  \* the place in the chain of services, or 0; silent: asked for by no one
  tried,     \* the field has located the user of itself
  sent,      \* what the form has been sent with
  acts       \* acts left

vars == <<form, chunk, ready, value, locating, tried, sent, acts>>

Blank == [province |-> Empty, city |-> Empty, district |-> Empty, region |-> Empty]
Selection(d) == [province |-> d[1], city |-> d[2], district |-> d[3], region |-> d]
Spend == acts > 0 /\ acts' = acts - 1
All == {Districts[i] : i \in DOMAIN Districts}

\* What the constants are supposed to be: paths of three names, none of which is Empty,
\* and Empty no path.
ConstantsFit ==
  /\ DOMAIN Districts \subseteq Nat
  /\ \A d \in All : d = <<d[1], d[2], d[3]>> /\ Empty \notin {d[1], d[2], d[3]}
  /\ Empty \notin All

-----------------------------------------------------------------------------
(* Finding a district *)

adminNamesMatch(a, b) == a # Empty /\ b # Empty /\ (a = b \/ <<a, b>> \in Alike \/ <<b, a>> \in Alike)

\* The name itself before one that is like it, and the first of these.
findChildByName(paths, level, name) ==
  LET same == {i \in paths : Districts[i][level] = name}
      like == {i \in paths : adminNamesMatch(Districts[i][level], name)}
      best == IF same # {} THEN same ELSE like
  IN IF name = Empty \/ best = {} THEN {} ELSE {i \in paths : Districts[i][level] = Districts[Min(best)][level]}

FirstOf(paths, level) == {i \in paths : Districts[i][level] = Districts[Min(paths)][level]}

\* A city that is not found may be the province itself, or the only one it has.
findSelectionByAdminNames(p, c, d) ==
  LET province == findChildByName(DOMAIN Districts, 1, p)
      named == findChildByName(province, 2, c)
      label == Districts[Min(province)][1]
      capital == findChildByName(province, 2, label)
      city == CASE named # {} -> named
                [] named = {} /\ adminNamesMatch(label, c) -> IF capital # {} THEN capital ELSE FirstOf(province, 2)
                [] OTHER -> IF FirstOf(province, 2) = province THEN province ELSE {}
      district == findChildByName(city, 3, d)
  IN IF province = {} \/ city = {} \/ district = {} THEN {} ELSE {Districts[Min(district)]}

\* The district of an answer: by its code, or by its names; one that has no district
\* is taken for a district of the name of the city.
matchRegionOrThrow(names) ==
  LET d == IF names[3] = Empty THEN names[2] ELSE names[3] IN
  IF names[1] = Empty \/ d = Empty THEN {}
  ELSE findSelectionByAdminNames(names[1], IF names[2] = Empty THEN names[1] ELSE names[2], d)

detectByNetartIp(a) == IF a.code \in All THEN {a.code} ELSE matchRegionOrThrow(a.names)
detectByUapisIp(a) == IF a.code \in All THEN {a.code} ELSE matchRegionOrThrow(a.names)
\* It knows the city only, and looks for a district of that name.
detectByIpWho(a) == matchRegionOrThrow(<<a.names[1], a.names[2], a.names[2]>>)
detectByBigDataCloudIp(a) == matchRegionOrThrow(a.names)
\* The position of the browser, which the user may refuse, turned into names.
detectByBrowser(a) == IF a.names[3] = Empty THEN {} ELSE matchRegionOrThrow(a.names)

\* The services in the order they are asked: in China, abroad, the browser.
Detected(n, a) ==
  CASE n = 1 -> detectByNetartIp(a) [] n = 2 -> detectByUapisIp(a) [] n = 3 -> detectByIpWho(a)
    [] n = 4 -> detectByBigDataCloudIp(a) [] OTHER -> detectByBrowser(a)

-----------------------------------------------------------------------------
(* The field *)

\* What the three lists show: the district of the code, or what the names lead to.
resolveRegionSelectionCodes(v) ==
  LET province == findChildByName(DOMAIN Districts, 1, v.province)
      city == findChildByName(province, 2, v.city)
      district == findChildByName(city, 3, v.district)
      Label(paths, level) == IF paths = {} THEN Empty ELSE Districts[Min(paths)][level]
  IN IF v.region \in All THEN v.region
     ELSE <<Label(province, 1), Label(city, 2), Label(district, 3)>>

Nowhere == [at |-> 0, silent |-> FALSE]
Init ==
  /\ form = "shut" /\ chunk = "none" /\ ready = "wait" /\ value = Blank
  /\ locating = Nowhere /\ tried = FALSE /\ sent = Blank /\ acts = MaxActs

\* The field asks for the data when it appears; what was loaded, or not, stays so.
loadChinaRegionData(which, v) ==
  /\ form = "shut" /\ Spend
  /\ form' = which /\ value' = v
  /\ chunk' = IF chunk = "none" THEN "pending" ELSE chunk
  /\ ready' = "wait" /\ tried' = FALSE /\ locating' = Nowhere
  /\ UNCHANGED sent

ChunkArrives(how) ==
  /\ chunk = "pending" /\ chunk' = how
  /\ UNCHANGED <<form, ready, value, locating, tried, sent, acts>>

\* When the data is there, a field that is still empty locates the user, once.
RegionCascader ==
  /\ form # "shut" /\ ready = "wait" /\ chunk \in {"ok", "failed"}
  /\ ready' = IF chunk = "ok" THEN "data" ELSE "error"
  /\ IF form = "register" /\ chunk = "ok" /\ ~tried
     THEN tried' = TRUE /\ locating' = IF value = Blank THEN [at |-> 1, silent |-> TRUE] ELSE locating
     ELSE UNCHANGED <<tried, locating>>
  /\ UNCHANGED <<form, chunk, value, sent, acts>>

locate ==
  /\ form = "register" /\ ready = "data" /\ locating.at = 0 /\ Spend
  /\ locating' = [at |-> 1, silent |-> FALSE]
  /\ UNCHANGED <<form, chunk, ready, value, tried, sent>>

\* A service answers: with a district, which fills the field, or not, as when it fails
\* or its time is up: then the next is asked.
detectCurrentRegion(found) ==
  /\ locating.at > 0
  /\ IF found # {}
     THEN value' = Selection(CHOOSE d \in found : TRUE) /\ locating' = Nowhere
     ELSE locating' = (IF locating.at = 5 THEN Nowhere ELSE [locating EXCEPT !.at = @ + 1]) /\ UNCHANGED value
  /\ UNCHANGED <<form, chunk, ready, tried, sent, acts>>

Picks(v) ==
  /\ ready = "data" /\ form # "shut" /\ v # value /\ Spend
  /\ value' = v
  /\ UNCHANGED <<form, chunk, ready, locating, tried, sent>>

handleProvinceChange(p) == Picks([Blank EXCEPT !.province = p])

\* The district of before is kept.
FaultyHandleCityChange(p, c) == Picks([value EXCEPT !.province = p, !.city = c])
handleCityChange(p, c) == Picks([Blank EXCEPT !.province = p, !.city = c])
handleDistrictChange(d) == Picks(Selection(d))

RegionCascaderSelects ==
  LET shown == resolveRegionSelectionCodes(value) IN
  \E i \in DOMAIN Districts :
    \/ handleProvinceChange(Districts[i][1])
    \/ shown[1] = Districts[i][1] /\ handleCityChange(shown[1], Districts[i][2])
    \/ shown[1] = Districts[i][1] /\ shown[2] = Districts[i][2] /\ handleDistrictChange(Districts[i])

\* A registration must say all three; an edited row may stay as it is.
handleSubmit ==
  /\ form = "register" /\ Spend
  /\ Empty \notin {value.province, value.city, value.district}
  /\ sent' = value
  /\ UNCHANGED <<form, chunk, ready, value, locating, tried>>

Shut ==
  /\ form # "shut" /\ form' = "shut" /\ locating' = Nowhere
  /\ UNCHANGED <<chunk, ready, value, tried, sent, acts>>

Next ==
  \/ loadChinaRegionData("register", Blank) \/ \E v \in Given : loadChinaRegionData("edit", v)
  \/ \E how \in {"ok", "failed"} : ChunkArrives(how)
  \/ RegionCascader \/ locate \/ RegionCascaderSelects \/ handleSubmit \/ Shut
  \/ detectCurrentRegion({}) \/ \E a \in Answers : detectCurrentRegion(Detected(locating.at, a))

Spec == Init /\ [][Next]_vars

-----------------------------------------------------------------------------
(* Properties *)

Prefixes(v) == \E d \in All : \/ <<v.province, v.city, v.district>> = d
                              \/ <<v.province, v.city, v.district>> = <<d[1], d[2], Empty>>
                              \/ <<v.province, v.city, v.district>> = <<d[1], Empty, Empty>>

\* (components/region-cascader, lib/china-region.ts) Whatever was picked, located or
\* typed before: a field that is not as the form was opened with has names that lead
\* to each other, the code of its district and none without one, and shows what it
\* holds; only one chain of services is under way, and none in a field that is gone;
\* what was sent is a district.
RegionAgrees ==
  /\ form # "shut" /\ value \notin Given \cup {Blank} =>
       /\ Prefixes(value)
       /\ value.region = IF value.district = Empty THEN Empty ELSE <<value.province, value.city, value.district>>
       /\ resolveRegionSelectionCodes(value) = <<value.province, value.city, value.district>>
  /\ locating.at > 0 => form = "register" /\ ready = "data"
  /\ sent # Blank => sent.region \in All /\ sent = Selection(sent.region)

\* A field locates the user of itself only if no region is chosen yet
\* (components/region-cascader/region-cascader.tsx:24).
ChoiceIsKept ==
  [][locating.at > 0 /\ locating.silent /\ locating' = Nowhere /\ form' # "shut" /\ value # Blank => value' = value]_vars

\* A form that is opened again gets its data.
DataComes == form # "shut" /\ chunk = "failed" => ready # "error"

=============================================================================
