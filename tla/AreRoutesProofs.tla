--------------------------- MODULE AreRoutesProofs ---------------------------
(***************************************************************************)
(* Theorems about routes, for every set of paths, requests and names and   *)
(* for services of any size: what the runtime's matching computes is the   *)
(* definition of an instance, if the checker has seen to it that no name   *)
(* is taken twice; and the document describes the routes that serve.       *)
(***************************************************************************)
EXTENDS AreRoutes, AreLemmas

\* The positions of a path's parameters, of its segments, and of the
\* segments of a request, that count.
ParamsAt(path) == {i \in DOMAIN path : IsParam(path[i])}
PartsAt(path) == {i \in DOMAIN path : path[i] # Empty}
TextsAt(path) == {i \in DOMAIN path : path[i] # ""}

-----------------------------------------------------------------------------
\* The parameters of a path and its parts are picked from the same segments.

\* A parameter is no empty segment.
LEMMA ParamsCount == ~IsParam(Empty)
BY DEF IsParam, Empty, Literal

\* The parts of a pattern are its segments that are not empty, in their order.
LEMMA Parts ==
    ASSUME NEW path \in Seq(Segment)
    PROVE  /\ pattern_parts(path) \in Seq(Segment)
           /\ \E e : /\ Enumerates(e, PartsAt(path), Len(pattern_parts(path)), Len(path))
                     /\ \A i \in 1..Len(pattern_parts(path)) : pattern_parts(path)[i] = path[e[i]]
<1>1. pattern_parts(path) = SelectAt(path, PartsAt(path))
  BY DEF pattern_parts, PartsAt
<1>2. QED
  BY <1>1, SelectAtPositions

\* The names of a path are those of its parameters, in their order.
LEMMA Names ==
    ASSUME NEW path \in Seq(Segment)
    PROVE  /\ ParamNames(path) \in Seq(STRING)
           /\ \E e : /\ Enumerates(e, ParamsAt(path), Len(ParamNames(path)), Len(path))
                     /\ \A i \in 1..Len(ParamNames(path)) : ParamNames(path)[i] = path[e[i]].name
<1> DEFINE params == SelectAt(path, ParamsAt(path))
<1>1. params \in Seq(Segment)
  BY SelectAtPositions
<1>2. PICK e : /\ Enumerates(e, ParamsAt(path), Len(params), Len(path))
               /\ \A i \in 1..Len(params) : params[i] = path[e[i]]
  BY SelectAtPositions
<1>3. ParamNames(path) = [i \in DOMAIN params |-> params[i].name]
  BY DEF ParamNames, ParamsAt
<1> HIDE DEF params
<1>4. Len(params) \in Nat /\ DOMAIN params = 1..Len(params) /\ \A i \in 1..Len(params) : params[i] \in Segment
  BY <1>1
<1>5. \A i \in 1..Len(params) : params[i].name \in STRING
  BY <1>4 DEF Segment
<1>6. ParamNames(path) \in Seq(STRING) /\ Len(ParamNames(path)) = Len(params)
  BY <1>3, <1>4, <1>5
<1>7. \A i \in 1..Len(params) : ParamNames(path)[i] = path[e[i]].name
  BY <1>2, <1>3, <1>4
<1>8. QED
  BY <1>2, <1>6, <1>7

\* A request's parts are texts.
LEMMA Texts ==
    ASSUME NEW path \in Seq(STRING)
    PROVE  path_parts(path) \in Seq(STRING)
<1>1. path_parts(path) = SelectAt(path, TextsAt(path))
  BY DEF path_parts, TextsAt
<1>2. QED
  BY <1>1, SelectAtPositions

\* No segment of a parameter is empty, so every name of a path stands at a
\* part of it, and every part that is a parameter has one of the names.
LEMMA NamesAreInParts ==
    ASSUME NEW path \in Seq(Segment)
    PROVE  /\ \A i \in DOMAIN pattern_parts(path) :
                 IsParam(pattern_parts(path)[i]) =>
                    pattern_parts(path)[i].name \in Range(ParamNames(path))
           /\ \A name \in Range(ParamNames(path)) :
                 \E i \in DOMAIN pattern_parts(path) :
                    IsParam(pattern_parts(path)[i]) /\ pattern_parts(path)[i].name = name
<1> DEFINE p == pattern_parts(path)
           names == ParamNames(path)
<1>1. PICK e : /\ Enumerates(e, PartsAt(path), Len(p), Len(path))
               /\ \A i \in 1..Len(p) : p[i] = path[e[i]]
  BY Parts
<1>2. PICK f : /\ Enumerates(f, ParamsAt(path), Len(names), Len(path))
               /\ \A i \in 1..Len(names) : names[i] = path[f[i]].name
  BY Names
<1>3. /\ p \in Seq(Segment) /\ names \in Seq(STRING)
      /\ DOMAIN p = 1..Len(p) /\ DOMAIN names = 1..Len(names)
  BY Parts, Names
<1>4. ParamsAt(path) \subseteq PartsAt(path) /\ PartsAt(path) \subseteq 1..Len(path)
  <2>1. \A i \in DOMAIN path : IsParam(path[i]) => path[i] # Empty
    BY ParamsCount
  <2>2. DOMAIN path = 1..Len(path)
    OBVIOUS
  <2>3. QED
    BY <2>1, <2>2 DEF ParamsAt, PartsAt
<1> HIDE DEF p, names
<1>5. ASSUME NEW i \in DOMAIN p, IsParam(p[i])
      PROVE  p[i].name \in Range(names)
  <2>1. e[i] \in 1..Len(path) /\ p[i] = path[e[i]]
    BY <1>1, <1>3 DEF Enumerates
  <2>2. e[i] \in ParamsAt(path)
    BY <1>5, <2>1 DEF ParamsAt
  <2>3. PICK k \in 1..Len(names) : f[k] = e[i]
    BY <1>2, <2>1, <2>2 DEF Enumerates
  <2>4. names[k] = p[i].name
    BY <1>2, <2>1, <2>3
  <2>5. QED
    BY <1>3, <2>3, <2>4 DEF Range
<1>6. ASSUME NEW name \in Range(names)
      PROVE  \E i \in DOMAIN p : IsParam(p[i]) /\ p[i].name = name
  <2>1. PICK k \in 1..Len(names) : name = names[k]
    BY <1>3 DEF Range
  <2>2. f[k] \in ParamsAt(path) \cap 1..Len(path) /\ path[f[k]].name = name
    BY <1>2, <2>1 DEF Enumerates
  <2>3. PICK i \in 1..Len(p) : e[i] = f[k]
    BY <1>1, <1>4, <2>2 DEF Enumerates
  <2>4. p[i] = path[f[k]] /\ IsParam(path[f[k]])
    BY <1>1, <2>2, <2>3 DEF ParamsAt
  <2>5. QED
    BY <1>3, <2>2, <2>3, <2>4
<1>7. QED
  BY <1>5, <1>6 DEF p, names

\* The checker lets no name stand twice: neither among the names, nor, then,
\* among the parts.
LEMMA CheckedNamesOnce ==
    ASSUME NEW path \in Seq(Segment), check_route_params(path) = {}
    PROVE  \A i, j \in DOMAIN pattern_parts(path) :
              /\ IsParam(pattern_parts(path)[i]) /\ IsParam(pattern_parts(path)[j])
              /\ pattern_parts(path)[i].name = pattern_parts(path)[j].name
              => i = j
<1> DEFINE p == pattern_parts(path)
           names == ParamNames(path)
           kept == NamedParams(path)
<1>1. "E_HTTP_0103" \notin check_route_params(path) /\ "E_HTTP_0104" \notin check_route_params(path)
  OBVIOUS
<1>2. Range(names) \subseteq Identifiers /\ IsInjective(kept)
  BY <1>1 DEF check_route_params
<1>3. names \in Seq(STRING) /\ DOMAIN names = 1..Len(names)
  BY Names
<1>4. {i \in DOMAIN names : names[i] \in Identifiers} = DOMAIN names
  BY <1>2 DEF Range
<1>5. kept = SelectAt(names, DOMAIN names)
  BY <1>4 DEF NamedParams
<1>6. PICK g : /\ Enumerates(g, DOMAIN names, Len(kept), Len(names))
               /\ \A i \in 1..Len(kept) : kept[i] = names[g[i]]
  BY <1>3, <1>5, SelectAtPositions
<1>7. kept \in Seq(STRING) /\ DOMAIN kept = 1..Len(kept)
  BY <1>3, <1>5, SelectAtPositions
<1>8. PICK e : /\ Enumerates(e, PartsAt(path), Len(p), Len(path))
               /\ \A i \in 1..Len(p) : p[i] = path[e[i]]
  BY Parts
<1>9. PICK f : /\ Enumerates(f, ParamsAt(path), Len(names), Len(path))
               /\ \A i \in 1..Len(names) : names[i] = path[f[i]].name
  BY Names
<1>10. p \in Seq(Segment) /\ DOMAIN p = 1..Len(p) /\ Len(p) \in Nat
  BY Parts
<1> HIDE DEF p, names, kept
<1>11. \A i, j \in DOMAIN names : names[i] = names[j] => i = j
  <2> SUFFICES ASSUME NEW i \in 1..Len(names), NEW j \in 1..Len(names), names[i] = names[j]
               PROVE  i = j
    BY <1>3
  <2>1. PICK a \in 1..Len(kept) : g[a] = i
    BY <1>3, <1>6 DEF Enumerates
  <2>2. PICK b \in 1..Len(kept) : g[b] = j
    BY <1>3, <1>6 DEF Enumerates
  <2>3. kept[a] = kept[b]
    BY <1>6, <2>1, <2>2
  <2>4. a = b
    BY <1>2, <1>7, <2>3 DEF IsInjective
  <2>5. QED
    BY <2>1, <2>2, <2>4
<1>12. ASSUME NEW i \in 1..Len(p), NEW j \in 1..Len(p),
              IsParam(p[i]), IsParam(p[j]), p[i].name = p[j].name
       PROVE  i = j
  <2>1. /\ p[i] = path[e[i]] /\ e[i] \in 1..Len(path)
        /\ p[j] = path[e[j]] /\ e[j] \in 1..Len(path)
    BY <1>8 DEF Enumerates
  <2>2. e[i] \in ParamsAt(path) /\ e[j] \in ParamsAt(path)
    BY <1>12, <2>1 DEF ParamsAt
  <2>3. PICK a \in 1..Len(names) : f[a] = e[i]
    BY <1>9, <2>1, <2>2 DEF Enumerates
  <2>4. PICK b \in 1..Len(names) : f[b] = e[j]
    BY <1>9, <2>1, <2>2 DEF Enumerates
  <2>5. names[a] = names[b]
    BY <1>9, <1>12, <2>1, <2>3, <2>4
  <2>6. a = b
    BY <1>3, <1>11, <2>5
  <2>7. e[i] = e[j]
    BY <2>3, <2>4, <2>6
  <2>8. ~(i < j) /\ ~(j < i)
    BY <1>8, <2>1, <2>7 DEF Enumerates
  <2>9. QED
    BY <1>10, <2>8
<1>13. QED
  BY <1>10, <1>12 DEF p

-----------------------------------------------------------------------------
\* Matching.

\* A set of one index has that index as its greatest.
LEMMA MaxOfOne ==
    ASSUME NEW i \in Nat
    PROVE  Max({i}) = i
BY DEF Max

\* What match_route computes is the definition of an instance, and its
\* parameters spell the request, for a pattern the checker has passed.
LEMMA MatchIsInstance ==
    ASSUME NEW pattern \in Seq(Segment), check_route_params(pattern) = {},
           NEW path \in Seq(STRING)
    PROVE  /\ match_route(pattern, path).matched <=> IsInstance(path, pattern)
           /\ match_route(pattern, path).matched =>
                 Spells(match_route(pattern, path).params, pattern, path)
<1> DEFINE p == pattern_parts(pattern)
           q == path_parts(path)
           names == Range(ParamNames(pattern))
           At(name) == {i \in DOMAIN p : IsParam(p[i]) /\ p[i].name = name}
           params == [name \in names |-> q[Max(At(name))]]
           Differ == Len(p) # Len(q) \/ \E i \in DOMAIN p : ~IsParam(p[i]) /\ p[i].name # q[i]
           spelled(m) == [i \in DOMAIN p |-> IF IsParam(p[i]) THEN m[p[i].name] ELSE p[i].name]
<1>1. match_route(pattern, path) = IF Differ THEN NoMatch ELSE [matched |-> TRUE, params |-> params]
  BY DEF match_route
<1>2. \A m : Spells(m, pattern, path) <=> q = spelled(m)
  BY DEF Spells
<1>3. IsInstance(path, pattern) <=> \E m \in [names -> Range(q)] : q = spelled(m)
  BY <1>2 DEF IsInstance
<1>4. /\ DOMAIN p = 1..Len(p) /\ Len(p) \in Nat
      /\ DOMAIN q = 1..Len(q) /\ Len(q) \in Nat
  BY Parts, Texts
<1>5. \A i \in DOMAIN p : IsParam(p[i]) => p[i].name \in names
  BY NamesAreInParts
<1>6. \A name \in names : \E i \in DOMAIN p : IsParam(p[i]) /\ p[i].name = name
  BY NamesAreInParts
<1>7. \A i, j \in DOMAIN p : IsParam(p[i]) /\ IsParam(p[j]) /\ p[i].name = p[j].name => i = j
  BY CheckedNamesOnce
<1> HIDE DEF p, q, names
<1>8. \A i \in DOMAIN p : IsParam(p[i]) => Max(At(p[i].name)) = i
  <2> SUFFICES ASSUME NEW i \in DOMAIN p, IsParam(p[i])
               PROVE  Max(At(p[i].name)) = i
    OBVIOUS
  <2>1. At(p[i].name) = {i}
    BY <1>7
  <2>2. QED
    BY <1>4, <2>1, MaxOfOne
<1>9. ASSUME ~Differ
      PROVE  params \in [names -> Range(q)] /\ q = spelled(params)
  <2>1. ASSUME NEW name \in names
        PROVE  params[name] \in Range(q)
    <3>1. PICK i \in DOMAIN p : IsParam(p[i]) /\ p[i].name = name
      BY <1>6
    <3>2. params[name] = q[i] /\ i \in DOMAIN q
      BY <1>4, <1>8, <1>9, <3>1
    <3>3. QED
      BY <3>2 DEF Range
  <2>2. ASSUME NEW i \in DOMAIN p
        PROVE  spelled(params)[i] = q[i]
    <3>1. CASE IsParam(p[i])
      BY <1>5, <1>8, <3>1
    <3>2. CASE ~IsParam(p[i])
      BY <1>9, <3>2
    <3>3. QED
      BY <3>1, <3>2
  <2>3. DOMAIN spelled(params) = DOMAIN q /\ q = [i \in DOMAIN q |-> q[i]]
    <3>1. q \in Seq(STRING)
      BY Texts DEF q
    <3>2. DOMAIN p = DOMAIN q
      BY <1>4, <1>9
    <3>3. q = [i \in DOMAIN q |-> q[i]]
      BY <3>1
    <3>4. QED
      BY <3>2, <3>3
  <2>4. q = spelled(params)
    BY <2>2, <2>3
  <2>5. QED
    BY <2>1, <2>4
<1>10. ASSUME NEW m, q = spelled(m)
       PROVE  ~Differ
  <2>1. DOMAIN q = DOMAIN p
    BY <1>10
  <2>2. Len(p) = Len(q)
    <3>1. \A k, l \in Nat : 1..k = 1..l => k = l
      OBVIOUS
    <3>2. 1..Len(p) = 1..Len(q)
      BY <1>4, <2>1
    <3>3. QED
      BY ONLY <1>4, <3>1, <3>2
  <2>3. \A i \in DOMAIN p : ~IsParam(p[i]) => p[i].name = q[i]
    BY <1>10
  <2>4. QED
    BY <2>2, <2>3
<1>11. NoMatch.matched = FALSE
  BY DEF NoMatch
<1> HIDE DEF Differ, params, spelled
<1>12. match_route(pattern, path).matched <=> ~Differ
  BY <1>1, <1>11
<1>13. QED
  BY <1>1, <1>2, <1>3, <1>9, <1>10, <1>12

-----------------------------------------------------------------------------
\* The document.

\* The template of a path has the parts of the path, and its names: only the
\* spelling and the type of its parameters are lost.
LEMMA TemplateInstances ==
    ASSUME NEW pattern \in Seq(Segment), NEW path
    PROVE  IsInstance(path, openapi_path(pattern)) <=> IsInstance(path, pattern)
<1> DEFINE template == openapi_path(pattern)
<1>1. template \in Seq(Segment) /\ Len(template) = Len(pattern) /\ DOMAIN template = DOMAIN pattern
  <2>1. DOMAIN pattern = 1..Len(pattern) /\ Len(pattern) \in Nat
    OBVIOUS
  <2>2. \A i \in DOMAIN pattern : template[i] \in Segment
    <3> SUFFICES ASSUME NEW i \in DOMAIN pattern
                 PROVE  template[i] \in Segment
      OBVIOUS
    <3>1. pattern[i] \in Segment
      BY <2>1
    <3>2. Braced(pattern[i].name, "none") \in Segment
      <4>1. pattern[i].name \in STRING
        BY <3>1 DEF Segment
      <4>2. QED
        BY <4>1 DEF Braced, Segment
    <3>3. template[i] \in {pattern[i], Braced(pattern[i].name, "none")}
      BY DEF openapi_path
    <3>4. QED
      BY <3>1, <3>2, <3>3
  <2>3. DOMAIN template = DOMAIN pattern
    BY DEF openapi_path
  <2>4. template = [i \in 1..Len(pattern) |-> template[i]]
    BY <2>1 DEF openapi_path
  <2> HIDE DEF template
  <2>5. QED
    BY <2>1, <2>2, <2>3, <2>4
<1>2. \A i \in DOMAIN pattern :
         /\ IsParam(template[i]) <=> IsParam(pattern[i])
         /\ template[i].name = pattern[i].name
         /\ template[i] # Empty <=> pattern[i] # Empty
  <2> SUFFICES ASSUME NEW i \in DOMAIN pattern
               PROVE  /\ IsParam(template[i]) <=> IsParam(pattern[i])
                      /\ template[i].name = pattern[i].name
                      /\ template[i] # Empty <=> pattern[i] # Empty
    OBVIOUS
  <2>1. CASE IsParam(pattern[i])
    <3>1. template[i] = Braced(pattern[i].name, "none")
      BY <2>1 DEF openapi_path
    <3>2. IsParam(template[i]) /\ template[i].name = pattern[i].name
      BY <3>1 DEF Braced, IsParam
    <3>3. QED
      BY <2>1, <3>2, ParamsCount
  <2>2. CASE ~IsParam(pattern[i])
    <3>1. template[i] = pattern[i]
      BY <2>2 DEF openapi_path
    <3>2. QED
      BY <3>1
  <2>3. QED
    BY <2>1, <2>2
<1> HIDE DEF template
<1>3. PartsAt(template) = PartsAt(pattern) /\ ParamsAt(template) = ParamsAt(pattern)
  BY <1>1, <1>2 DEF PartsAt, ParamsAt
<1>4. /\ pattern_parts(template) = SelectAt(template, PartsAt(pattern))
      /\ pattern_parts(pattern) = SelectAt(pattern, PartsAt(pattern))
  BY <1>3 DEF pattern_parts, PartsAt
<1>5. /\ DOMAIN pattern_parts(template) = DOMAIN pattern_parts(pattern)
      /\ \A i \in DOMAIN pattern_parts(pattern) :
            /\ IsParam(pattern_parts(template)[i]) <=> IsParam(pattern_parts(pattern)[i])
            /\ pattern_parts(template)[i].name = pattern_parts(pattern)[i].name
  <2> DEFINE keep == PartsAt(pattern)
             p == SelectAt(pattern, keep)
             t == SelectAt(template, keep)
  <2>0. /\ p \in Seq(Segment) /\ t \in Seq(Segment) /\ Len(t) = Len(p)
        /\ \E e : /\ Enumerates(e, keep, Len(p), Len(pattern))
                  /\ \A i \in 1..Len(p) : p[i] = pattern[e[i]] /\ t[i] = template[e[i]]
    <3> HIDE DEF keep
    <3>1. Len(pattern) = Len(template)
      BY <1>1
    <3>2. QED
      BY <1>1, <3>1, SelectAtBoth
  <2> HIDE DEF p, t
  <2>1. PICK e : /\ Enumerates(e, keep, Len(p), Len(pattern))
                 /\ \A i \in 1..Len(p) : p[i] = pattern[e[i]] /\ t[i] = template[e[i]]
    BY <2>0
  <2>2. /\ DOMAIN p = 1..Len(p) /\ DOMAIN t = 1..Len(t) /\ Len(t) = Len(p)
    BY <2>0
  <2>3. \A i \in 1..Len(p) : e[i] \in DOMAIN pattern
    BY <2>1 DEF keep, Enumerates, PartsAt
  <2>4. QED
    BY <1>2, <1>4, <2>1, <2>2, <2>3 DEF p, t
<1>6. ParamNames(template) = ParamNames(pattern)
  <2> DEFINE keep == ParamsAt(pattern)
             p == SelectAt(pattern, keep)
             t == SelectAt(template, keep)
  <2>0. /\ p \in Seq(Segment) /\ t \in Seq(Segment) /\ Len(t) = Len(p)
        /\ \E e : /\ Enumerates(e, keep, Len(p), Len(pattern))
                  /\ \A i \in 1..Len(p) : p[i] = pattern[e[i]] /\ t[i] = template[e[i]]
    <3> HIDE DEF keep
    <3>1. Len(pattern) = Len(template)
      BY <1>1
    <3>2. QED
      BY <1>1, <3>1, SelectAtBoth
  <2> HIDE DEF p, t
  <2>1. PICK e : /\ Enumerates(e, keep, Len(p), Len(pattern))
                 /\ \A i \in 1..Len(p) : p[i] = pattern[e[i]] /\ t[i] = template[e[i]]
    BY <2>0
  <2>2. /\ DOMAIN p = 1..Len(p) /\ DOMAIN t = 1..Len(t) /\ Len(t) = Len(p)
    BY <2>0
  <2>3. /\ ParamNames(pattern) = [i \in DOMAIN p |-> p[i].name]
        /\ ParamNames(template) = [i \in DOMAIN t |-> t[i].name]
    BY <1>3 DEF ParamNames, ParamsAt, p, t
  <2>4. \A i \in 1..Len(p) : e[i] \in DOMAIN pattern
    BY <2>1 DEF keep, Enumerates, ParamsAt
  <2>5. \A i \in DOMAIN p : p[i].name = t[i].name
    BY <1>2, <2>1, <2>2, <2>4
  <2>6. QED
    BY <2>2, <2>3, <2>5
<1>7. \A m : Spells(m, template, path) <=> Spells(m, pattern, path)
  BY <1>5 DEF Spells
<1>8. QED
  BY <1>6, <1>7 DEF IsInstance, template

-----------------------------------------------------------------------------
\* The invariant: every error of a route's parameters was kept, a service
\* that serves has none, its document is that of its routes, and the last
\* answer is what matching gave.

Answered ==
    served # NoRequest =>
        /\ stage = "serve"
        /\ served.path \in Requested
        /\ served.route = route_for(served.method, served.path)
        /\ served.route # 0 =>
              served.params = match_route(routes[served.route].path, served.path).params

Inv ==
    /\ stage \in {"check", "serve", "refused"}
    /\ routes \in Seq([method : Methods, path : Paths]) /\ Len(routes) <= MaxRoutes
    /\ \A i \in DOMAIN routes : check_route_params(routes[i].path) \subseteq errors
    /\ stage = "serve" => errors = {} /\ routes # << >> /\ docs = paths(routes)
    /\ Answered

\* The invariant holds before the first route is registered.
LEMMA InvInit == Init => Inv
BY PathAssumption DEF Init, Inv, Answered

\* Every step keeps the invariant.
LEMMA InvStep == Inv /\ [Next]_vars => Inv'
<1> SUFFICES ASSUME Inv, [Next]_vars PROVE Inv'
  OBVIOUS
<1>1. ASSUME NEW method \in Methods, NEW path \in Paths, Declare(method, path)
      PROVE  Inv'
  <2> DEFINE route == [method |-> method, path |-> path]
  <2>1. /\ stage = "check" /\ Len(routes) < MaxRoutes
        /\ routes' = Append(routes, route)
        /\ errors' = errors \cup resolve_route(route) \cup check_route_shape(route)
        /\ UNCHANGED <<stage, docs, served>>
    BY <1>1 DEF Declare
  <2>2. routes \in Seq([method : Methods, path : Paths]) /\ route \in [method : Methods, path : Paths]
    BY DEF Inv
  <2>3. check_route_params(path) \subseteq errors'
    BY <2>1 DEF check_route_shape
  <2>4. served' = NoRequest
    BY <2>1 DEF Inv, Answered
  <2>5. \A i \in DOMAIN routes : check_route_params(routes[i].path) \subseteq errors'
    BY <2>1 DEF Inv
  <2>6. routes' \in Seq([method : Methods, path : Paths]) /\ Len(routes') <= MaxRoutes
    BY <2>1, <2>2, PathAssumption
  <2>7. \A i \in DOMAIN routes' : check_route_params(routes'[i].path) \subseteq errors'
    <3> SUFFICES ASSUME NEW i \in DOMAIN routes'
                 PROVE  check_route_params(routes'[i].path) \subseteq errors'
      OBVIOUS
    <3>1. (i \in DOMAIN routes /\ routes'[i] = routes[i]) \/ routes'[i] = route
      BY <2>1, <2>2
    <3>2. route.path = path
      OBVIOUS
    <3>3. QED
      BY <2>3, <2>5, <3>1, <3>2
  <2>8. QED
    BY <2>1, <2>4, <2>6, <2>7 DEF Inv, Answered
<1>2. CASE Prepare
  BY <1>2 DEF Prepare, Inv, Answered
<1>3. ASSUME NEW method \in Methods, NEW path \in Requested, Serve(method, path)
      PROVE  Inv'
  <2>1. /\ stage = "serve" /\ UNCHANGED <<stage, routes, errors, docs>>
        /\ served'.method = method /\ served'.path = path /\ served'.route = route_for(method, path)
        /\ served'.route # 0 => served'.params = match_route(routes[served'.route].path, path).params
    BY <1>3 DEF Serve
  <2>2. Answered'
    BY <2>1 DEF Answered, route_for
  <2>3. QED
    BY <2>1, <2>2 DEF Inv
<1>4. CASE UNCHANGED vars
  BY <1>4 DEF vars, Inv, Answered, route_for
<1>5. QED
  BY <1>1, <1>2, <1>3, <1>4 DEF Next

\* The invariant holds of every behaviour.
LEMMA InvAlways == Spec => []Inv
BY InvInit, InvStep, PTL DEF Spec

-----------------------------------------------------------------------------
\* What a served request was given, in terms of instances.

\* A route of a service that serves was passed by the checker.
LEMMA RoutesChecked ==
    ASSUME Inv, stage = "serve", NEW i \in DOMAIN routes
    PROVE  /\ routes[i].path \in Seq(Segment) /\ routes[i].path \in Paths
           /\ check_route_params(routes[i].path) = {}
<1>1. routes \in Seq([method : Methods, path : Paths])
  BY DEF Inv
<1>2. routes[i] \in [method : Methods, path : Paths]
  <2> DEFINE T == [method : Methods, path : Paths]
  <2>1. routes \in Seq(T)
    BY <1>1
  <2> HIDE DEF T
  <2>2. routes[i] \in T
    BY <2>1
  <2>3. QED
    BY <2>2 DEF T
<1>3. check_route_params(routes[i].path) \subseteq {}
  BY DEF Inv
<1>4. QED
  BY <1>2, <1>3, PathAssumption

\* The routes a request is an instance of.
Instances(method, path) ==
    {i \in DOMAIN routes : routes[i].method = method /\ IsInstance(path, routes[i].path)}

\* route_for finds the first of them.
LEMMA FindsFirst ==
    ASSUME Inv, stage = "serve", NEW method, NEW path \in Requested
    PROVE  IF Instances(method, path) = {} THEN route_for(method, path) = 0
           ELSE /\ route_for(method, path) \in Instances(method, path)
                /\ route_for(method, path) \in 1..Len(routes)
                /\ \A i \in Instances(method, path) : route_for(method, path) <= i
<1> DEFINE candidates == {i \in DOMAIN routes :
                            routes[i].method = method /\ match_route(routes[i].path, path).matched}
<1>1. candidates = Instances(method, path)
  <2>1. path \in Seq(STRING)
    BY PathAssumption
  <2>2. \A i \in DOMAIN routes :
           match_route(routes[i].path, path).matched <=> IsInstance(path, routes[i].path)
    BY <2>1, RoutesChecked, MatchIsInstance
  <2>3. QED
    BY <2>2 DEF Instances
<1>2. route_for(method, path) = IF candidates = {} THEN 0 ELSE Min(candidates)
  BY DEF route_for
<1>3. candidates \subseteq 1..Len(routes)
  BY DEF Inv
<1> HIDE DEF candidates
<1>4. ASSUME candidates # {}
      PROVE  Min(candidates) \in candidates /\ \A i \in candidates : Min(candidates) <= i
  <2>1. candidates \subseteq Nat
    BY <1>3
  <2>2. \E i \in candidates : \A j \in candidates : i <= j
    BY <1>4, <2>1, NatMin
  <2>3. QED
    BY <2>2 DEF Min
<1>5. QED
  BY <1>1, <1>2, <1>3, <1>4

\* A service keeps its types through checking, preparing and serving: only one
\* without a diagnostic is ever served (check_routes, prepare_project).
THEOREM RoutesTypeCorrect == Spec => []TypeOK
<1>1. Inv => TypeOK
  <2> SUFFICES ASSUME Inv PROVE TypeOK
    OBVIOUS
  <2>1. served # NoRequest => served.route \in 0..Len(routes)
    <3> SUFFICES ASSUME served # NoRequest PROVE served.route \in 0..Len(routes)
      OBVIOUS
    <3>1. /\ stage = "serve" /\ served.path \in Requested
          /\ served.route = route_for(served.method, served.path)
      BY DEF Inv, Answered
    <3>2. Len(routes) \in Nat
      BY DEF Inv
    <3>3. QED
      BY <3>1, <3>2, FindsFirst
  <2>2. QED
    BY <2>1 DEF Inv, Answered, TypeOK
<1>2. QED
  BY <1>1, InvAlways, PTL

\* The parameters of a served request, put in place of their names, spell the
\* path that was requested, up to empty segments (match_route).
THEOREM ParamsSpell == Spec => []ParamsSpellThePath
<1>1. Inv => ParamsSpellThePath
  <2> SUFFICES ASSUME Inv, served.route # 0
               PROVE  Spells(served.params, routes[served.route].path, served.path)
    BY DEF ParamsSpellThePath
  <2>1. served # NoRequest
    BY DEF NoRequest
  <2>2. /\ stage = "serve" /\ served.path \in Requested
        /\ served.route = route_for(served.method, served.path)
        /\ served.params = match_route(routes[served.route].path, served.path).params
    BY <2>1 DEF Inv, Answered
  <2>3. served.route \in Instances(served.method, served.path)
    BY <2>2, FindsFirst
  <2>4. served.route \in DOMAIN routes /\ IsInstance(served.path, routes[served.route].path)
    BY <2>3 DEF Instances
  <2>5. served.path \in Seq(STRING)
    BY <2>2, PathAssumption
  <2>6. QED
    BY <2>2, <2>4, <2>5, RoutesChecked, MatchIsInstance
<1>2. QED
  BY <1>1, InvAlways, PTL

\* A request is served by the first declared route it is an instance of, and
\* by none only if there is none (HttpContractManifest::route_for).
THEOREM FirstInstance == Spec => []FirstInstanceServes
<1>1. Inv => FirstInstanceServes
  <2> SUFFICES ASSUME Inv, served # NoRequest
               PROVE  FirstInstanceServes
    BY DEF FirstInstanceServes
  <2>1. /\ stage = "serve" /\ served.path \in Requested
        /\ served.route = route_for(served.method, served.path)
    BY DEF Inv, Answered
  <2>2. QED
    BY <2>1, FindsFirst DEF FirstInstanceServes, Instances
<1>2. QED
  BY <1>1, InvAlways, PTL

\* What is served is in the exported document, and what is in the document is
\* served: no route overwrites another under its OpenAPI path (paths, openapi_path).
THEOREM ServedDocumented == Spec => []ServedIffDocumented
<1>1. Inv => ServedIffDocumented
  <2> SUFFICES ASSUME Inv, served # NoRequest
               PROVE  served.route # 0 <=>
                         \E key \in DOMAIN docs :
                            key[2] = served.method /\ IsInstance(served.path, key[1])
    BY DEF ServedIffDocumented
  <2>1. /\ stage = "serve" /\ served.path \in Requested
        /\ served.route = route_for(served.method, served.path)
    BY DEF Inv, Answered
  <2>2. Instances(served.method, served.path) \subseteq 1..Len(routes)
    BY DEF Inv, Instances
  <2>3. served.route # 0 <=> \E i \in DOMAIN routes :
           routes[i].method = served.method /\ IsInstance(served.path, routes[i].path)
    BY <2>1, <2>2, FindsFirst DEF Instances
  <2>4. DOMAIN docs = {<<openapi_path(routes[i].path), routes[i].method>> : i \in DOMAIN routes}
    BY <2>1 DEF Inv, paths
  <2>5. \A i \in DOMAIN routes :
           IsInstance(served.path, openapi_path(routes[i].path)) <=> IsInstance(served.path, routes[i].path)
    BY <2>1, RoutesChecked, TemplateInstances
  <2> DEFINE Key(i) == <<openapi_path(routes[i].path), routes[i].method>>
  <2>6. \A i \in DOMAIN routes :
           /\ Key(i) \in DOMAIN docs
           /\ Key(i)[1] = openapi_path(routes[i].path) /\ Key(i)[2] = routes[i].method
    BY <2>4
  <2>7. \A key \in DOMAIN docs : \E i \in DOMAIN routes : key = Key(i)
    BY <2>4
  <2> HIDE DEF Key
  <2>8. QED
    BY <2>3, <2>5, <2>6, <2>7
<1>2. QED
  BY <1>1, InvAlways, PTL

=============================================================================
