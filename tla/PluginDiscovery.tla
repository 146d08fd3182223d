---------------------------- MODULE PluginDiscovery ----------------------------
(***************************************************************************)
(* plugins/loader.py and plugins/registry.py: which plugins a run has, and *)
(* which issues their discovery leaves.  A plugin on offer is a record     *)
(* with its name (a number: names are sorted), whether an instance with    *)
(* metadata can be made of it, and whether it accepts this version.        *)
(***************************************************************************)
EXTENDS Sublists

(* PluginRegistry.register raises for what is no plugin and for a name     *)
(* that is taken.                                                          *)
Registers(registry, plugin) ==
  plugin.usable /\ \A i \in DOMAIN registry : registry[i].name # plugin.name

(* Built-in plugins and entry points are registered each on its own.       *)
RegisterEach(registry, plugins) ==
  FoldLeft(LAMBDA known, plugin : IF Registers(known, plugin) THEN Append(known, plugin) ELSE known,
           registry, plugins)

(* _register_from_module: what raises ends the module, and what has been   *)
(* registered by then stays.                                               *)
(* Mutant: it ends the discovery of every later module as well.            *)
RegisterModuleOnce(found, module) ==
  FoldLeft(LAMBDA f, plugin : IF ~f.ok THEN f
             ELSE IF Registers(f.registry, plugin) THEN [f EXCEPT !.registry = Append(@, plugin)]
             ELSE [f EXCEPT !.ok = FALSE], found, module)

RegisterModule(found, module) ==
  FoldLeft(LAMBDA f, plugin : IF ~f.ok THEN f
             ELSE IF Registers(f.registry, plugin) THEN [f EXCEPT !.registry = Append(@, plugin)]
             ELSE [f EXCEPT !.ok = FALSE], [found EXCEPT !.ok = TRUE], module)

(* _load_from_plugin_paths: a path that is not there, and a module that    *)
(* raises, is an issue.                                                    *)
RegisterPaths(registry, paths) ==
  FoldLeftDomain(LAMBDA f, i :
      LET module == RegisterModule(f, paths[i].plugins)
      IN  IF ~paths[i].exists THEN [f EXCEPT !.issues = @ \cup {<<"load", i>>}]
          ELSE IF module.ok THEN module
          ELSE [module EXCEPT !.issues = @ \cup {<<"load", i>>}],
    [registry |-> registry, ok |-> TRUE, issues |-> {}], paths)

Discovered(config) ==
  LET onPaths == RegisterPaths(RegisterEach(<<>>, config.builtin), config.paths)
      points == config.entry_points
      before(i) == RegisterEach(onPaths.registry, SubSeq(points, 1, i - 1))
      refused == {i \in DOMAIN points : ~Registers(before(i), points[i])}
  IN  [registry |-> RegisterEach(onPaths.registry, points),
       issues   |-> onPaths.issues \cup {<<"load", Len(config.paths) + i>> : i \in refused}]

(* load_plugins: those that do not accept this version are left out; of    *)
(* the others, those asked for in the order asked for, or all by name.     *)
LoadedPlugins(config) ==
  LET found == Discovered(config)
      offered == {p.name : p \in ToSet(found.registry)}
      compatible == {p.name : p \in {q \in ToSet(found.registry) : q.compatible}}
      asked == ToSet(config.enabled_plugins)
  IN  IF ~config.enabled THEN [active |-> <<>>, issues |-> {}]
      ELSE [active |-> IF asked = {} THEN Ascending(compatible)
                       ELSE Within(config.enabled_plugins, compatible),
            issues |-> found.issues
                         \cup {<<"compatibility", name>> : name \in offered \ compatible}
                         \cup {<<"selection", name>> : name \in asked \ compatible}]
=============================================================================
