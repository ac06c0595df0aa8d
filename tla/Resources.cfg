SPECIFICATION ResourcesSpec
CONSTANTS
  Files = {egg, css, ogg}
  Reloading = {egg, css}
  Streamed = {ogg}
  Script = egg
  Addresses = {a1, a2, a3}
  Versions = {v1, v2}
  Partial = partial
  Null = null
  MaxWrites = 2
INVARIANT LoadedFound
PROPERTIES FreshInTheEnd ReloadsEnd
