SPECIFICATION SpecA
CONSTANTS
  p1 = p1
  p2 = p2
  p3 = p3
  fa = fa
  v1 = v1
  v2 = v2
  Nada = Nada
  Programas = {p1, p2}
  Valores = {v1, v2}
  path <- MCPath
  flags <- MCCompartido
  paginasDe <- MCPaginas
  Accesos <- MCAccesos
  Descargas <- MCNinguna
  Coordinados = TRUE
  SyncSoloUsadas = TRUE
  g_cantidadFrames = 4
  lengthPagina = 2
  contenidoDe <- MCConDatos
CHECK_DEADLOCK FALSE
INVARIANTS
  LeeLoPrometido
