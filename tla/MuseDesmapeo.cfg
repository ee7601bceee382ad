SPECIFICATION Spec
CONSTANTS
  p1 = p1
  p2 = p2
  p3 = p3
  fa = fa
  fb = fb
  v1 = v1
  v2 = v2
  Nada = Nada
  Programas = {p1, p2}
  Valores = {v1}
  path <- MCTodosA
  flags <- MCCompartido
  paginasDe <- MCPaginas
  Accesos <- MCUnAcceso
  Descargas <- MCNinguna
  Coordinados = FALSE
  SyncSoloUsadas = FALSE
  g_cantidadFrames = 4
  lengthPagina = 2
CHECK_DEADLOCK FALSE
INVARIANTS
  CierraElUltimo
